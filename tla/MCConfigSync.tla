---------------------------- MODULE MCConfigSync ----------------------------
(***************************************************************************)
(* ConfigSync on small scenarios, whose state spaces add up:               *)
(* - one node that crashes once and whose profiles may be refused, and one *)
(*   that regains its lease as well, without hosts;                        *)
(* - one node with two publishes in flight and a lossy network;            *)
(* - a pair whose second node may overtake the first at its start, which   *)
(*   then imports the second's snapshot and goes on publishing, with a     *)
(*   lossy network;                                                        *)
(* - a pair that hands leadership over, with a lossy network and no hosts. *)
(***************************************************************************)
EXTENDS ConfigSync

MCScenarios ==
  {[cps |-> {First}, hosts |-> Hosts, issues |-> 3, handlers |-> 1, grants |-> 1,
    crashes |-> 1, faults |-> {"idp"}],
   [cps |-> {First}, hosts |-> {}, issues |-> 3, handlers |-> 1, grants |-> 2,
    crashes |-> 1, faults |-> {"idp"}],
   [cps |-> {First}, hosts |-> Hosts, issues |-> 3, handlers |-> 2, grants |-> 1,
    crashes |-> 0, faults |-> {"net"}],
   [cps |-> CP, hosts |-> Hosts, issues |-> 3, handlers |-> 1, grants |-> 1,
    crashes |-> 0, faults |-> {"net"}],
   [cps |-> CP, hosts |-> {}, issues |-> 3, handlers |-> 1, grants |-> 2,
    crashes |-> 0, faults |-> {"net"}]}

\* A leader, its standby and the failback to the first.
FailbackScenario ==
  {[cps |-> CP, hosts |-> Hosts, issues |-> 3, handlers |-> 1, grants |-> 3,
    crashes |-> 0, faults |-> {}]}

\* Blocklist.ApplyDelta one entry at a time, as the code runs it: ApplyHosts and
\* Toggle say what the whole chain does.
Steps == [added : SUBSET {"g", "h"}, removed : SUBSET {"g", "h"}]
ShortChains == UNION {[1..n -> Steps] : n \in 0..3}
Splice(hosts, d) == (hosts \ d.removed) \cup d.added
Flip(fp, d) == (fp \ Touched(d)) \cup (Touched(d) \ fp)
ASSUME ChainsFold ==
  \A chain \in ShortChains, old \in SUBSET {"g", "h"} :
    /\ ApplyHosts(old, chain) = FoldLeft(Splice, old, chain)
    /\ Toggle(old, chain) = FoldLeft(Flip, old, chain)
=============================================================================
