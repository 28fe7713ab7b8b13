----------------------------- MODULE ConnLimit ------------------------------
(***************************************************************************)
(* The per-client connection limiter (internal/connlimit), seen by one     *)
(* client IP: IPs share nothing but locks.  A counter is an object: it is  *)
(* allocated when the IP enters its shard's map, and callers hold on to it *)
(* after the map has let it go.  The steps are the critical sections and   *)
(* the atomic operations outside them.                                     *)
(***************************************************************************)
EXTENDS Integers, FiniteSets

CONSTANTS
  Conn,    \* the client's connections, each handled by a goroutine
  Caps     \* the per-IP limits an admin sets

ASSUME ConnAssumption == IsFiniteSet(Conn) /\ Caps \subseteq Nat \ {0} /\ Caps # {}

VARIABLES
  ctr,     \* the counters' values
  entry,   \* the counter in the shard's map, 0 when the IP is not in it
  conn,    \* per connection: where its handler is, and the counter it holds
  limiter, \* maxPerIP, the enabled flag, and an Enable between its two stores
  cut      \* history: a Release has removed the entry of another counter

connVars == <<ctr, entry, conn, limiter, cut>>

\* A counter nobody can reach is garbage: these are enough.
Counter == 1..(Cardinality(Conn) + 1)

\* "undo": refused, its count not yet taken back.  "leave": Release has the
\* counter.  "drop": Release has decremented it to zero or less.
ConnTypeOK ==
  /\ entry \in Counter \cup {0}
  /\ ctr \in [Counter -> -Cardinality(Conn)..Cardinality(Conn)]
  /\ conn \in [Conn -> [at : {"new", "undo", "open", "leave", "drop"},
                        ctr : Counter \cup {0}]]
  /\ limiter \in [cap : Caps, on : BOOLEAN, enabling : BOOLEAN]
  /\ cut \in BOOLEAN

ConnInit ==
  /\ ctr = [i \in Counter |-> 0] /\ entry = 0
  /\ conn = [k \in Conn |-> [at |-> "new", ctr |-> 0]]
  /\ limiter \in [cap : Caps, on : {FALSE}, enabling : {FALSE}]
  /\ cut = FALSE

-----------------------------------------------------------------------------
Goes(k, at, i) == conn' = [conn EXCEPT ![k] = [at |-> at, ctr |-> i]]
Reachable == {entry} \cup {conn[k].ctr : k \in Conn}
Fresh == CHOOSE i \in Counter : i \notin Reachable

\* Acquire: find or add the IP's counter, count, and decide, under the lock.
Acquire(k) ==
  /\ conn[k].at = "new"
  /\ LET i == IF entry = 0 THEN Fresh ELSE entry
         n == (IF entry = 0 THEN 0 ELSE ctr[i]) + 1
     IN /\ entry' = i
        /\ ctr' = [ctr EXCEPT ![i] = n]
        /\ IF limiter.on /\ n > limiter.cap THEN Goes(k, "undo", i) ELSE Goes(k, "open", 0)
  /\ UNCHANGED <<limiter, cut>>

\* Acquire's refusal takes the count back, unless the map has let it go.
Undo(k) ==
  /\ conn[k].at = "undo"
  /\ Goes(k, "new", 0)
  /\ LET i == conn[k].ctr IN
     \/ entry # i /\ UNCHANGED <<ctr, entry>>
     \/ /\ entry = i
        /\ ctr' = [ctr EXCEPT ![i] = @ - 1]
        /\ entry' = IF ctr[i] - 1 <= 0 THEN 0 ELSE entry
  /\ UNCHANGED <<limiter, cut>>

\* Mutant: Release looks the counter up only while the limiter is enabled.
ReleaseWhenEnabled(k) ==
  /\ conn[k].at = "open"
  /\ IF entry = 0 \/ ~limiter.on THEN Goes(k, "new", 0) ELSE Goes(k, "leave", entry)
  /\ UNCHANGED <<ctr, entry, limiter, cut>>

\* Release looks the counter up; an IP without one has nothing to release.
Release(k) ==
  /\ conn[k].at = "open"
  /\ IF entry = 0 THEN Goes(k, "new", 0) ELSE Goes(k, "leave", entry)
  /\ UNCHANGED <<ctr, entry, limiter, cut>>

\* Its decrement, outside the lock.
Decrement(k) ==
  /\ conn[k].at = "leave"
  /\ LET i == conn[k].ctr
     IN /\ ctr' = [ctr EXCEPT ![i] = @ - 1]
        /\ IF ctr[i] - 1 <= 0 THEN Goes(k, "drop", i) ELSE Goes(k, "new", 0)
  /\ UNCHANGED <<entry, limiter, cut>>

\* Mutant: the count is not looked at again under the lock.
DropUnchecked(k) ==
  /\ conn[k].at = "drop" /\ Goes(k, "new", 0) /\ entry' = 0
  /\ cut' = (cut \/ entry \notin {0, conn[k].ctr})
  /\ UNCHANGED <<ctr, limiter>>

\* The lock again: the IP's entry goes if the counter in hand is still spent.
Drop(k) ==
  /\ conn[k].at = "drop"
  /\ LET i == conn[k].ctr
     IN /\ entry' = IF ctr[i] <= 0 THEN 0 ELSE entry
        /\ cut' = (cut \/ (ctr[i] <= 0 /\ entry \notin {0, i}))
  /\ Goes(k, "new", 0)
  /\ UNCHANGED <<ctr, limiter>>

\* Enable stores the limit, then the flag; Disable clears the flag.
Enable ==
  /\ \/ /\ ~limiter.enabling
        /\ \E n \in Caps : limiter' = [limiter EXCEPT !.cap = n, !.enabling = TRUE]
     \/ limiter.enabling /\ limiter' = [limiter EXCEPT !.on = TRUE, !.enabling = FALSE]
  /\ UNCHANGED <<ctr, entry, conn, cut>>

Disable ==
  /\ limiter.on /\ limiter' = [limiter EXCEPT !.on = FALSE]
  /\ UNCHANGED <<ctr, entry, conn, cut>>

ConnNext ==
  \/ \E k \in Conn : Acquire(k) \/ Undo(k) \/ Release(k) \/ Decrement(k) \/ Drop(k)
  \/ Enable \/ Disable

ConnSpec == ConnInit /\ [][ConnNext]_connVars

-----------------------------------------------------------------------------
Live == {k \in Conn : conn[k].at # "new"}

\* No count outlives its connection, whatever the order of releases, refusals,
\* and switching the limiter: the IP's counter never exceeds the connections
\* that are open or on their way in or out, so a client is never wedged over
\* its limit by connections that have gone.
CountsOnlyLive == entry # 0 => ctr[entry] <= Cardinality(Live)

\* "every admitted connection is counted exactly once and released exactly
\* once" (Acquire): with no handler inside the limiter, the counter is the
\* number of open connections.  The only order that breaks it is a Release that
\* comes back for the lock after its counter was dropped by another Release,
\* and removes the entry of the counter that took its place (README, 3.3).
CountedUnlessCut ==
  (~cut /\ \A k \in Conn : conn[k].at \in {"new", "open"})
    => Cardinality(Live) = IF entry = 0 THEN 0 ELSE ctr[entry]

=============================================================================
