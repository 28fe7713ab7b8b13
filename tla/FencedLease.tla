---------------------------- MODULE FencedLease ----------------------------
(***************************************************************************)
(* What the fencing lease promises (the Provider contract of               *)
(* internal/halease/halease.go and the write gate of ha_fencing.go): a     *)
(* lease with one owner at a time, a token that grows with every grant,    *)
(* and write authority that is wielded only under the current token and is *)
(* always given up before the lease changes hands.                         *)
(***************************************************************************)
EXTENDS Naturals

CONSTANTS Node, NoNode

VARIABLES
  owner,  \* the node the lease is granted to, or NoNode
  token,  \* the last fencing token issued
  wield   \* the token each node writes with, 0 when it may not write

fvars == <<owner, token, wield>>

FInit == owner = NoNode /\ token = 0 /\ wield = [n \in Node |-> 0]

\* A free lease is granted under a new token.
Issue(n) ==
  /\ owner = NoNode
  /\ owner' = n /\ token' = token + 1
  /\ UNCHANGED wield

\* The owner may write, under the token it was granted.
Gain(n) ==
  /\ owner = n
  /\ wield' = [wield EXCEPT ![n] = token]
  /\ UNCHANGED <<owner, token>>

\* A node gives its write authority up (or loses it) at any time.
Lose(n) ==
  /\ wield' = [wield EXCEPT ![n] = 0]
  /\ UNCHANGED <<owner, token>>

\* The lease becomes free only when nobody writes under it.
Release ==
  /\ owner # NoNode /\ \A n \in Node : wield[n] = 0
  /\ owner' = NoNode
  /\ UNCHANGED <<token, wield>>

FNext == Release \/ \E n \in Node : Issue(n) \/ Gain(n) \/ Lose(n)

FSpec == FInit /\ [][FNext]_fvars
=============================================================================
