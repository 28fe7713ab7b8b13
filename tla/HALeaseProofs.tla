--------------------------- MODULE HALeaseProofs ---------------------------
(***************************************************************************)
(* Proofs about HALease for every set of nodes, every lease TTL and every  *)
(* number of grants.                                                       *)
(*                                                                         *)
(* The argument has three layers, each one inductive relative to the ones  *)
(* before it: TypeOK; LoopInv (which call, loop and grant goes with which  *)
(* role); FenceInv (what etcd granted, what the nodes hold and what is in  *)
(* flight agree).  The first two need nothing of the timing.  The third,   *)
(* and with it the absence of split brain and the refinement of            *)
(* FencedLease, rests on LagBounded: the time an answer may be under way   *)
(* is within the write margin.                                             *)
(***************************************************************************)
EXTENDS HALease, TLAPS

\* The timing condition the safety of the lease rests on.  The code does not
\* enforce it (haLeaseOpTimeout is 5 s, haLeaseWriteMargin 1 s); without it
\* AtMostOneWriter fails, as the run HALeaseLag shows.
LagBounded == MaxLag <= Margin

USE DEF Roles, Acquires, Ops, Phases, MaybeNode, Config, Call, Round
USE DEF etcd, loops, guards, tail, ha, store

-----------------------------------------------------------------------------
(* Type correctness.                                                       *)

\* Re-entering standby (StartAsStandby) keeps what it writes well typed.
LEMMA StandbyTypes ==
  ASSUME TypeOK, NEW n \in Node, StartAsStandby(n)
  PROVE  /\ role' \in [Node -> Roles] /\ disk' \in [Node -> Config]
         /\ promoted' \subseteq Node /\ pcSet' \subseteq Node
BY DEF TypeOK, StartAsStandby, SetRole, Save

\* So does taking the leader role with the configuration read at boot.
LEMMA AssumeLeaderTypes ==
  ASSUME TypeOK, NEW n \in Node, AssumeLeader(n)
  PROVE  /\ role' \in [Node -> Roles] /\ standbyAddr' \in [Node -> MaybeNode]
         /\ resumeSave' \in [Node -> Config] /\ disk' = disk
         /\ promoted' = promoted /\ pcSet' = pcSet
BY DEF TypeOK, AssumeLeader, SetRole

\* So does selfFence, whether it demotes a leader or returns early.
LEMMA SelfFenceTypes ==
  ASSUME TypeOK, NEW n \in Node, SelfFence(n)
  PROVE  /\ role' \in [Node -> Roles] /\ disk' \in [Node -> Config]
         /\ keepalive' \subseteq Node /\ recovering' = recovering
         /\ promoted' = promoted /\ pcSet' = pcSet /\ standbyAddr' = standbyAddr
         /\ lease' \in [Node -> [epoch : Nat, age : Nat]]
         /\ fencing' \in [Node -> {"no", "rearm", "resync"}] /\ overtaken' = overtaken
<1>1. CASE Demote(n)
  <2>1. disk' \in [Node -> Config]
    BY <1>1 DEF TypeOK, Demote, Save
  <2> QED BY <1>1, <2>1 DEF TypeOK, Demote, SetRole, NotHeld, Grant
<1>2. CASE FenceNothing(n)
  BY <1>2 DEF TypeOK, FenceNothing
<1> QED BY <1>1, <1>2 DEF SelfFence

\* The end of a keepalive round keeps the round well typed.
LEMMA RoundTypes ==
  ASSUME TypeOK, NEW n \in Node, RoundOver(n)
  PROVE  renew' \in [Node -> Round]
BY DEF TypeOK, RoundOver, NoRound

\* Sending, continuing and returning from a call keep the call well typed.
LEMMA CallTypes ==
  ASSUME TypeOK, NEW n \in Node
  PROVE  /\ Return(n) => call' \in [Node -> Call]
         /\ \A o \in Ops : Send(n, o) => call' \in [Node -> Call]
         /\ \A o \in Ops : Step(n, o) => call' \in [Node -> Call]
<1>1. \A o \in Ops : Request(o, "sent") \in Call /\ Request(o, "client") \in Call
  BY DEF Request
<1>2. Idle \in Call
  BY DEF Idle, Request
<1>3. \A c \in Call : [call EXCEPT ![n] = c] \in [Node -> Call]
  BY DEF TypeOK
<1> HIDE DEF Call, Ops
<1> QED BY <1>1, <1>2, <1>3 DEF Return, Send, Step

\* A lost answer leaves the key as it was or frees it.
LEMMA FailedTypes ==
  ASSUME TypeOK, NEW n \in Node, NEW o, Failed(n, o)
  PROVE  key' \in [holder : MaybeNode, epoch : Nat, left : Nat]
BY DEF TypeOK, Failed, FreeKey


\* Every action keeps the state well typed.
LEMMA TypeOKStep == TypeOK /\ [Next]_vars => TypeOK'
<1> USE NodeAssumption, TimeAssumption
<1> SUFFICES ASSUME TypeOK, [Next]_vars PROVE TypeOK'
  OBVIOUS
<1>1. CASE UNCHANGED vars
  BY <1>1 DEF TypeOK, vars
<1>2. CASE Tick
  BY <1>2 DEF TypeOK, Tick, Aged, Delayed, Waiting, Older
<1>3. CASE EtcdExpire
  BY <1>3 DEF TypeOK, EtcdExpire, FreeKey
<1>4. ASSUME NEW n \in Node, NEW m \in Node, RecordStandbyAddr(n, m) PROVE TypeOK'
  BY <1>4 DEF TypeOK, RecordStandbyAddr, Save
<1>5. ASSUME NEW n \in Node, EtcdGrant(n) PROVE TypeOK'
  BY <1>5 DEF TypeOK, EtcdGrant, Acquiring, Request
<1>6. ASSUME NEW n \in Node, EtcdTxn(n) PROVE TypeOK'
  BY <1>6 DEF TypeOK, EtcdTxn, Acquiring, Grants, Denies
<1>7. ASSUME NEW n \in Node, EtcdKeepAlive(n) PROVE TypeOK'
  <2>1. key' \in [holder : MaybeNode, epoch : Nat, left : Nat]
    BY <1>7 DEF TypeOK, EtcdKeepAlive, RoundHoldsKey
  <2>2. renew' \in [Node -> Round]
    <3>1. Answered(renew[n], "kept") \in Round /\ Answered(renew[n], "no") \in Round
      BY DEF TypeOK, Answered
    <3> QED BY <1>7, <3>1 DEF TypeOK, EtcdKeepAlive
  <2> QED BY <1>7, <2>1, <2>2 DEF TypeOK, EtcdKeepAlive, Answered
<1>8. ASSUME NEW n \in Node, EtcdVerify(n) PROVE TypeOK'
  BY <1>8 DEF TypeOK, EtcdVerify, Answered
<1>9. ASSUME NEW n \in Node, Boot(n) PROVE TypeOK'
  <2>1. call' \in [Node -> Call]
    BY <1>9, CallTypes DEF TypeOK, Boot
  <2>2. CASE n \in JoinNodes \/ disk[n].role = "standby"
    BY <1>9, <2>1, <2>2, StandbyTypes DEF TypeOK, Boot
  <2>3. CASE ~(n \in JoinNodes \/ disk[n].role = "standby")
    BY <1>9, <2>1, <2>3 DEF TypeOK, Boot, SetRole
  <2> QED BY <2>2, <2>3
<1>10. ASSUME NEW n \in Node, Crash(n) PROVE TypeOK'
  BY <1>10, CallTypes DEF TypeOK, Crash, SetRole, NotHeld, Grant, NoConfig, NoRound
<1>11. ASSUME NEW n \in Node, EnableAsLeader(n) PROVE TypeOK'
  BY <1>11, CallTypes DEF TypeOK, EnableAsLeader
<1>12. ASSUME NEW n \in Node, EnableGranted(n) PROVE TypeOK'
  BY <1>12, CallTypes DEF TypeOK, EnableGranted, Granted, Install, SetRole, Save, Grant
<1>13. ASSUME NEW n \in Node, EnableRefused(n) PROVE TypeOK'
  BY <1>13, CallTypes, FailedTypes DEF TypeOK, EnableRefused
<1>14. ASSUME NEW n \in Node, Promote(n) PROVE TypeOK'
  BY <1>14, CallTypes DEF TypeOK, Promote
<1>15. ASSUME NEW n \in Node, PromoteGranted(n) PROVE TypeOK'
  BY <1>15, CallTypes DEF TypeOK, PromoteGranted, Granted, Install, Grant
<1>16. ASSUME NEW n \in Node, PromoteBlocked(n) PROVE TypeOK'
  BY <1>16, CallTypes, FailedTypes DEF TypeOK, PromoteBlocked
<1>17. ASSUME NEW n \in Node, PromoteFailed(n) PROVE TypeOK'
  BY <1>17, CallTypes DEF TypeOK, PromoteFailed
<1>18. ASSUME NEW n \in Node, PromoteCommit(n) PROVE TypeOK'
  BY <1>18, CallTypes DEF TypeOK, PromoteCommit, SetRole
<1>19. ASSUME NEW n \in Node, PromoteSave(n) PROVE TypeOK'
  BY <1>19, CallTypes DEF TypeOK, PromoteSave, Save, Stopped
<1>20. ASSUME NEW n \in Node, RenewSend(n) PROVE TypeOK'
  BY <1>20 DEF TypeOK, RenewSend
<1>21. ASSUME NEW n \in Node, RenewConfirmed(n) PROVE TypeOK'
  BY <1>21, RoundTypes DEF TypeOK, RenewConfirmed, Grant
<1>22. ASSUME NEW n \in Node, RenewLost(n) PROVE TypeOK'
  BY <1>22, SelfFenceTypes, RoundTypes DEF TypeOK, RenewLost
<1>23. ASSUME NEW n \in Node, RenewUnknown(n) PROVE TypeOK'
  <2>1. CASE SelfFence(n)
    BY <1>23, <2>1, SelfFenceTypes, RoundTypes DEF TypeOK, RenewUnknown
  <2>2. CASE ~SelfFence(n)
    BY <1>23, <2>2, RoundTypes DEF TypeOK, RenewUnknown
  <2> QED BY <2>1, <2>2
<1>24. ASSUME NEW n \in Node, ResumeRetry(n) PROVE TypeOK'
  BY <1>24, CallTypes, FailedTypes DEF TypeOK, ResumeRetry
<1>25. ASSUME NEW n \in Node, ResumeGranted(n) PROVE TypeOK'
  BY <1>25, CallTypes, AssumeLeaderTypes DEF TypeOK, ResumeGranted, Granted, Install, Grant
<1>26. ASSUME NEW n \in Node, ResumeForeign(n) PROVE TypeOK'
  <2>1. call' \in [Node -> Call]
    BY <1>26, CallTypes DEF TypeOK, ResumeForeign
  <2>2. CASE disk[n].standby # NoNode
    <3>1. standbyAddr' \in [Node -> MaybeNode]
      BY <1>26, <2>2 DEF TypeOK, ResumeForeign
    <3> QED BY <1>26, <2>1, <2>2, <3>1, StandbyTypes DEF TypeOK, ResumeForeign
  <2>3. CASE disk[n].standby = NoNode
    BY <1>26, <2>1, <2>3, AssumeLeaderTypes DEF TypeOK, ResumeForeign
  <2> QED BY <2>2, <2>3
<1>27. ASSUME NEW n \in Node, ResumeGiveUp(n) PROVE TypeOK'
  BY <1>27, CallTypes, AssumeLeaderTypes, FailedTypes DEF TypeOK, ResumeGiveUp
<1>28. ASSUME NEW n \in Node, ResumeSave(n) PROVE TypeOK'
  BY <1>28 DEF TypeOK, ResumeSave, NoConfig
<1>29. ASSUME NEW n \in Node, RecoverSend(n) PROVE TypeOK'
  BY <1>29, CallTypes DEF TypeOK, RecoverSend
<1>30. ASSUME NEW n \in Node, RecoverGranted(n) PROVE TypeOK'
  BY <1>30, CallTypes DEF TypeOK, RecoverGranted, Granted, Install, Save, Grant
<1>31. ASSUME NEW n \in Node, RecoverForeign(n) PROVE TypeOK'
  <2>1. CASE StartAsStandby(n)
    BY <1>31, <2>1, StandbyTypes, CallTypes DEF TypeOK, RecoverForeign
  <2>2. CASE ~StartAsStandby(n)
    BY <1>31, <2>2, CallTypes DEF TypeOK, RecoverForeign
  <2> QED BY <2>1, <2>2
<1>32. ASSUME NEW n \in Node, RecoverRetry(n) PROVE TypeOK'
  BY <1>32, CallTypes, FailedTypes DEF TypeOK, RecoverRetry
<1>33. ASSUME NEW n \in Node, Rearm(n) PROVE TypeOK'
  BY <1>33 DEF TypeOK, Rearm
<1>34. ASSUME NEW n \in Node, Resync(n) PROVE TypeOK'
  <2>1. fencing' \in [Node -> {"no", "rearm", "resync"}]
    BY <1>34 DEF TypeOK, Resync
  <2>2. CASE StartAsStandby(n)
    BY <1>34, <2>1, <2>2, StandbyTypes DEF TypeOK, Resync
  <2>3. CASE ~StartAsStandby(n)
    BY <1>34, <2>1, <2>3 DEF TypeOK, Resync
  <2> QED BY <2>2, <2>3
<1> QED BY <1>1, <1>2, <1>3, <1>4, <1>5, <1>6, <1>7, <1>8, <1>9, <1>10, <1>11,
  <1>12, <1>13, <1>14, <1>15, <1>16, <1>17, <1>18, <1>19, <1>20, <1>21, <1>22,
  <1>23, <1>24, <1>25, <1>26, <1>27, <1>28, <1>29, <1>30, <1>31, <1>32,
  <1>33, <1>34
  DEF Next, Backend, Lifecycle, Promotion, Keepalive, Resume, Recovery

\* Every reachable state is well typed.
THEOREM TypeCorrect == Spec => []TypeOK
<1>1. Init => TypeOK
  BY NodeAssumption DEF Init, TypeOK, FreeKey, NotHeld, Grant, Idle, Request, NoRound, NoConfig
<1> QED BY <1>1, TypeOKStep, PTL DEF Spec

-----------------------------------------------------------------------------
(* The loops and the grant follow the role.                                *)

\* A selfFence, demoting or not, leaves every node's calls, loops and grant in
\* line with its role.
LEMMA FenceLoops ==
  ASSUME TypeOK, LoopInv, NEW n \in Node, renew[n].at # "idle", SelfFence(n),
         RoundOver(n), UNCHANGED call
  PROVE  LoopInv'
<1> USE DEF LoopInv, LoopOK, CallsFit, NothingYet, TailFits, LoopsFit, Acquiring
<1>1. CASE Demote(n)
  BY <1>1 DEF TypeOK, Demote, SetRole, RoundOver, NoRound, NotHeld, Grant
<1>2. CASE FenceNothing(n)
  BY SMTT(30), <1>2 DEF TypeOK, FenceNothing, RoundOver, NoRound
<1> QED BY <1>1, <1>2 DEF SelfFence

\* Every action keeps calls, loops and grants in line with the role.
LEMMA LoopInvStep == TypeOK /\ LoopInv /\ [Next]_vars => LoopInv'
<1> USE DEF LoopInv, LoopOK, CallsFit, NothingYet, TailFits, LoopsFit, Acquiring
<1> SUFFICES ASSUME TypeOK, LoopInv, [Next]_vars PROVE LoopInv'
  OBVIOUS
<1>1. CASE UNCHANGED vars
  BY <1>1 DEF vars
<1>2. CASE Tick
  BY <1>2 DEF TypeOK, Tick, Aged, Delayed, Waiting
<1>3. CASE EtcdExpire
  BY <1>3 DEF EtcdExpire
<1>4. ASSUME NEW n \in Node, NEW m \in Node, RecordStandbyAddr(n, m) PROVE LoopInv'
  BY <1>4 DEF RecordStandbyAddr
<1>5. ASSUME NEW n \in Node, EtcdGrant(n) PROVE LoopInv'
  BY <1>5 DEF TypeOK, EtcdGrant, Request
<1>6. ASSUME NEW n \in Node, EtcdTxn(n) PROVE LoopInv'
  <2>1. LoopOK(n)'
    <3>1. CASE key.holder = NoNode
      BY <1>6, <3>1 DEF TypeOK, EtcdTxn, Grants, Denies
    <3>2. CASE key.holder # NoNode
      BY <1>6, <3>2 DEF TypeOK, EtcdTxn, Grants, Denies
    <3> QED BY <3>1, <3>2
  <2>2. ASSUME NEW m \in Node \ {n} PROVE LoopOK(m)'
    BY <1>6 DEF TypeOK, EtcdTxn
  <2> QED BY <2>1, <2>2
<1>7. ASSUME NEW n \in Node, EtcdKeepAlive(n) PROVE LoopInv'
  <2>1. LoopOK(n)'
    BY <1>7 DEF TypeOK, EtcdKeepAlive, Answered
  <2>2. ASSUME NEW m \in Node \ {n} PROVE LoopOK(m)'
    BY <1>7 DEF TypeOK, EtcdKeepAlive, Answered
  <2> QED BY <2>1, <2>2
<1>8. ASSUME NEW n \in Node, EtcdVerify(n) PROVE LoopInv'
  BY <1>8 DEF TypeOK, EtcdVerify, Answered
<1>9. ASSUME NEW n \in Node, Boot(n) PROVE LoopInv'
  <2>1. role[n] = "down" /\ n \notin keepalive /\ n \notin recovering
    BY <1>9 DEF Boot
  <2>2. LoopOK(n)'
    <3>1. CASE StartAsStandby(n) /\ UNCHANGED call
      BY <1>9, <2>1, <3>1 DEF TypeOK, Boot, StartAsStandby, SetRole
    <3>2. CASE SetRole(n, "none") /\ Send(n, "resume")
      BY <1>9, <2>1, <3>2 DEF TypeOK, Boot, SetRole, Send, Request
    <3>3. CASE SetRole(n, "none") /\ UNCHANGED call
      BY <1>9, <2>1, <3>3 DEF TypeOK, Boot, SetRole
    <3> QED BY <1>9, <3>1, <3>2, <3>3 DEF Boot
  <2>3. ASSUME NEW m \in Node \ {n} PROVE LoopOK(m)'
    BY <1>9 DEF TypeOK, Boot, StartAsStandby, SetRole, Send
  <2> QED BY <2>2, <2>3
<1>10. ASSUME NEW n \in Node, Crash(n) PROVE LoopInv'
  BY <1>10 DEF TypeOK, Crash, SetRole, Return, Idle, Request, NotHeld, Grant, NoRound
<1>11. ASSUME NEW n \in Node, EnableAsLeader(n) PROVE LoopInv'
  BY <1>11 DEF TypeOK, EnableAsLeader, Send, Request
<1>12. ASSUME NEW n \in Node, EnableGranted(n) PROVE LoopInv'
  BY <1>12 DEF TypeOK, EnableGranted, Granted, Install, SetRole, Return, Idle,
    Request, Grant
<1>13. ASSUME NEW n \in Node, EnableRefused(n) PROVE LoopInv'
  BY <1>13 DEF TypeOK, EnableRefused, Denied, Failed, Return, Idle, Request
<1>14. ASSUME NEW n \in Node, Promote(n) PROVE LoopInv'
  BY <1>14 DEF TypeOK, Promote, Send, Request
<1>15. ASSUME NEW n \in Node, PromoteGranted(n) PROVE LoopInv'
  BY <1>15 DEF TypeOK, PromoteGranted, Granted, Install, Step, Request, Grant
<1>16. ASSUME NEW n \in Node, PromoteBlocked(n) PROVE LoopInv'
  BY <1>16 DEF TypeOK, PromoteBlocked, Denied, Failed, Return, Idle, Request
<1>17. ASSUME NEW n \in Node, PromoteFailed(n) PROVE LoopInv'
  BY <1>17 DEF TypeOK, PromoteFailed, Return, Idle, Request
<1>18. ASSUME NEW n \in Node, PromoteCommit(n) PROVE LoopInv'
  BY <1>18 DEF TypeOK, PromoteCommit, SetRole, Step, Request
<1>19. ASSUME NEW n \in Node, PromoteSave(n) PROVE LoopInv'
  BY <1>19 DEF TypeOK, PromoteSave, Return, Idle, Request, Stopped
<1>20. ASSUME NEW n \in Node, RenewSend(n) PROVE LoopInv'
  BY <1>20 DEF TypeOK, RenewSend
<1>21. ASSUME NEW n \in Node, RenewConfirmed(n) PROVE LoopInv'
  BY <1>21 DEF TypeOK, RenewConfirmed, RoundOver, NoRound, Grant
<1>22. ASSUME NEW n \in Node, RenewLost(n) PROVE LoopInv'
  BY <1>22, FenceLoops DEF RenewLost
<1>23. ASSUME NEW n \in Node, RenewUnknown(n) PROVE LoopInv'
  <2>1. CASE SelfFence(n)
    BY <1>23, <2>1, FenceLoops DEF RenewUnknown
  <2>2. CASE ~SelfFence(n)
    BY <1>23, <2>2 DEF TypeOK, RenewUnknown, RoundOver, NoRound
  <2> QED BY <2>1, <2>2
<1>24. ASSUME NEW n \in Node, ResumeRetry(n) PROVE LoopInv'
  BY <1>24 DEF TypeOK, ResumeRetry, DeniedBy, Denied, Failed, Send, Request
<1>25. ASSUME NEW n \in Node, ResumeGranted(n) PROVE LoopInv'
  BY <1>25 DEF TypeOK, ResumeGranted, Granted, Install, AssumeLeader, SetRole,
    Return, Idle, Request, Grant
<1>26. ASSUME NEW n \in Node, ResumeForeign(n) PROVE LoopInv'
  BY <1>26 DEF TypeOK, ResumeForeign, DeniedBy, Denied, StartAsStandby,
    AssumeLeader, SetRole, Return, Idle, Request
<1>27. ASSUME NEW n \in Node, ResumeGiveUp(n) PROVE LoopInv'
  BY <1>27 DEF TypeOK, ResumeGiveUp, DeniedBy, Denied, Failed, AssumeLeader,
    SetRole, Return, Idle, Request
<1>28. ASSUME NEW n \in Node, ResumeSave(n) PROVE LoopInv'
  BY <1>28 DEF TypeOK, ResumeSave
<1>29. ASSUME NEW n \in Node, RecoverSend(n) PROVE LoopInv'
  BY <1>29 DEF TypeOK, RecoverSend, Send, Request
<1>30. ASSUME NEW n \in Node, RecoverGranted(n) PROVE LoopInv'
  BY <1>30 DEF TypeOK, RecoverGranted, Granted, Install, Return, Idle,
    Request, Grant
<1>31. ASSUME NEW n \in Node, RecoverForeign(n) PROVE LoopInv'
  BY <1>31 DEF TypeOK, RecoverForeign, DeniedBy, Denied, StartAsStandby,
    SetRole, Return, Idle, Request
<1>32. ASSUME NEW n \in Node, RecoverRetry(n) PROVE LoopInv'
  BY <1>32 DEF TypeOK, RecoverRetry, DeniedBy, Denied, Failed, Return, Idle,
    Request
<1>33. ASSUME NEW n \in Node, Rearm(n) PROVE LoopInv'
  BY <1>33 DEF TypeOK, Rearm
<1>34. ASSUME NEW n \in Node, Resync(n) PROVE LoopInv'
  BY <1>34 DEF TypeOK, Resync, StartAsStandby, SetRole
<1> QED BY <1>1, <1>2, <1>3, <1>4, <1>5, <1>6, <1>7, <1>8, <1>9, <1>10, <1>11,
  <1>12, <1>13, <1>14, <1>15, <1>16, <1>17, <1>18, <1>19, <1>20, <1>21, <1>22,
  <1>23, <1>24, <1>25, <1>26, <1>27, <1>28, <1>29, <1>30, <1>31, <1>32,
  <1>33, <1>34 DEF
  Next, Backend, Lifecycle, Promotion, Keepalive, Resume, Recovery

\* In every reachable state a node's calls, loops and grant fit its role.
THEOREM LoopsFollowRole == Spec => []LoopInv
<1>1. Init => LoopInv
  BY DEF Init, LoopInv, LoopOK, CallsFit, NothingYet, TailFits, LoopsFit, Acquiring,
         NotHeld, Grant, Idle, Request, NoRound
<1> QED BY <1>1, LoopInvStep, TypeCorrect, PTL DEF Spec

\* A leader's grant always has its keepalive loop (or promote is about to
\* start it), and a keepalive loop always has a grant, and a leader unless a
\* promotion overtook a selfFence there.
THEOREM GrantIsAttended == Spec => []GrantAttended
<1>1. LoopInv => GrantAttended
  BY DEF LoopInv, LoopOK, LoopsFit, GrantAttended
<1> QED BY <1>1, LoopsFollowRole, PTL

-----------------------------------------------------------------------------
(* The fence.                                                              *)

\* A selfFence keeps the fence invariant: it only takes authority away.
LEMMA FenceKeepsFence ==
  ASSUME TypeOK, FenceInv, NEW n \in Node, SelfFence(n), RoundOver(n),
         UNCHANGED <<etcd, call>>
  PROVE  FenceInv'
<1> USE NodeAssumption, TimeAssumption
<1> USE DEF FenceInv, KeyIsLatest, EpochIssued, WindowCovered, GrantVouched,
            RenewVouched, WriteAllowed, HoldsKey, RoundHoldsKey, Acquiring
<1>1. CASE Demote(n)
  <2>1. lease' = [lease EXCEPT ![n] = NotHeld]
    BY <1>1 DEF Demote
  <2> QED BY <2>1 DEF TypeOK, RoundOver, NoRound, NotHeld, Grant
<1>2. CASE FenceNothing(n)
  <2>1. lease' = lease
    BY <1>2 DEF FenceNothing
  <2> QED BY <2>1 DEF TypeOK, RoundOver, NoRound
<1> QED BY <1>1, <1>2 DEF SelfFence

\* Every action keeps the fence invariant, given the timing condition.
LEMMA FenceInvStep == LagBounded /\ TypeOK /\ FenceInv /\ [Next]_vars => FenceInv'
<1> USE NodeAssumption, TimeAssumption
<1> USE DEF FenceInv, KeyIsLatest, EpochIssued, WindowCovered, GrantVouched,
            RenewVouched, WriteAllowed, HoldsKey, RoundHoldsKey, Acquiring
<1> SUFFICES ASSUME LagBounded, TypeOK, FenceInv, [Next]_vars PROVE FenceInv'
  OBVIOUS
<1>1. CASE UNCHANGED vars
  BY <1>1 DEF vars
<1>2. CASE Tick
  <2>1. KeyIsLatest'
    BY <1>2 DEF TypeOK, Tick
  <2> SUFFICES ASSUME NEW n \in Node
               PROVE  EpochIssued(n)' /\ WindowCovered(n)' /\ GrantVouched(n)'
                      /\ RenewVouched(n)'
    BY <2>1
  <2>2. EpochIssued(n)' /\ WindowCovered(n)'
    BY <1>2 DEF TypeOK, Tick, Aged, Older
  <2>3. GrantVouched(n)'
    BY <1>2 DEF LagBounded, TypeOK, Tick, Aged, Delayed, Older
  <2>4. RenewVouched(n)'
    BY <1>2 DEF LagBounded, TypeOK, Tick, Aged, Waiting, Older
  <2> QED BY <2>2, <2>3, <2>4
<1>3. CASE EtcdExpire
  BY <1>3 DEF LagBounded, TypeOK, EtcdExpire, FreeKey
<1>4. ASSUME NEW n \in Node, NEW m \in Node, RecordStandbyAddr(n, m) PROVE FenceInv'
  BY <1>4 DEF RecordStandbyAddr
<1>5. ASSUME NEW n \in Node, EtcdGrant(n) PROVE FenceInv'
  BY <1>5 DEF TypeOK, EtcdGrant, Request
<1>6. ASSUME NEW n \in Node, EtcdTxn(n) PROVE FenceInv'
  <2>1. CASE key.holder = NoNode
    BY SMTT(30), <1>6, <2>1 DEF TypeOK, EtcdTxn, Grants, Denies
  <2>2. CASE key.holder # NoNode
    <3>1. UNCHANGED <<key, rev, lease, renew>>
      BY <1>6, <2>2 DEF EtcdTxn
    <3>2. \A m \in Node : GrantVouched(m)'
      BY <1>6, <2>2, <3>1 DEF TypeOK, EtcdTxn, Denies
    <3> QED BY <3>1, <3>2
  <2> QED BY <2>1, <2>2
<1>7. ASSUME NEW n \in Node, EtcdKeepAlive(n) PROVE FenceInv'
  BY <1>7 DEF TypeOK, EtcdKeepAlive, Answered
<1>8. ASSUME NEW n \in Node, EtcdVerify(n) PROVE FenceInv'
  BY <1>8 DEF TypeOK, EtcdVerify, Answered
<1>9. ASSUME NEW n \in Node, Boot(n) PROVE FenceInv'
  BY <1>9 DEF TypeOK, Boot, Send, Request
<1>10. ASSUME NEW n \in Node, Crash(n) PROVE FenceInv'
  BY <1>10 DEF TypeOK, Crash, Return, Idle, Request, NotHeld, Grant, NoRound
<1>11. ASSUME NEW n \in Node, EnableAsLeader(n) PROVE FenceInv'
  BY <1>11 DEF TypeOK, EnableAsLeader, Send, Request
<1>12. ASSUME NEW n \in Node, EnableGranted(n) PROVE FenceInv'
  BY <1>12 DEF TypeOK, LagBounded, EnableGranted, Granted, Install, Return,
    Idle, Request, Grant
<1>13. ASSUME NEW n \in Node, EnableRefused(n) PROVE FenceInv'
  BY <1>13 DEF TypeOK, EnableRefused, Denied, Failed, Return, Idle, Request,
    FreeKey
<1>14. ASSUME NEW n \in Node, Promote(n) PROVE FenceInv'
  BY <1>14 DEF TypeOK, Promote, Send, Request
<1>15. ASSUME NEW n \in Node, PromoteGranted(n) PROVE FenceInv'
  BY <1>15 DEF TypeOK, LagBounded, PromoteGranted, Granted, Install, Step,
    Request, Grant
<1>16. ASSUME NEW n \in Node, PromoteBlocked(n) PROVE FenceInv'
  BY <1>16 DEF TypeOK, PromoteBlocked, Denied, Failed, Return, Idle, Request,
    FreeKey
<1>17. ASSUME NEW n \in Node, PromoteFailed(n) PROVE FenceInv'
  BY <1>17 DEF TypeOK, PromoteFailed, Return, Idle, Request
<1>18. ASSUME NEW n \in Node, PromoteCommit(n) PROVE FenceInv'
  BY <1>18 DEF TypeOK, PromoteCommit, Step, Request
<1>19. ASSUME NEW n \in Node, PromoteSave(n) PROVE FenceInv'
  BY <1>19 DEF TypeOK, PromoteSave, Return, Idle, Request, Stopped
<1>20. ASSUME NEW n \in Node, RenewSend(n) PROVE FenceInv'
  BY <1>20 DEF TypeOK, RenewSend
<1>21. ASSUME NEW n \in Node, RenewConfirmed(n) PROVE FenceInv'
  BY <1>21 DEF TypeOK, LagBounded, RenewConfirmed, RoundOver, NoRound, Grant
<1>22. ASSUME NEW n \in Node, RenewLost(n) PROVE FenceInv'
  BY <1>22, FenceKeepsFence DEF RenewLost
<1>23. ASSUME NEW n \in Node, RenewUnknown(n) PROVE FenceInv'
  <2>1. CASE SelfFence(n)
    BY <1>23, <2>1, FenceKeepsFence DEF RenewUnknown
  <2>2. CASE ~SelfFence(n)
    BY <1>23, <2>2 DEF TypeOK, RenewUnknown, RoundOver, NoRound
  <2> QED BY <2>1, <2>2
<1>24. ASSUME NEW n \in Node, ResumeRetry(n) PROVE FenceInv'
  BY <1>24 DEF TypeOK, ResumeRetry, DeniedBy, Denied, Failed, Send, Request,
    FreeKey
<1>25. ASSUME NEW n \in Node, ResumeGranted(n) PROVE FenceInv'
  BY <1>25 DEF TypeOK, LagBounded, ResumeGranted, Granted, Install, Return,
    Idle, Request, Grant
<1>26. ASSUME NEW n \in Node, ResumeForeign(n) PROVE FenceInv'
  BY <1>26 DEF TypeOK, ResumeForeign, DeniedBy, Denied, Return, Idle, Request
<1>27. ASSUME NEW n \in Node, ResumeGiveUp(n) PROVE FenceInv'
  BY <1>27 DEF TypeOK, ResumeGiveUp, DeniedBy, Denied, Failed, Return, Idle,
    Request, FreeKey
<1>28. ASSUME NEW n \in Node, ResumeSave(n) PROVE FenceInv'
  BY <1>28 DEF TypeOK, ResumeSave
<1>29. ASSUME NEW n \in Node, RecoverSend(n) PROVE FenceInv'
  BY <1>29 DEF TypeOK, RecoverSend, Send, Request
<1>30. ASSUME NEW n \in Node, RecoverGranted(n) PROVE FenceInv'
  BY <1>30 DEF TypeOK, LagBounded, RecoverGranted, Granted, Install, Return,
    Idle, Request, Grant
<1>31. ASSUME NEW n \in Node, RecoverForeign(n) PROVE FenceInv'
  BY <1>31 DEF TypeOK, RecoverForeign, DeniedBy, Denied, Return, Idle, Request
<1>32. ASSUME NEW n \in Node, RecoverRetry(n) PROVE FenceInv'
  BY <1>32 DEF TypeOK, RecoverRetry, DeniedBy, Denied, Failed, Return, Idle,
    Request, FreeKey
<1>33. ASSUME NEW n \in Node, Rearm(n) PROVE FenceInv'
  BY <1>33 DEF TypeOK, Rearm
<1>34. ASSUME NEW n \in Node, Resync(n) PROVE FenceInv'
  BY <1>34 DEF TypeOK, Resync
<1> QED BY <1>1, <1>2, <1>3, <1>4, <1>5, <1>6, <1>7, <1>8, <1>9, <1>10, <1>11,
  <1>12, <1>13, <1>14, <1>15, <1>16, <1>17, <1>18, <1>19, <1>20, <1>21, <1>22,
  <1>23, <1>24, <1>25, <1>26, <1>27, <1>28, <1>29, <1>30, <1>31, <1>32,
  <1>33, <1>34 DEF
  Next, Backend, Lifecycle, Promotion, Keepalive, Resume, Recovery

\* The fence invariant holds before any grant.
LEMMA FenceInvInit == Init => FenceInv
BY NodeAssumption, TimeAssumption
   DEF Init, FenceInv, KeyIsLatest, EpochIssued, WindowCovered, GrantVouched,
       RenewVouched, WriteAllowed, HoldsKey, Acquiring, FreeKey, NotHeld, Grant,
       Idle, Request, NoRound

\* The fence invariant holds in every reachable state.
THEOREM FenceHolds == ASSUME LagBounded PROVE Spec => []FenceInv
<1> QED BY FenceInvInit, FenceInvStep, TypeCorrect, PTL DEF Spec

\* An open write window means the node holds the live key under the latest
\* epoch.
LEMMA WindowMeansFence ==
  ASSUME TypeOK, FenceInv, NEW n \in Node, WriteAllowed(n)
  PROVE  HoldsKey(n) /\ key.left > 0 /\ lease[n].epoch = rev
BY NodeAssumption, TimeAssumption
   DEF TypeOK, FenceInv, KeyIsLatest, WindowCovered, WriteAllowed, HoldsKey

\* Write authority is always backed by the live etcd key and the latest epoch.
THEOREM WritersAreFenced == ASSUME LagBounded PROVE Spec => []WriterHoldsFence
<1>1. TypeOK /\ FenceInv => WriterHoldsFence
  BY WindowMeansFence DEF WriterHoldsFence, CanWrite
<1> QED BY <1>1, FenceHolds, TypeCorrect, PTL

\* No split brain: two Control Planes never hold write authority together.
THEOREM NoSplitBrain == ASSUME LagBounded PROVE Spec => []AtMostOneWriter
<1>1. TypeOK /\ FenceInv => AtMostOneWriter
  BY WindowMeansFence DEF AtMostOneWriter, CanWrite, HoldsKey
<1> QED BY <1>1, FenceHolds, TypeCorrect, PTL

-----------------------------------------------------------------------------
(* Fencing tokens only go up.                                              *)

\* A lease changes by taking a fresh grant, by being dropped, or keeps its
\* epoch.
LEMMA LeaseSteps ==
  ASSUME TypeOK, [Next]_vars, NEW n \in Node,
         lease'[n].epoch \notin {0, lease[n].epoch}
  PROVE  \E o \in Acquires : Granted(n, o) /\ Install(n)
<1>1. CASE UNCHANGED vars
  BY <1>1 DEF vars
<1>2. CASE Tick
  BY <1>2 DEF TypeOK, Tick, Aged
<1>3. CASE EtcdExpire
  BY <1>3 DEF EtcdExpire
<1>4. ASSUME NEW i \in Node, NEW m \in Node, RecordStandbyAddr(i, m)
      PROVE  \E o \in Acquires : Granted(n, o) /\ Install(n)
  BY <1>4 DEF RecordStandbyAddr
<1>5. ASSUME NEW i \in Node, Backend(i)
      PROVE  \E o \in Acquires : Granted(n, o) /\ Install(n)
  BY <1>5 DEF Backend, EtcdGrant, EtcdTxn, EtcdKeepAlive, EtcdVerify
<1>6. ASSUME NEW i \in Node, Lifecycle(i)
      PROVE  \E o \in Acquires : Granted(n, o) /\ Install(n)
  BY <1>6 DEF TypeOK, Lifecycle, Boot, Crash, NotHeld, Grant, EnableAsLeader,
              EnableGranted, EnableRefused, Install
<1>7. ASSUME NEW i \in Node, Promote(i) \/ Promotion(i)
      PROVE  \E o \in Acquires : Granted(n, o) /\ Install(n)
  BY <1>7 DEF TypeOK, Promote, Promotion, PromoteGranted, PromoteBlocked,
              PromoteFailed, PromoteCommit, PromoteSave, Install, Grant
<1>8. ASSUME NEW i \in Node, Keepalive(i)
      PROVE  \E o \in Acquires : Granted(n, o) /\ Install(n)
  BY <1>8 DEF TypeOK, Keepalive, RenewSend, RenewConfirmed, RenewLost, RenewUnknown,
              SelfFence, Demote, FenceNothing, Rearm, Resync, NotHeld, Grant
<1>9. ASSUME NEW i \in Node, Resume(i)
      PROVE  \E o \in Acquires : Granted(n, o) /\ Install(n)
  BY <1>9 DEF TypeOK, Resume, ResumeRetry, ResumeGranted, ResumeForeign, ResumeGiveUp,
              ResumeSave, Install, Grant
<1>10. ASSUME NEW i \in Node, Recovery(i)
       PROVE  \E o \in Acquires : Granted(n, o) /\ Install(n)
  BY <1>10 DEF TypeOK, Recovery, RecoverSend, RecoverGranted, RecoverForeign,
               RecoverRetry, Install, Grant
<1> QED BY <1>1, <1>2, <1>3, <1>4, <1>5, <1>6, <1>7, <1>8, <1>9, <1>10 DEF Next

\* An epoch a node installs exceeds every epoch anyone holds.
THEOREM EpochsOnlyAdvance == ASSUME LagBounded PROVE Spec => EpochsAdvance
<1>1. ASSUME TypeOK, FenceInv, [Next]_vars, NEW n \in Node, NEW m \in Node,
             lease'[n].epoch \notin {0, lease[n].epoch}
      PROVE  lease'[n].epoch > lease[m].epoch
  <2>1. PICK o \in Acquires : Granted(n, o) /\ Install(n)
    BY <1>1, LeaseSteps
  <2>2. lease'[n].epoch = call[n].epoch
    BY <1>1, <2>1 DEF TypeOK, Install, Grant
  <2> QED BY <1>1, <2>1, <2>2 DEF TypeOK, FenceInv, GrantVouched, Acquiring, Granted
<1>2. TypeOK /\ FenceInv /\ [Next]_vars =>
        [\A n \in Node : lease'[n].epoch \notin {0, lease[n].epoch} =>
           \A m \in Node : lease'[n].epoch > lease[m].epoch]_vars
  BY <1>1
<1> QED BY <1>2, FenceHolds, TypeCorrect, PTL DEF Spec, EpochsAdvance

-----------------------------------------------------------------------------
(* The nodes and etcd implement the abstract fencing lease.                *)

\* A step of one node that leaves the key's holder and the token alone is, to
\* the abstract lease, that node gaining or losing its write authority.
LEMMA NodeStepSimulates ==
  ASSUME TypeOK', FenceInv', NEW n \in Node,
         key'.holder = key.holder, rev' = rev,
         \A m \in Node \ {n} : role'[m] = role[m] /\ lease'[m] = lease[m]
  PROVE  Fence!Gain(n) \/ Fence!Lose(n)
<1>1. \A m \in Node \ {n} : Wield'[m] = Wield[m]
  BY DEF Wield, CanWrite, WriteAllowed
<1>2. CASE CanWrite(n)'
  <2>1. key'.holder = n /\ lease'[n].epoch = rev'
    BY <1>2, NodeAssumption, TimeAssumption
       DEF TypeOK, FenceInv, KeyIsLatest, WindowCovered, CanWrite, WriteAllowed, HoldsKey
  <2>2. Wield' = [Wield EXCEPT ![n] = rev]
    BY <1>1, <1>2, <2>1 DEF Wield
  <2> QED BY <2>1, <2>2 DEF Fence!Gain
<1>3. CASE ~CanWrite(n)'
  <2>1. Wield' = [Wield EXCEPT ![n] = 0]
    BY <1>1, <1>3 DEF Wield
  <2> QED BY <2>1 DEF Fence!Lose
<1> QED BY <1>2, <1>3

\* Losing the key (a revoke or an expiry) while no role and no lease changes
\* is the abstract Release: by the fence invariant nobody can be writing.
LEMMA ReleaseSimulates ==
  ASSUME TypeOK, FenceInv', key.holder # NoNode, key'.holder = NoNode, rev' = rev,
         Wield' = Wield
  PROVE  Fence!Release
<1>1. \A n \in Node : ~CanWrite(n)'
  BY NodeAssumption DEF FenceInv, WindowCovered, CanWrite, HoldsKey
<1>2. \A n \in Node : Wield[n] = 0
  BY <1>1 DEF Wield
<1> QED BY <1>2 DEF Fence!Release

\* A failed call frees the key of its own grant, or leaves the key alone.
LEMMA FailedSteps ==
  ASSUME NEW n \in Node, NEW o, Failed(n, o)
  PROVE  key' = key \/ (key.holder = n /\ key'.holder = NoNode)
BY DEF Failed, FreeKey

\* Every step is a step of the abstract lease or leaves it unchanged.
LEMMA NextSimulates ==
  ASSUME TypeOK, TypeOK', LoopInv, FenceInv, FenceInv', [Next]_vars
  PROVE  [Fence!FNext]_Fence!fvars
<1> USE NodeAssumption
<1> USE DEF Fence!FNext
<1>1. CASE UNCHANGED vars
  BY <1>1 DEF vars, Fence!fvars, Wield, CanWrite, WriteAllowed
<1>2. CASE Tick
  <2>1. \A n \in Node : CanWrite(n)' => CanWrite(n) /\ lease'[n].epoch = lease[n].epoch
    BY <1>2, TimeAssumption DEF TypeOK, Tick, Aged, Older, CanWrite, WriteAllowed
  <2>2. key'.holder = key.holder /\ rev' = rev
    BY <1>2 DEF Tick
  <2>3. CASE \A n \in Node : CanWrite(n) => CanWrite(n)'
    <3>1. Wield' = Wield
      BY <2>1, <2>3 DEF Wield
    <3> QED BY <2>2, <3>1 DEF Fence!fvars
  <2>4. CASE \E n \in Node : CanWrite(n) /\ ~CanWrite(n)'
    <3>1. PICK n \in Node : CanWrite(n) /\ ~CanWrite(n)'
      BY <2>4
    <3>2. \A m \in Node \ {n} : ~CanWrite(m) /\ ~CanWrite(m)'
      BY <2>1, <3>1, WindowMeansFence DEF CanWrite, HoldsKey
    <3>3. Wield' = [Wield EXCEPT ![n] = 0]
      BY <3>1, <3>2 DEF Wield
    <3> QED BY <2>2, <3>3 DEF Fence!Lose
  <2> QED BY <2>3, <2>4
<1>3. CASE EtcdExpire
  <2>1. Wield' = Wield
    BY <1>3 DEF EtcdExpire, Wield, CanWrite, WriteAllowed
  <2> QED BY <1>3, <2>1, ReleaseSimulates DEF EtcdExpire, FreeKey
<1>4. ASSUME NEW n \in Node, NEW m \in Node, RecordStandbyAddr(n, m)
      PROVE  [Fence!FNext]_Fence!fvars
  BY <1>4, NodeStepSimulates DEF RecordStandbyAddr
<1>5. ASSUME NEW n \in Node, EtcdTxn(n) PROVE [Fence!FNext]_Fence!fvars
  <2>1. Wield' = Wield
    BY <1>5 DEF EtcdTxn, Wield, CanWrite, WriteAllowed
  <2>2. CASE key.holder = NoNode
    BY <1>5, <2>1, <2>2 DEF EtcdTxn, Fence!Issue
  <2>3. CASE key.holder # NoNode
    BY <1>5, <2>1, <2>3 DEF EtcdTxn, Fence!fvars
  <2> QED BY <2>2, <2>3
<1>6. ASSUME NEW n \in Node, EtcdGrant(n) \/ EtcdKeepAlive(n) \/ EtcdVerify(n)
      PROVE  [Fence!FNext]_Fence!fvars
  BY <1>6, NodeStepSimulates DEF EtcdGrant, EtcdKeepAlive, EtcdVerify, RoundHoldsKey
<1>7. ASSUME NEW n \in Node, NEW o, Failed(n, o), UNCHANGED rev, Wield' = Wield
      PROVE  [Fence!FNext]_Fence!fvars
  BY <1>7, FailedSteps, ReleaseSimulates DEF Fence!fvars
<1>8. ASSUME NEW n \in Node, Lifecycle(n) PROVE [Fence!FNext]_Fence!fvars
  <2>1. CASE Boot(n) \/ Crash(n)
    BY <2>1, NodeStepSimulates
       DEF TypeOK, Boot, Crash, StartAsStandby, SetRole
  <2>2. CASE EnableAsLeader(n) \/ EnableGranted(n)
    BY <2>2, NodeStepSimulates DEF TypeOK, EnableAsLeader, EnableGranted, SetRole, Install
  <2>3. CASE EnableRefused(n)
    <3>1. Wield' = Wield
      BY <2>3 DEF EnableRefused, Wield, CanWrite, WriteAllowed
    <3>2. CASE UNCHANGED key
      BY <2>3, <3>1, <3>2 DEF EnableRefused, Fence!fvars
    <3> QED BY <1>7, <2>3, <3>1, <3>2 DEF EnableRefused
  <2> QED BY <1>8, <2>1, <2>2, <2>3 DEF Lifecycle
<1>9. ASSUME NEW n \in Node, Promote(n) \/ Promotion(n) PROVE [Fence!FNext]_Fence!fvars
  <2>1. CASE Promote(n) \/ PromoteFailed(n) \/ PromoteSave(n)
    BY <2>1, NodeStepSimulates DEF Promote, PromoteFailed, PromoteSave
  <2>2. CASE PromoteGranted(n) \/ PromoteCommit(n)
    BY <2>2, NodeStepSimulates DEF TypeOK, PromoteGranted, PromoteCommit, SetRole, Install
  <2>3. CASE PromoteBlocked(n)
    <3>1. Wield' = Wield
      BY <2>3 DEF PromoteBlocked, Wield, CanWrite, WriteAllowed
    <3>2. CASE UNCHANGED key
      BY <2>3, <3>1, <3>2 DEF PromoteBlocked, Fence!fvars
    <3> QED BY <1>7, <2>3, <3>1, <3>2 DEF PromoteBlocked
  <2> QED BY <1>9, <2>1, <2>2, <2>3 DEF Promotion
<1>10. ASSUME NEW n \in Node, Keepalive(n) PROVE [Fence!FNext]_Fence!fvars
  <2>1. key' = key
    BY <1>10 DEF Keepalive, RenewSend, RenewConfirmed, RenewLost, RenewUnknown, Rearm, Resync
  <2>2. rev' = rev
    BY <1>10 DEF Keepalive, RenewSend, RenewConfirmed, RenewLost, RenewUnknown, Rearm, Resync
  <2>3. \A m \in Node \ {n} : role'[m] = role[m] /\ lease'[m] = lease[m]
    BY <1>10 DEF TypeOK, Keepalive, RenewSend, RenewConfirmed, RenewLost, RenewUnknown,
                 SelfFence, Demote, FenceNothing, Rearm, Resync, StartAsStandby, SetRole
  <2> QED BY <2>1, <2>2, <2>3, NodeStepSimulates
<1>11. ASSUME NEW n \in Node, Resume(n) PROVE [Fence!FNext]_Fence!fvars
  <2>1. CASE ResumeGranted(n) \/ ResumeForeign(n) \/ ResumeSave(n)
    <3>1. key' = key /\ rev' = rev
      BY <2>1 DEF ResumeGranted, ResumeForeign, ResumeSave
    <3>2. \A m \in Node \ {n} : role'[m] = role[m] /\ lease'[m] = lease[m]
      BY <2>1 DEF TypeOK, ResumeGranted, ResumeForeign, ResumeSave, StartAsStandby,
                  AssumeLeader, SetRole, Install
    <3> QED BY <3>1, <3>2, NodeStepSimulates
  <2>2. CASE ResumeRetry(n)
    <3>1. Wield' = Wield
      BY <2>2 DEF ResumeRetry, Wield, CanWrite, WriteAllowed
    <3>2. CASE UNCHANGED key
      BY <2>2, <3>1, <3>2 DEF ResumeRetry, Fence!fvars
    <3> QED BY <1>7, <2>2, <3>1, <3>2 DEF ResumeRetry
  <2>3. CASE ResumeGiveUp(n)
    <3>1. lease' = lease /\ lease[n].epoch = 0
      <4>1. call[n].op = "resume"
        BY <2>3 DEF ResumeGiveUp, DeniedBy, Denied, Failed
      <4>2. role[n] \in {"down", "none"}
        BY SMTT(30), <4>1 DEF TypeOK, LoopInv, LoopOK, CallsFit
      <4> QED BY <2>3, <4>2 DEF ResumeGiveUp, LoopInv, LoopOK, NothingYet
    <3>2. \A m \in Node \ {n} : role'[m] = role[m]
      BY <2>3 DEF TypeOK, ResumeGiveUp, AssumeLeader, SetRole
    <3>3. Wield' = Wield
      BY <3>1, <3>2 DEF Wield, CanWrite, WriteAllowed
    <3>4. CASE UNCHANGED key
      BY <2>3, <3>3, <3>4 DEF ResumeGiveUp, Fence!fvars
    <3> QED BY <1>7, <2>3, <3>3, <3>4 DEF ResumeGiveUp
  <2> QED BY <1>11, <2>1, <2>2, <2>3 DEF Resume
<1>12. ASSUME NEW n \in Node, Recovery(n) PROVE [Fence!FNext]_Fence!fvars
  <2>1. CASE RecoverSend(n) \/ RecoverGranted(n) \/ RecoverForeign(n)
    <3>1. key' = key /\ rev' = rev
      BY <2>1 DEF RecoverSend, RecoverGranted, RecoverForeign
    <3>2. \A m \in Node \ {n} : role'[m] = role[m] /\ lease'[m] = lease[m]
      BY <2>1 DEF TypeOK, RecoverSend, RecoverGranted, RecoverForeign, StartAsStandby,
                  SetRole, Install
    <3> QED BY <3>1, <3>2, NodeStepSimulates
  <2>2. CASE RecoverRetry(n)
    <3>1. Wield' = Wield
      BY <2>2 DEF RecoverRetry, Wield, CanWrite, WriteAllowed
    <3>2. CASE UNCHANGED key
      BY <2>2, <3>1, <3>2 DEF RecoverRetry, Fence!fvars
    <3> QED BY <1>7, <2>2, <3>1, <3>2 DEF RecoverRetry
  <2> QED BY <1>12, <2>1, <2>2 DEF Recovery
<1> QED BY <1>1, <1>2, <1>3, <1>4, <1>5, <1>6, <1>8, <1>9, <1>10, <1>11, <1>12
        DEF Next, Backend

\* The node-and-etcd machinery implements the abstract fencing lease: write
\* authority is only ever wielded by the owner under the latest token, and is
\* given up before the lease changes hands.
THEOREM RefinesFencedLease == ASSUME LagBounded PROVE Spec => ImplementsFence
<1>1. Init => Fence!FInit
  BY DEF Init, Fence!FInit, FreeKey, Wield, CanWrite
<1>2. TypeOK /\ TypeOK' /\ LoopInv /\ FenceInv /\ FenceInv' /\ [Next]_vars
        => [Fence!FNext]_Fence!fvars
  BY NextSimulates
<1> QED BY <1>1, <1>2, LoopsFollowRole, FenceHolds, TypeCorrect, PTL
        DEF Spec, ImplementsFence, Fence!FSpec

=============================================================================
