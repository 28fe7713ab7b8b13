--------------------------- MODULE LoopsConnProofs ---------------------------
(***************************************************************************)
(* Proofs about the two parts of a node whose goroutines meet in shared    *)
(* memory: the loops of lease-mode HA (HALoops) and the per-client         *)
(* connection limiter (ConnLimit).                                         *)
(*                                                                         *)
(* HALoops.  The argument is that one thread at a time is an actor: it     *)
(* promotes, keeps or recovers the lease, or fences.  Everything else that *)
(* moves is a sync loop between two rounds.  That holds until an           *)
(* operator's promotion overtakes the resync of a fence, and as long as    *)
(* the once-guard is taken also after that.  From the one actor follow the *)
(* role at each of its steps and what the stop channels refer to.          *)
(*                                                                         *)
(* ConnLimit.  The counter in the map is compared with the connections     *)
(* that still have to take their count back from it: the open ones, and    *)
(* the ones inside Acquire or Release that hold this very counter.         *)
(***************************************************************************)
EXTENDS HALoops, ConnLimit, FiniteSetTheorems, TLAPS

-----------------------------------------------------------------------------
(* HALoops: the inductive invariant.                                       *)

Places == {"none", "run"} \cup PromoteSteps \cup FenceSteps
ThreadState == [kind : Kinds \cup {"request"}, closed : BOOLEAN, at : Places]

\* The thread promotes, keeps or recovers the lease, or fences.
Actor(t) ==
  \/ thr[t].at \in PromoteSteps \cup {"fence", "rearm"}
  \/ thr[t].kind \in {"keep", "rec"} /\ thr[t].at = "run"

\* Until a promotion has overtaken a fence, and then while the guard is taken.
Ordered == ~overtaken \/ promoted

\* Where a loop of each kind can be.
KindOf(t) ==
  /\ thr[t].kind = "request" <=> t \in Request
  /\ thr[t].kind = "request" => thr[t].at \in {"none"} \cup PromoteSteps
  /\ thr[t].kind = "sync" => thr[t].at \in {"none", "run"} \cup PromoteSteps
  /\ thr[t].kind = "keep" => thr[t].at \in {"none", "run"} \cup FenceSteps
  /\ thr[t].kind = "rec" => thr[t].at \in {"none", "run", "attend", "resync"}

\* A sync loop that nobody told to stop is the one the channel belongs to.
SyncOf(t) ==
  (~overtaken /\ thr[t].kind = "sync" /\ thr[t].at # "none") => thr[t].closed \/ ch["sync"] = t

\* The role at an actor's steps.
RoleOf(t) ==
  (Ordered /\ Actor(t))
    => (role = "standby" <=> thr[t].at \in {"acquire", "hook", "lead", "rearm"})

\* A loop about to resync has no keepalive beside it; nor has the recovery.
ResyncOf(t) ==
  (~overtaken /\ thr[t].at = "resync") => ch["keep"] = 0 /\ (role = "leader" <=> thr[t].kind = "rec")
RecoverOf(t) ==
  (~overtaken /\ thr[t].kind = "rec" /\ thr[t].at \in {"run", "attend"}) => ch["keep"] = 0

\* The once-guard is taken during a promotion, and stays so until the fence of
\* the leadership it led to has released it.
GuardOf(t) ==
  ~overtaken =>
    /\ (thr[t].at \in PromoteSteps /\ thr[t].kind # "rec") => promoted
    /\ (thr[t].at = "rearm" /\ armed) => promoted

OneActor == Ordered => \A t, u \in Thread : (Actor(t) /\ Actor(u)) => t = u
OneResync ==
  ~overtaken =>
    \A t, u \in Thread : (thr[t].at = "resync" /\ (Actor(u) \/ thr[u].at = "resync")) => t = u

\* A leader, and a fence that has not resynced, has no sync loop to stop.
QuietSync ==
  (/\ ~overtaken
   /\ role = "leader" \/ \E t \in Thread : thr[t].at \in {"rearm", "resync"}
   /\ \A t \in Thread : thr[t].at # "halt")
    => ch["sync"] = 0

LeaderGuard == (~overtaken /\ role = "leader" /\ armed) => promoted

LoopShape ==
  /\ thr \in [Thread -> ThreadState] /\ ch \in [Kinds -> Slot \cup {0}]
  /\ \A k \in Kinds : ch[k] # 0 => thr[ch[k]].kind = k
  /\ role \in {"leader", "standby"} /\ key \in {"self", "peer", "free"}
  /\ epoch \in BOOLEAN /\ promoted \in BOOLEAN /\ known \in BOOLEAN
  /\ armed \in BOOLEAN /\ overtaken \in BOOLEAN
  /\ stop \in {"no", "latched", "join", "done"}
  /\ \A t \in Thread : KindOf(t)

LoopOrder ==
  /\ \A t \in Thread : RoleOf(t)
  /\ \A t \in Thread : ResyncOf(t)
  /\ \A t \in Thread : RecoverOf(t)
  /\ \A t \in Thread : GuardOf(t)
  /\ \A t \in Slot : SyncOf(t)
  /\ OneActor /\ OneResync /\ QuietSync /\ LeaderGuard
  /\ OnlyLeaderRenews /\ PromoteGuardFree

LoopInv == LoopShape /\ LoopOrder

-----------------------------------------------------------------------------
(* What the ways to move do to the threads and channels.                   *)

\* A step of one thread that keeps kinds leaves every other thread of its kind.
LEMMA KindsKept ==
  ASSUME NEW t \in Thread, \A u \in Thread : KindOf(u), KindOf(t)',
         \A u \in Thread : thr'[u].kind = thr[u].kind,
         \A u \in Thread : u # t => thr'[u].at = thr[u].at
  PROVE  (\A u \in Thread : KindOf(u))'
<1> SUFFICES ASSUME NEW u \in Thread, u # t PROVE KindOf(u)'
  OBVIOUS
<1>1. KindOf(u) /\ thr'[u].kind = thr[u].kind /\ thr'[u].at = thr[u].at
  OBVIOUS
<1> QED
  BY <1>1 DEF KindOf

\* Only the thread that moves changes, and only where it is.
LEMMA ToFacts ==
  ASSUME thr \in [Thread -> ThreadState], NEW t \in Thread, NEW a \in Places, To(t, a)
  PROVE  /\ thr' \in [Thread -> ThreadState] /\ thr'[t].at = a
         /\ \A u \in Thread : thr'[u].kind = thr[u].kind /\ thr'[u].closed = thr[u].closed
         /\ \A u \in Thread : u # t => thr'[u].at = thr[u].at
<1>1. thr[t] \in ThreadState
  OBVIOUS
<1>2. /\ [thr[t] EXCEPT !.at = a] \in ThreadState /\ [thr[t] EXCEPT !.at = a].at = a
      /\ [thr[t] EXCEPT !.at = a].kind = thr[t].kind
      /\ [thr[t] EXCEPT !.at = a].closed = thr[t].closed
  BY <1>1 DEF ThreadState
<1>3. thr' = [thr EXCEPT ![t] = [thr[t] EXCEPT !.at = a]]
  BY DEF To
<1> QED
  BY <1>2, <1>3

\* Closing channels marks the loops they belong to and forgets the channels.
LEMMA CloseFacts ==
  ASSUME LoopShape, NEW kinds \in SUBSET Kinds, NEW t, NEW a \in Places, Close(kinds, t, a)
  PROVE  /\ thr' \in [Thread -> ThreadState] /\ ch' \in [Kinds -> Slot \cup {0}]
         /\ \A u \in Thread : thr'[u].kind = thr[u].kind
         /\ \A u \in Thread : thr'[u].closed <=> (thr[u].closed \/ \E k \in kinds : ch[k] = u)
         /\ \A u \in Thread : thr'[u].at = IF u = t THEN a ELSE thr[u].at
         /\ \A k \in Kinds : ch'[k] = IF k \in kinds THEN 0 ELSE ch[k]
<1> DEFINE C(u) == thr[u].closed \/ \E k \in kinds : ch[k] = u
           A(u) == IF u = t THEN a ELSE thr[u].at
           R(u) == [thr[u] EXCEPT !.closed = C(u), !.at = A(u)]
<1>1. thr \in [Thread -> ThreadState] /\ ch \in [Kinds -> Slot \cup {0}]
  BY DEF LoopShape
<1>2. \A u \in Thread : C(u) \in BOOLEAN /\ A(u) \in Places
  BY <1>1 DEF ThreadState
<1>3. ASSUME NEW u \in Thread
      PROVE  R(u) \in ThreadState /\ R(u).kind = thr[u].kind /\ R(u).closed = C(u) /\ R(u).at = A(u)
  <2>1. thr[u] \in ThreadState /\ C(u) \in BOOLEAN /\ A(u) \in Places
    BY <1>1, <1>2
  <2> HIDE DEF C, A
  <2> QED
    BY <2>1 DEF ThreadState
<1>4. thr' = [u \in Thread |-> R(u)]
  BY DEF Close
<1>5. ch' = [k \in Kinds |-> IF k \in kinds THEN 0 ELSE ch[k]]
  BY DEF Close
<1>6. ch' \in [Kinds -> Slot \cup {0}] /\ \A k \in Kinds : ch'[k] = IF k \in kinds THEN 0 ELSE ch[k]
  BY <1>1, <1>5
<1>7. \A u \in Thread : thr'[u] = R(u)
  BY <1>4
<1> HIDE DEF R
<1>8. thr' \in [Thread -> ThreadState]
  BY <1>3, <1>4
<1> QED
  BY <1>3, <1>6, <1>7, <1>8

\* At most the recovery's own channel is dropped.
LEMMA HandlesFacts ==
  ASSUME LoopShape, NEW t \in Thread, NEW a
  PROVE  /\ Handles(t, a) \in [Kinds -> Slot \cup {0}]
         /\ \A k \in Kinds \ {"rec"} : Handles(t, a)[k] = ch[k]
         /\ Handles(t, a)["rec"] \in {0, ch["rec"]}
BY DEF Handles, LoopShape, Kinds

\* A new loop takes a slot that no running thread and no channel refers to.
LEMMA SpawnFacts ==
  ASSUME LoopShape, NEW t \in Thread, thr[t].at # "none", NEW kind \in {"keep", "sync"},
         NEW a \in Places, Spawn(t, kind, a)
  PROVE  \E s \in Slot :
           /\ s # t /\ thr[s].at = "none" /\ (\A k \in Kinds : ch[k] # s) /\ s \notin Request \cup {0}
           /\ thr' \in [Thread -> ThreadState] /\ ch' \in [Kinds -> Slot \cup {0}]
           /\ thr'[s].kind = kind /\ thr'[s].at = "run" /\ ~thr'[s].closed
           /\ thr'[t].at = a /\ thr'[t].kind = thr[t].kind /\ thr'[t].closed = thr[t].closed
           /\ \A u \in Thread \ {s, t} : thr'[u] = thr[u]
           /\ ch'[kind] = s /\ ch'["rec"] \in {0, ch["rec"]}
           /\ \A k \in Kinds \ {kind, "rec"} : ch'[k] = ch[k]
<1>1. NewSlot \in FreeSlots
  BY DEF Spawn, NewSlot
<1>2. PICK s \in Slot : s = NewSlot /\ thr[s].at = "none" /\ \A k \in Kinds : ch[k] # s
  BY <1>1 DEF FreeSlots, Running
<1>3. thr \in [Thread -> ThreadState] /\ ch \in [Kinds -> Slot \cup {0}] /\ Slot \subseteq Thread
  BY DEF LoopShape, Thread
<1>4. s # t /\ s \notin Request \cup {0}
  BY <1>2, LoopsAssumption
<1>5. Loop(kind) \in ThreadState /\ Loop(kind).kind = kind /\ Loop(kind).at = "run" /\ ~Loop(kind).closed
  BY DEF Loop, ThreadState, Places, Kinds
<1>6. /\ [thr[t] EXCEPT !.at = a] \in ThreadState /\ [thr[t] EXCEPT !.at = a].at = a
      /\ [thr[t] EXCEPT !.at = a].kind = thr[t].kind
      /\ [thr[t] EXCEPT !.at = a].closed = thr[t].closed
  <2>1. thr[t] \in ThreadState
    BY <1>3
  <2> QED
    BY <2>1 DEF ThreadState
<1>7. thr' = [thr EXCEPT ![t] = [thr[t] EXCEPT !.at = a], ![s] = Loop(kind)]
  BY <1>2, <1>4 DEF Spawn
<1>8. ch' = [Handles(t, a) EXCEPT ![kind] = s]
  BY <1>2 DEF Spawn
<1>9. /\ ch' \in [Kinds -> Slot \cup {0}] /\ ch'[kind] = s /\ ch'["rec"] \in {0, ch["rec"]}
      /\ \A k \in Kinds \ {kind, "rec"} : ch'[k] = ch[k]
  BY <1>8, HandlesFacts DEF Kinds
<1>10. /\ thr' \in [Thread -> ThreadState] /\ thr'[s] = Loop(kind)
       /\ thr'[t] = [thr[t] EXCEPT !.at = a] /\ \A u \in Thread \ {s, t} : thr'[u] = thr[u]
  <2> HIDE DEF ThreadState
  <2> QED
    BY <1>3, <1>4, <1>5, <1>6, <1>7
<1> QED
  BY <1>2, <1>4, <1>5, <1>6, <1>9, <1>10

\* A loop that returns is gone; at most the recovery's own channel is dropped.
LEMMA ReturnFacts ==
  ASSUME LoopShape, NEW t \in Thread, Return(t)
  PROVE  /\ To(t, "none") /\ ch' \in [Kinds -> Slot \cup {0}]
         /\ ch'["keep"] = ch["keep"] /\ ch'["sync"] = ch["sync"] /\ ch'["rec"] \in {0, ch["rec"]}
BY HandlesFacts DEF Return, Kinds

-----------------------------------------------------------------------------
(* HALoops: every step keeps the invariant.                                *)

\* A grant, or an attempt that ends without one and releases the guard.
LEMMA TakeLeaseKeeps ==
  ASSUME LoopInv, NEW t \in Thread, TakeLease(t)
  PROVE  LoopInv'
<1>1. PICK a \in {"hook", "none", "run"} :
        /\ To(t, a) /\ ch' = ch /\ role' = role /\ armed' = armed /\ overtaken' = overtaken
        /\ known' = known /\ stop' = stop /\ key' \in {key, "self"} /\ epoch' \in BOOLEAN
        /\ thr[t].at = "acquire" /\ promoted' \in BOOLEAN
        /\ a = "hook" => promoted' = promoted
        /\ a # "hook" => ~promoted' /\ (a = "none" <=> t \in Request)
  BY DEF TakeLease, Back, LoopInv, LoopShape
<1>2. /\ thr' \in [Thread -> ThreadState] /\ thr'[t].at = a
      /\ \A u \in Thread : thr'[u].kind = thr[u].kind /\ thr'[u].closed = thr[u].closed
      /\ \A u \in Thread : u # t => thr'[u].at = thr[u].at
  BY <1>1, ToFacts DEF LoopInv, LoopShape, Places, PromoteSteps, FenceSteps
<1>3. KindOf(t)'
  BY <1>1, <1>2 DEF LoopInv, LoopShape, KindOf, PromoteSteps, FenceSteps
<1>4. LoopShape'
  <2>1. (\A u \in Thread : KindOf(u))'
    BY <1>2, <1>3, KindsKept DEF LoopInv, LoopShape
  <2>2. \A k \in Kinds : ch'[k] # 0 => thr'[ch'[k]].kind = k
    BY <1>1, <1>2 DEF LoopInv, LoopShape, Thread
  <2> QED
    BY <1>1, <1>2, <2>1, <2>2 DEF LoopInv, LoopShape
<1>5. (\A u \in Thread : RoleOf(u) /\ ResyncOf(u))'
  BY <1>1, <1>2
     DEF LoopInv, LoopShape, LoopOrder, RoleOf, ResyncOf, OneActor, OneResync,
       OnlyLeaderRenews, Actor, Ordered, RecoverOf, KindOf, PromoteSteps, FenceSteps, Thread
<1>6. (\A u \in Thread : RecoverOf(u) /\ GuardOf(u))'
  BY <1>1, <1>2
     DEF LoopInv, LoopShape, LoopOrder, RecoverOf, GuardOf, RoleOf, OneActor,
       OneResync, Actor, Ordered, LeaderGuard, KindOf, PromoteSteps, FenceSteps, Thread
<1>7. (\A u \in Slot : SyncOf(u))'
  BY <1>1, <1>2
     DEF LoopInv, LoopShape, LoopOrder, SyncOf, QuietSync, OneResync, Actor, KindOf, PromoteSteps, FenceSteps, Thread
<1>8. (OneActor /\ OneResync)'
  BY <1>1, <1>2
     DEF LoopInv, LoopShape, LoopOrder, OneActor, OneResync, RoleOf, GuardOf, QuietSync, SyncOf,
       Actor, Ordered, KindOf, PromoteSteps, FenceSteps, Thread
<1>9. (QuietSync /\ LeaderGuard)'
  BY <1>1, <1>2
     DEF LoopInv, LoopShape, LoopOrder, QuietSync, LeaderGuard, RoleOf, GuardOf, OneActor, OneResync,
       SyncOf, Actor, Ordered, KindOf, PromoteSteps, FenceSteps, Thread
<1>10. (OnlyLeaderRenews /\ PromoteGuardFree)'
  BY <1>1, <1>2
     DEF LoopInv, LoopShape, LoopOrder, OnlyLeaderRenews, PromoteGuardFree, RoleOf,
       ResyncOf, Actor, Ordered, KindOf, PromoteSteps, FenceSteps, Thread
<1> QED
  BY <1>4, <1>5, <1>6, <1>7, <1>8, <1>9, <1>10 DEF LoopInv, LoopOrder

\* The promotion hook succeeds, or the attempt ends and releases the guard.
LEMMA HookKeeps ==
  ASSUME LoopInv, NEW t \in Thread, Hook(t)
  PROVE  LoopInv'
<1>1. PICK a \in {"lead", "none", "run"} :
        /\ To(t, a) /\ ch' = ch /\ role' = role /\ armed' = armed /\ overtaken' = overtaken
        /\ known' = known /\ stop' = stop /\ key' = key /\ epoch' = epoch
        /\ thr[t].at = "hook" /\ promoted' \in BOOLEAN
        /\ a = "lead" => promoted' = promoted
        /\ a # "lead" => ~promoted' /\ (a = "none" <=> t \in Request)
  BY DEF Hook, Back, LoopInv, LoopShape
<1>2. /\ thr' \in [Thread -> ThreadState] /\ thr'[t].at = a
      /\ \A u \in Thread : thr'[u].kind = thr[u].kind /\ thr'[u].closed = thr[u].closed
      /\ \A u \in Thread : u # t => thr'[u].at = thr[u].at
  BY <1>1, ToFacts DEF LoopInv, LoopShape, Places, PromoteSteps, FenceSteps
<1>3. KindOf(t)'
  BY <1>1, <1>2 DEF LoopInv, LoopShape, KindOf, PromoteSteps, FenceSteps
<1>4. LoopShape'
  <2>1. (\A u \in Thread : KindOf(u))'
    BY <1>2, <1>3, KindsKept DEF LoopInv, LoopShape
  <2>2. \A k \in Kinds : ch'[k] # 0 => thr'[ch'[k]].kind = k
    BY <1>1, <1>2 DEF LoopInv, LoopShape, Thread
  <2> QED
    BY <1>1, <1>2, <2>1, <2>2 DEF LoopInv, LoopShape
<1>5. (\A u \in Thread : RoleOf(u) /\ ResyncOf(u))'
  BY <1>1, <1>2
     DEF LoopInv, LoopShape, LoopOrder, RoleOf, ResyncOf, OneActor, OneResync,
       OnlyLeaderRenews, Actor, Ordered, RecoverOf, KindOf, PromoteSteps, FenceSteps, Thread
<1>6. (\A u \in Thread : RecoverOf(u) /\ GuardOf(u))'
  BY <1>1, <1>2
     DEF LoopInv, LoopShape, LoopOrder, RecoverOf, GuardOf, RoleOf, OneActor,
       OneResync, Actor, Ordered, LeaderGuard, KindOf, PromoteSteps, FenceSteps, Thread
<1>7. (\A u \in Slot : SyncOf(u))'
  BY <1>1, <1>2
     DEF LoopInv, LoopShape, LoopOrder, SyncOf, QuietSync, OneResync, Actor, KindOf, PromoteSteps, FenceSteps, Thread
<1>8. (OneActor /\ OneResync)'
  BY <1>1, <1>2
     DEF LoopInv, LoopShape, LoopOrder, OneActor, OneResync, RoleOf, GuardOf, QuietSync, SyncOf,
       Actor, Ordered, KindOf, PromoteSteps, FenceSteps, Thread
<1>9. (QuietSync /\ LeaderGuard)'
  BY <1>1, <1>2
     DEF LoopInv, LoopShape, LoopOrder, QuietSync, LeaderGuard, RoleOf, GuardOf, OneActor, OneResync,
       SyncOf, Actor, Ordered, KindOf, PromoteSteps, FenceSteps, Thread
<1>10. (OnlyLeaderRenews /\ PromoteGuardFree)'
  BY <1>1, <1>2
     DEF LoopInv, LoopShape, LoopOrder, OnlyLeaderRenews, PromoteGuardFree, RoleOf,
       ResyncOf, Actor, Ordered, KindOf, PromoteSteps, FenceSteps, Thread
<1> QED
  BY <1>4, <1>5, <1>6, <1>7, <1>8, <1>9, <1>10 DEF LoopInv, LoopOrder

\* The only actor becomes leader.
LEMMA LeadKeeps ==
  ASSUME LoopInv, NEW t \in Thread, Lead(t)
  PROVE  LoopInv'
<1>1. PICK a \in {"halt"} :
        /\ To(t, a) /\ ch' = ch /\ role' = "leader" /\ armed' = armed /\ overtaken' = overtaken
        /\ known' = known /\ stop' = stop /\ key' = key /\ epoch' = epoch /\ promoted' = promoted
        /\ thr[t].at = "lead"
  BY DEF Lead
<1>2. /\ thr' \in [Thread -> ThreadState] /\ thr'[t].at = a
      /\ \A u \in Thread : thr'[u].kind = thr[u].kind /\ thr'[u].closed = thr[u].closed
      /\ \A u \in Thread : u # t => thr'[u].at = thr[u].at
  BY <1>1, ToFacts DEF LoopInv, LoopShape, Places, PromoteSteps, FenceSteps
<1>3. KindOf(t)'
  BY <1>1, <1>2 DEF LoopInv, LoopShape, KindOf, PromoteSteps, FenceSteps
<1>4. LoopShape'
  <2>1. (\A u \in Thread : KindOf(u))'
    BY <1>2, <1>3, KindsKept DEF LoopInv, LoopShape
  <2>2. \A k \in Kinds : ch'[k] # 0 => thr'[ch'[k]].kind = k
    BY <1>1, <1>2 DEF LoopInv, LoopShape, Thread
  <2> QED
    BY <1>1, <1>2, <2>1, <2>2 DEF LoopInv, LoopShape
<1>5. (\A u \in Thread : RoleOf(u) /\ ResyncOf(u))'
  BY <1>1, <1>2
     DEF LoopInv, LoopShape, LoopOrder, RoleOf, ResyncOf, OneActor, OneResync,
       OnlyLeaderRenews, Actor, Ordered, RecoverOf, KindOf, PromoteSteps, FenceSteps, Thread
<1>6. (\A u \in Thread : RecoverOf(u) /\ GuardOf(u))'
  BY <1>1, <1>2
     DEF LoopInv, LoopShape, LoopOrder, RecoverOf, GuardOf, RoleOf, OneActor,
       OneResync, Actor, Ordered, LeaderGuard, KindOf, PromoteSteps, FenceSteps, Thread
<1>7. (\A u \in Slot : SyncOf(u))'
  BY <1>1, <1>2
     DEF LoopInv, LoopShape, LoopOrder, SyncOf, QuietSync, OneResync, Actor, KindOf, PromoteSteps, FenceSteps, Thread
<1>8. (OneActor /\ OneResync)'
  BY <1>1, <1>2
     DEF LoopInv, LoopShape, LoopOrder, OneActor, OneResync, RoleOf, GuardOf, QuietSync, SyncOf,
       Actor, Ordered, KindOf, PromoteSteps, FenceSteps, Thread
<1>9. (QuietSync /\ LeaderGuard)'
  BY <1>1, <1>2
     DEF LoopInv, LoopShape, LoopOrder, QuietSync, LeaderGuard, RoleOf, GuardOf, OneActor, OneResync,
       SyncOf, Actor, Ordered, KindOf, PromoteSteps, FenceSteps, Thread
<1>10. (OnlyLeaderRenews /\ PromoteGuardFree)'
  BY <1>1, <1>2
     DEF LoopInv, LoopShape, LoopOrder, OnlyLeaderRenews, PromoteGuardFree, RoleOf,
       ResyncOf, Actor, Ordered, KindOf, PromoteSteps, FenceSteps, Thread
<1> QED
  BY <1>4, <1>5, <1>6, <1>7, <1>8, <1>9, <1>10 DEF LoopInv, LoopOrder

\* After a fence nobody promotes, so the guard is free to release.
LEMMA RearmKeeps ==
  ASSUME LoopInv, NEW t \in Thread, Rearm(t)
  PROVE  LoopInv'
<1>1. PICK a \in {"resync"} :
        /\ To(t, a) /\ ch' = ch /\ role' = role /\ armed' = armed /\ overtaken' = overtaken
        /\ known' = known /\ stop' = stop /\ key' = key /\ epoch' = epoch /\ promoted' = FALSE
        /\ thr[t].at = "rearm"
  BY DEF Rearm
<1>2. /\ thr' \in [Thread -> ThreadState] /\ thr'[t].at = a
      /\ \A u \in Thread : thr'[u].kind = thr[u].kind /\ thr'[u].closed = thr[u].closed
      /\ \A u \in Thread : u # t => thr'[u].at = thr[u].at
  BY <1>1, ToFacts DEF LoopInv, LoopShape, Places, PromoteSteps, FenceSteps
<1>3. KindOf(t)'
  BY <1>1, <1>2 DEF LoopInv, LoopShape, KindOf, PromoteSteps, FenceSteps
<1>4. LoopShape'
  <2>1. (\A u \in Thread : KindOf(u))'
    BY <1>2, <1>3, KindsKept DEF LoopInv, LoopShape
  <2>2. \A k \in Kinds : ch'[k] # 0 => thr'[ch'[k]].kind = k
    BY <1>1, <1>2 DEF LoopInv, LoopShape, Thread
  <2> QED
    BY <1>1, <1>2, <2>1, <2>2 DEF LoopInv, LoopShape
<1>5. (\A u \in Thread : RoleOf(u) /\ ResyncOf(u))'
  BY <1>1, <1>2
     DEF LoopInv, LoopShape, LoopOrder, RoleOf, ResyncOf, OneActor, OneResync,
       OnlyLeaderRenews, Actor, Ordered, RecoverOf, KindOf, PromoteSteps, FenceSteps, Thread
<1>6. (\A u \in Thread : RecoverOf(u) /\ GuardOf(u))'
  BY <1>1, <1>2
     DEF LoopInv, LoopShape, LoopOrder, RecoverOf, GuardOf, RoleOf, OneActor,
       OneResync, Actor, Ordered, LeaderGuard, KindOf, PromoteSteps, FenceSteps, Thread
<1>7. (\A u \in Slot : SyncOf(u))'
  BY <1>1, <1>2
     DEF LoopInv, LoopShape, LoopOrder, SyncOf, QuietSync, OneResync, Actor, KindOf, PromoteSteps, FenceSteps, Thread
<1>8. (OneActor /\ OneResync)'
  BY <1>1, <1>2
     DEF LoopInv, LoopShape, LoopOrder, OneActor, OneResync, RoleOf, GuardOf, QuietSync, SyncOf,
       Actor, Ordered, KindOf, PromoteSteps, FenceSteps, Thread
<1>9. (QuietSync /\ LeaderGuard)'
  BY <1>1, <1>2
     DEF LoopInv, LoopShape, LoopOrder, QuietSync, LeaderGuard, RoleOf, GuardOf, OneActor, OneResync,
       SyncOf, Actor, Ordered, KindOf, PromoteSteps, FenceSteps, Thread
<1>10. (OnlyLeaderRenews /\ PromoteGuardFree)'
  BY <1>1, <1>2
     DEF LoopInv, LoopShape, LoopOrder, OnlyLeaderRenews, PromoteGuardFree, RoleOf,
       ResyncOf, Actor, Ordered, KindOf, PromoteSteps, FenceSteps, Thread
<1> QED
  BY <1>4, <1>5, <1>6, <1>7, <1>8, <1>9, <1>10 DEF LoopInv, LoopOrder

\* A keepalive that lost its lease goes on to the fence.
LEMMA RenewKeeps ==
  ASSUME LoopInv, NEW t \in Thread, Renew(t)
  PROVE  LoopInv'
<1>1. PICK a \in {"fence"} :
        /\ To(t, a) /\ ch' = ch /\ role' = role /\ armed' = armed /\ overtaken' = overtaken
        /\ known' = known /\ stop' = stop /\ key' = key /\ epoch' = epoch /\ promoted' = promoted
        /\ thr[t].kind = "keep" /\ thr[t].at = "run"
  BY DEF Renew, Is, haVars
<1>2. /\ thr' \in [Thread -> ThreadState] /\ thr'[t].at = a
      /\ \A u \in Thread : thr'[u].kind = thr[u].kind /\ thr'[u].closed = thr[u].closed
      /\ \A u \in Thread : u # t => thr'[u].at = thr[u].at
  BY <1>1, ToFacts DEF LoopInv, LoopShape, Places, PromoteSteps, FenceSteps
<1>3. KindOf(t)'
  BY <1>1, <1>2 DEF LoopInv, LoopShape, KindOf, PromoteSteps, FenceSteps
<1>4. LoopShape'
  <2>1. (\A u \in Thread : KindOf(u))'
    BY <1>2, <1>3, KindsKept DEF LoopInv, LoopShape
  <2>2. \A k \in Kinds : ch'[k] # 0 => thr'[ch'[k]].kind = k
    BY <1>1, <1>2 DEF LoopInv, LoopShape, Thread
  <2> QED
    BY <1>1, <1>2, <2>1, <2>2 DEF LoopInv, LoopShape
<1>5. (\A u \in Thread : RoleOf(u) /\ ResyncOf(u))'
  BY <1>1, <1>2
     DEF LoopInv, LoopShape, LoopOrder, RoleOf, ResyncOf, OneActor, OneResync,
       OnlyLeaderRenews, Actor, Ordered, RecoverOf, KindOf, PromoteSteps, FenceSteps, Thread
<1>6. (\A u \in Thread : RecoverOf(u) /\ GuardOf(u))'
  BY <1>1, <1>2
     DEF LoopInv, LoopShape, LoopOrder, RecoverOf, GuardOf, RoleOf, OneActor,
       OneResync, Actor, Ordered, LeaderGuard, KindOf, PromoteSteps, FenceSteps, Thread
<1>7. (\A u \in Slot : SyncOf(u))'
  BY <1>1, <1>2
     DEF LoopInv, LoopShape, LoopOrder, SyncOf, QuietSync, OneResync, Actor, KindOf, PromoteSteps, FenceSteps, Thread
<1>8. (OneActor /\ OneResync)'
  BY <1>1, <1>2
     DEF LoopInv, LoopShape, LoopOrder, OneActor, OneResync, RoleOf, GuardOf, QuietSync, SyncOf,
       Actor, Ordered, KindOf, PromoteSteps, FenceSteps, Thread
<1>9. (QuietSync /\ LeaderGuard)'
  BY <1>1, <1>2
     DEF LoopInv, LoopShape, LoopOrder, QuietSync, LeaderGuard, RoleOf, GuardOf, OneActor, OneResync,
       SyncOf, Actor, Ordered, KindOf, PromoteSteps, FenceSteps, Thread
<1>10. (OnlyLeaderRenews /\ PromoteGuardFree)'
  BY <1>1, <1>2
     DEF LoopInv, LoopShape, LoopOrder, OnlyLeaderRenews, PromoteGuardFree, RoleOf,
       ResyncOf, Actor, Ordered, KindOf, PromoteSteps, FenceSteps, Thread
<1> QED
  BY <1>4, <1>5, <1>6, <1>7, <1>8, <1>9, <1>10 DEF LoopInv, LoopOrder

\* A loop that was told to stop ends.
LEMMA ExitKeeps ==
  ASSUME LoopInv, NEW t \in Thread, Exit(t)
  PROVE  LoopInv'
<1>1. PICK a \in {"none"} :
        /\ To(t, a) /\ role' = role /\ armed' = armed /\ overtaken' = overtaken
        /\ known' = known /\ stop' = stop /\ key' = key /\ epoch' = epoch /\ promoted' = promoted
        /\ thr[t].at = "run"
        /\ ch' \in [Kinds -> Slot \cup {0}] /\ ch'["keep"] = ch["keep"] /\ ch'["sync"] = ch["sync"]
        /\ ch'["rec"] \in {0, ch["rec"]}
  BY ReturnFacts DEF Exit, haVars, LoopInv
<1>2. /\ thr' \in [Thread -> ThreadState] /\ thr'[t].at = a
      /\ \A u \in Thread : thr'[u].kind = thr[u].kind /\ thr'[u].closed = thr[u].closed
      /\ \A u \in Thread : u # t => thr'[u].at = thr[u].at
  BY <1>1, ToFacts DEF LoopInv, LoopShape, Places, PromoteSteps, FenceSteps
<1>3. KindOf(t)'
  BY <1>1, <1>2 DEF LoopInv, LoopShape, KindOf, PromoteSteps, FenceSteps
<1>4. LoopShape'
  BY <1>1, <1>2, <1>3
     DEF LoopInv, LoopShape, KindOf, Thread, Kinds
<1>5. (\A u \in Thread : RoleOf(u) /\ ResyncOf(u))'
  BY <1>1, <1>2
     DEF LoopInv, LoopShape, LoopOrder, RoleOf, ResyncOf, OneActor, OneResync,
       OnlyLeaderRenews, Actor, Ordered, RecoverOf, Kinds, KindOf, PromoteSteps, FenceSteps, Thread
<1>6. (\A u \in Thread : RecoverOf(u) /\ GuardOf(u))'
  BY <1>1, <1>2
     DEF LoopInv, LoopShape, LoopOrder, RecoverOf, GuardOf, RoleOf, OneActor,
       OneResync, Actor, Ordered, LeaderGuard, Kinds, KindOf, PromoteSteps, FenceSteps, Thread
<1>7. (\A u \in Slot : SyncOf(u))'
  BY <1>1, <1>2
     DEF LoopInv, LoopShape, LoopOrder, SyncOf, QuietSync, OneResync, Actor, Kinds, KindOf, PromoteSteps, FenceSteps, Thread
<1>8. (OneActor /\ OneResync)'
  BY <1>1, <1>2
     DEF LoopInv, LoopShape, LoopOrder, OneActor, OneResync, RoleOf, GuardOf, QuietSync, SyncOf,
       Actor, Ordered, Kinds, KindOf, PromoteSteps, FenceSteps, Thread
<1>9. (QuietSync /\ LeaderGuard)'
  BY <1>1, <1>2
     DEF LoopInv, LoopShape, LoopOrder, QuietSync, LeaderGuard, RoleOf, GuardOf, OneActor, OneResync,
       SyncOf, Actor, Ordered, Kinds, KindOf, PromoteSteps, FenceSteps, Thread
<1>10. (OnlyLeaderRenews /\ PromoteGuardFree)'
  BY <1>1, <1>2
     DEF LoopInv, LoopShape, LoopOrder, OnlyLeaderRenews, PromoteGuardFree, RoleOf,
       ResyncOf, Actor, Ordered, Kinds, KindOf, PromoteSteps, FenceSteps, Thread
<1> QED
  BY <1>4, <1>5, <1>6, <1>7, <1>8, <1>9, <1>10 DEF LoopInv, LoopOrder

\* The recovery loop ends, takes the lease, or finds a peer to follow.
LEMMA RecoverLeaseKeeps ==
  ASSUME LoopInv, NEW t \in Thread, RecoverLease(t)
  PROVE  LoopInv'
<1>1. PICK a \in {"none", "attend", "resync"} :
        /\ To(t, a) /\ role' = role /\ armed' = armed /\ overtaken' = overtaken
        /\ known' = known /\ stop' = stop /\ key' \in {key, "self"} /\ epoch' \in BOOLEAN
        /\ promoted' = promoted /\ thr[t].kind = "rec" /\ thr[t].at = "run"
        /\ a # "none" => role = "leader"
        /\ ch' \in [Kinds -> Slot \cup {0}] /\ ch'["keep"] = ch["keep"] /\ ch'["sync"] = ch["sync"]
        /\ ch'["rec"] \in {0, ch["rec"]}
  BY ReturnFacts DEF RecoverLease, Is, LoopInv, LoopShape
<1>2. /\ thr' \in [Thread -> ThreadState] /\ thr'[t].at = a
      /\ \A u \in Thread : thr'[u].kind = thr[u].kind /\ thr'[u].closed = thr[u].closed
      /\ \A u \in Thread : u # t => thr'[u].at = thr[u].at
  BY <1>1, ToFacts DEF LoopInv, LoopShape, Places, PromoteSteps, FenceSteps
<1>3. KindOf(t)'
  BY <1>1, <1>2 DEF LoopInv, LoopShape, KindOf, PromoteSteps, FenceSteps
<1>4. LoopShape'
  BY <1>1, <1>2, <1>3
     DEF LoopInv, LoopShape, KindOf, Thread, Kinds
<1>5. (\A u \in Thread : RoleOf(u) /\ ResyncOf(u))'
  BY <1>1, <1>2
     DEF LoopInv, LoopShape, LoopOrder, RoleOf, ResyncOf, OneActor, OneResync,
       OnlyLeaderRenews, Actor, Ordered, RecoverOf, Kinds, KindOf, PromoteSteps, FenceSteps, Thread
<1>6. (\A u \in Thread : RecoverOf(u) /\ GuardOf(u))'
  BY <1>1, <1>2
     DEF LoopInv, LoopShape, LoopOrder, RecoverOf, GuardOf, RoleOf, OneActor,
       OneResync, Actor, Ordered, LeaderGuard, Kinds, KindOf, PromoteSteps, FenceSteps, Thread
<1>7. (\A u \in Slot : SyncOf(u))'
  BY <1>1, <1>2
     DEF LoopInv, LoopShape, LoopOrder, SyncOf, QuietSync, OneResync, Actor, Kinds, KindOf, PromoteSteps, FenceSteps, Thread
<1>8. (OneActor /\ OneResync)'
  BY <1>1, <1>2
     DEF LoopInv, LoopShape, LoopOrder, OneActor, OneResync, RoleOf, GuardOf, QuietSync, SyncOf,
       Actor, Ordered, Kinds, KindOf, PromoteSteps, FenceSteps, Thread
<1>9. (QuietSync /\ LeaderGuard)'
  BY <1>1, <1>2
     DEF LoopInv, LoopShape, LoopOrder, QuietSync, LeaderGuard, RoleOf, GuardOf, OneActor, OneResync,
       SyncOf, Actor, Ordered, Kinds, KindOf, PromoteSteps, FenceSteps, Thread
<1>10. (OnlyLeaderRenews /\ PromoteGuardFree)'
  BY <1>1, <1>2
     DEF LoopInv, LoopShape, LoopOrder, OnlyLeaderRenews, PromoteGuardFree, RoleOf,
       ResyncOf, Actor, Ordered, Kinds, KindOf, PromoteSteps, FenceSteps, Thread
<1> QED
  BY <1>4, <1>5, <1>6, <1>7, <1>8, <1>9, <1>10 DEF LoopInv, LoopOrder

\* Whoever takes the guard becomes the only actor: a leader has no sync loop left to
\* promote it, and a fence that has not released the guard holds it.
LEMMA PromoteKeeps ==
  ASSUME LoopInv, NEW t \in Thread, Promote(t)
  PROVE  LoopInv'
<1>1. PICK a \in {"acquire", "none"} :
        /\ To(t, a) /\ ch' = ch /\ role' = role /\ armed' = armed /\ ~overtaken
        /\ known' = known /\ stop' = stop /\ key' = key /\ epoch' = epoch
        /\ \/ t \in Request /\ thr[t].at = "none" /\ role = "standby" /\ armed
           \/ thr[t].kind = "sync" /\ thr[t].at = "run" /\ ~thr[t].closed
        /\ promoted' \in BOOLEAN /\ promoted' /\ overtaken' \in BOOLEAN
        /\ a = "acquire" => ~promoted /\ (overtaken' <=> \E u \in Slot : thr[u].at = "resync")
        /\ a = "none" => promoted /\ t \in Slot /\ role = "leader" /\ ~overtaken'
  <2>1. /\ ch' = ch /\ role' = role /\ armed' = armed /\ ~overtaken
        /\ known' = known /\ stop' = stop /\ key' = key /\ epoch' = epoch
        /\ \/ t \in Request /\ thr[t].at = "none" /\ role = "standby" /\ armed
           \/ thr[t].kind = "sync" /\ thr[t].at = "run" /\ ~thr[t].closed
    BY DEF Promote, Is
  <2>2. CASE /\ ~promoted /\ promoted' = TRUE /\ To(t, "acquire")
             /\ overtaken' = (overtaken \/ \E u \in Slot : thr[u].at = "resync")
    <3>1. overtaken' \in BOOLEAN /\ (overtaken' <=> \E u \in Slot : thr[u].at = "resync")
      BY <2>1, <2>2
    <3> QED
      BY <2>1, <2>2, <3>1
  <2>3. CASE promoted /\ t \in Slot /\ role = "leader" /\ To(t, "none") /\ UNCHANGED <<promoted, overtaken>>
    BY <2>1, <2>3 DEF LoopInv, LoopShape
  <2> QED
    BY <2>2, <2>3 DEF Promote
<1>2. /\ thr' \in [Thread -> ThreadState] /\ thr'[t].at = a
      /\ \A u \in Thread : thr'[u].kind = thr[u].kind /\ thr'[u].closed = thr[u].closed
      /\ \A u \in Thread : u # t => thr'[u].at = thr[u].at
  BY <1>1, ToFacts DEF LoopInv, LoopShape, Places, PromoteSteps, FenceSteps
<1>3. a = "acquire" => role = "standby" /\ \A u \in Thread : ~Actor(u)
  <2> SUFFICES ASSUME a = "acquire" PROVE role = "standby" /\ \A u \in Thread : ~Actor(u)
    OBVIOUS
  <2>1. \A u \in Thread : thr[u].at \in PromoteSteps => thr[u].kind = "rec"
    BY <1>1 DEF LoopInv, LoopOrder, GuardOf
  <2>2. \A u \in Thread : thr[u].at # "halt"
    BY <2>1 DEF LoopInv, LoopShape, KindOf, PromoteSteps
  <2>3. t \in Request \/ ch["sync"] # 0
    BY <1>1, LoopsAssumption DEF LoopInv, LoopOrder, SyncOf, Thread
  <2>4. role = "standby"
    BY <1>1, <2>2, <2>3, LoopsAssumption
    DEF LoopInv, LoopShape, LoopOrder, QuietSync, KindOf
  <2>5. \A u \in Thread : thr[u].at # "rearm"
    BY <1>1, <2>2, <2>3 DEF LoopInv, LoopShape, LoopOrder, QuietSync, GuardOf, KindOf
  <2> QED
    BY <1>1, <2>1, <2>4, <2>5
    DEF LoopInv, LoopShape, LoopOrder, Actor, Ordered, RoleOf, KindOf, PromoteSteps
<1>4. KindOf(t)'
  BY <1>1, <1>2 DEF LoopInv, LoopShape, KindOf, PromoteSteps, FenceSteps
<1>5. LoopShape'
  BY <1>1, <1>2, <1>4
     DEF LoopInv, LoopShape, KindOf, Thread
<1>6. (\A u \in Thread : RoleOf(u) /\ ResyncOf(u))'
  BY <1>1, <1>2, <1>3
     DEF LoopInv, LoopShape, LoopOrder, RoleOf, ResyncOf, OneActor, OneResync,
       OnlyLeaderRenews, Actor, Ordered, RecoverOf, KindOf, PromoteSteps, FenceSteps, Thread
<1>7. (\A u \in Thread : RecoverOf(u) /\ GuardOf(u))'
  BY <1>1, <1>2, <1>3
     DEF LoopInv, LoopShape, LoopOrder, RecoverOf, GuardOf, RoleOf, OneActor,
       OneResync, Actor, Ordered, LeaderGuard, KindOf, PromoteSteps, FenceSteps, Thread
<1>8. (\A u \in Slot : SyncOf(u))'
  BY <1>1, <1>2, <1>3
     DEF LoopInv, LoopShape, LoopOrder, SyncOf, QuietSync, OneResync, Actor, KindOf, PromoteSteps, FenceSteps, Thread
<1>9. (OneActor /\ OneResync)'
  BY <1>1, <1>2, <1>3
     DEF LoopInv, LoopShape, LoopOrder, OneActor, OneResync, RoleOf, GuardOf, QuietSync, SyncOf,
       Actor, Ordered, KindOf, PromoteSteps, FenceSteps, Thread
<1>10. (QuietSync /\ LeaderGuard)'
  BY <1>1, <1>2, <1>3
     DEF LoopInv, LoopShape, LoopOrder, QuietSync, LeaderGuard, RoleOf, GuardOf, OneActor, OneResync,
       SyncOf, Actor, Ordered, KindOf, PromoteSteps, FenceSteps, Thread
<1>11. (OnlyLeaderRenews /\ PromoteGuardFree)'
  BY <1>1, <1>2, <1>3
     DEF LoopInv, LoopShape, LoopOrder, OnlyLeaderRenews, PromoteGuardFree, RoleOf,
       ResyncOf, Actor, Ordered, KindOf, PromoteSteps, FenceSteps, Thread
<1> QED
  BY <1>5, <1>6, <1>7, <1>8, <1>9, <1>10, <1>11 DEF LoopInv, LoopOrder

\* The new leader stops every loop.
LEMMA HaltKeeps ==
  ASSUME LoopInv, NEW t \in Thread, Halt(t)
  PROVE  LoopInv'
<1>1. /\ Close(Kinds, t, "attend") /\ role' = role /\ armed' = armed /\ overtaken' = overtaken
      /\ known' = known /\ stop' = stop /\ key' = key /\ epoch' = epoch /\ promoted' = promoted
      /\ thr[t].at = "halt"
  BY DEF Halt, haVars
<1>2. /\ thr' \in [Thread -> ThreadState] /\ ch' \in [Kinds -> Slot \cup {0}]
      /\ \A u \in Thread : thr'[u].kind = thr[u].kind
      /\ \A u \in Thread : thr'[u].closed <=> (thr[u].closed \/ \E k \in Kinds : ch[k] = u)
      /\ \A u \in Thread : thr'[u].at = IF u = t THEN "attend" ELSE thr[u].at
      /\ ch'["keep"] = 0 /\ ch'["sync"] = 0 /\ ch'["rec"] = 0
  BY <1>1, CloseFacts DEF LoopInv, Places, PromoteSteps, FenceSteps, Kinds
<1>3. (\A u \in Thread : KindOf(u))'
  BY <1>1, <1>2 DEF LoopInv, LoopShape, KindOf, PromoteSteps, FenceSteps, Thread
<1>4. LoopShape'
  BY <1>1, <1>2, <1>3
     DEF LoopInv, LoopShape, KindOf, Thread, Kinds
<1>5. (\A u \in Thread : RoleOf(u) /\ ResyncOf(u))'
  BY <1>1, <1>2
     DEF LoopInv, LoopShape, LoopOrder, RoleOf, ResyncOf, OneActor, OneResync,
       OnlyLeaderRenews, Actor, Ordered, RecoverOf, Kinds, KindOf, PromoteSteps, FenceSteps, Thread
<1>6. (\A u \in Thread : RecoverOf(u) /\ GuardOf(u))'
  BY <1>1, <1>2
     DEF LoopInv, LoopShape, LoopOrder, RecoverOf, GuardOf, RoleOf, OneActor,
       OneResync, Actor, Ordered, LeaderGuard, Kinds, KindOf, PromoteSteps, FenceSteps, Thread
<1>7. (\A u \in Slot : SyncOf(u))'
  BY <1>1, <1>2
     DEF LoopInv, LoopShape, LoopOrder, SyncOf, QuietSync, OneResync, Actor, Kinds, KindOf, PromoteSteps, FenceSteps, Thread
<1>8. (OneActor /\ OneResync)'
  BY <1>1, <1>2
     DEF LoopInv, LoopShape, LoopOrder, OneActor, OneResync, RoleOf, GuardOf, QuietSync, SyncOf,
       Actor, Ordered, Kinds, KindOf, PromoteSteps, FenceSteps, Thread
<1>9. (QuietSync /\ LeaderGuard)'
  BY <1>1, <1>2
     DEF LoopInv, LoopShape, LoopOrder, QuietSync, LeaderGuard, RoleOf, GuardOf, OneActor, OneResync,
       SyncOf, Actor, Ordered, Kinds, KindOf, PromoteSteps, FenceSteps, Thread
<1>10. (OnlyLeaderRenews /\ PromoteGuardFree)'
  BY <1>1, <1>2
     DEF LoopInv, LoopShape, LoopOrder, OnlyLeaderRenews, PromoteGuardFree, RoleOf,
       ResyncOf, Actor, Ordered, Kinds, KindOf, PromoteSteps, FenceSteps, Thread
<1> QED
  BY <1>4, <1>5, <1>6, <1>7, <1>8, <1>9, <1>10 DEF LoopInv, LoopOrder

\* The fence of a leader ends its keepalive; whoever does not lead has nothing to fence.
LEMMA FenceKeeps ==
  ASSUME LoopInv, NEW t \in Thread, Fence(t)
  PROVE  LoopInv'
<1>1. PICK a \in {"none", "rearm"} :
        /\ armed' = armed /\ overtaken' = overtaken /\ promoted' = promoted
        /\ known' = known /\ stop' = stop /\ key' = key /\ thr[t].at = "fence"
        /\ epoch' \in BOOLEAN
        /\ a = "none" => role = "standby" /\ role' = role /\ Return(t)
        /\ a = "rearm" => role = "leader" /\ role' = "standby" /\ Close({"keep"}, t, "rearm")
  BY DEF Fence, LoopInv, LoopShape
<1>2. /\ thr' \in [Thread -> ThreadState] /\ ch' \in [Kinds -> Slot \cup {0}]
      /\ \A u \in Thread : thr'[u].kind = thr[u].kind /\ (thr[u].closed => thr'[u].closed)
      /\ \A u \in Thread : thr'[u].at = IF u = t THEN a ELSE thr[u].at
      /\ ch'["keep"] = (IF a = "none" THEN ch["keep"] ELSE 0) /\ ch'["sync"] = ch["sync"]
      /\ ch'["rec"] \in {0, ch["rec"]}
  <2>1. CASE a = "none"
    <3>1. To(t, "none")
      BY <1>1, <2>1, ReturnFacts DEF LoopInv
    <3>2. /\ thr' \in [Thread -> ThreadState] /\ thr'[t].at = "none"
          /\ \A u \in Thread : thr'[u].kind = thr[u].kind /\ thr'[u].closed = thr[u].closed
          /\ \A u \in Thread : u # t => thr'[u].at = thr[u].at
      BY <3>1, ToFacts DEF LoopInv, LoopShape, Places
    <3> QED
      BY <1>1, <2>1, <3>2, ReturnFacts DEF LoopInv
  <2>2. CASE a = "rearm"
    <3>1. {"keep"} \in SUBSET Kinds /\ "rearm" \in Places
      BY DEF Kinds, Places, FenceSteps
    <3>2. /\ thr' \in [Thread -> ThreadState] /\ ch' \in [Kinds -> Slot \cup {0}]
          /\ \A u \in Thread : thr'[u].kind = thr[u].kind
          /\ \A u \in Thread : thr'[u].closed <=> (thr[u].closed \/ \E k \in {"keep"} : ch[k] = u)
          /\ \A u \in Thread : thr'[u].at = IF u = t THEN "rearm" ELSE thr[u].at
          /\ \A k \in Kinds : ch'[k] = IF k \in {"keep"} THEN 0 ELSE ch[k]
      BY <1>1, <2>2, <3>1, CloseFacts DEF LoopInv
    <3> QED
      BY <2>2, <3>2 DEF Kinds
  <2> QED
    BY <1>1, <2>1, <2>2
<1>3. KindOf(t)'
  BY <1>1, <1>2 DEF LoopInv, LoopShape, KindOf, PromoteSteps, FenceSteps
<1>4. LoopShape'
  BY <1>1, <1>2, <1>3
     DEF LoopInv, LoopShape, KindOf, Thread, Kinds
<1>5. (\A u \in Thread : RoleOf(u) /\ ResyncOf(u))'
  BY <1>1, <1>2
     DEF LoopInv, LoopShape, LoopOrder, RoleOf, ResyncOf, OneActor, OneResync,
       OnlyLeaderRenews, Actor, Ordered, RecoverOf, Kinds, KindOf, PromoteSteps, FenceSteps, Thread
<1>6. (\A u \in Thread : RecoverOf(u) /\ GuardOf(u))'
  BY <1>1, <1>2
     DEF LoopInv, LoopShape, LoopOrder, RecoverOf, GuardOf, RoleOf, OneActor,
       OneResync, Actor, Ordered, LeaderGuard, Kinds, KindOf, PromoteSteps, FenceSteps, Thread
<1>7. (\A u \in Slot : SyncOf(u))'
  BY <1>1, <1>2
     DEF LoopInv, LoopShape, LoopOrder, SyncOf, QuietSync, OneResync, Actor, Kinds, KindOf, PromoteSteps, FenceSteps, Thread
<1>8. (OneActor /\ OneResync)'
  BY <1>1, <1>2
     DEF LoopInv, LoopShape, LoopOrder, OneActor, OneResync, RoleOf, GuardOf, QuietSync, SyncOf,
       Actor, Ordered, Kinds, KindOf, PromoteSteps, FenceSteps, Thread
<1>9. (QuietSync /\ LeaderGuard)'
  BY <1>1, <1>2
     DEF LoopInv, LoopShape, LoopOrder, QuietSync, LeaderGuard, RoleOf, GuardOf, OneActor, OneResync,
       SyncOf, Actor, Ordered, Kinds, KindOf, PromoteSteps, FenceSteps, Thread
<1>10. (OnlyLeaderRenews /\ PromoteGuardFree)'
  BY <1>1, <1>2
     DEF LoopInv, LoopShape, LoopOrder, OnlyLeaderRenews, PromoteGuardFree, RoleOf,
       ResyncOf, Actor, Ordered, Kinds, KindOf, PromoteSteps, FenceSteps, Thread
<1> QED
  BY <1>4, <1>5, <1>6, <1>7, <1>8, <1>9, <1>10 DEF LoopInv, LoopOrder

\* Stop latches, tells every loop to end, and waits.
LEMMA StopKeeps ==
  ASSUME LoopInv, Stop
  PROVE  LoopInv'
<1>1. /\ role' = role /\ armed' = armed /\ overtaken' = overtaken /\ promoted' = promoted
      /\ known' = known /\ key' = key /\ epoch' = epoch /\ stop' \in {"latched", "join", "done"}
      /\ (thr' = thr /\ ch' = ch) \/ Close(Kinds, 0, "none")
  BY DEF Stop, haVars
<1>2. /\ thr' \in [Thread -> ThreadState] /\ ch' \in [Kinds -> Slot \cup {0}]
      /\ \A u \in Thread : thr'[u].kind = thr[u].kind /\ thr'[u].at = thr[u].at
      /\ \A u \in Thread : thr[u].closed => thr'[u].closed
      /\ \/ ch' = ch
         \/ /\ ch'["keep"] = 0 /\ ch'["sync"] = 0 /\ ch'["rec"] = 0
            /\ \A u \in Thread : ch["sync"] = u => thr'[u].closed
  <2>1. CASE thr' = thr /\ ch' = ch
    BY <2>1 DEF LoopInv, LoopShape
  <2>2. CASE Close(Kinds, 0, "none")
    <3>1. 0 \notin Thread /\ "none" \in Places /\ Kinds \in SUBSET Kinds
      BY LoopsAssumption DEF Thread, Places
    <3>2. /\ thr' \in [Thread -> ThreadState] /\ ch' \in [Kinds -> Slot \cup {0}]
          /\ \A u \in Thread : thr'[u].kind = thr[u].kind
          /\ \A u \in Thread : thr'[u].closed <=> (thr[u].closed \/ \E k \in Kinds : ch[k] = u)
          /\ \A u \in Thread : thr'[u].at = IF u = 0 THEN "none" ELSE thr[u].at
          /\ \A k \in Kinds : ch'[k] = IF k \in Kinds THEN 0 ELSE ch[k]
      BY <2>2, <3>1, CloseFacts DEF LoopInv
    <3> QED
      BY <3>1, <3>2 DEF Kinds
  <2> QED
    BY <1>1, <2>1, <2>2
<1>3. (\A u \in Thread : KindOf(u))'
  BY <1>1, <1>2 DEF LoopInv, LoopShape, KindOf, PromoteSteps, FenceSteps, Thread
<1>4. LoopShape'
  BY <1>1, <1>2, <1>3
     DEF LoopInv, LoopShape, KindOf, Thread, Kinds
<1>5. (\A u \in Thread : RoleOf(u) /\ ResyncOf(u))'
  BY <1>1, <1>2
     DEF LoopInv, LoopShape, LoopOrder, RoleOf, ResyncOf, OneActor, OneResync,
       OnlyLeaderRenews, Actor, Ordered, RecoverOf, Kinds, KindOf, PromoteSteps, FenceSteps, Thread
<1>6. (\A u \in Thread : RecoverOf(u) /\ GuardOf(u))'
  BY <1>1, <1>2
     DEF LoopInv, LoopShape, LoopOrder, RecoverOf, GuardOf, RoleOf, OneActor,
       OneResync, Actor, Ordered, LeaderGuard, Kinds, KindOf, PromoteSteps, FenceSteps, Thread
<1>7. (\A u \in Slot : SyncOf(u))'
  BY <1>1, <1>2
     DEF LoopInv, LoopShape, LoopOrder, SyncOf, QuietSync, OneResync, Actor, Kinds, KindOf, PromoteSteps, FenceSteps, Thread
<1>8. (OneActor /\ OneResync)'
  BY <1>1, <1>2
     DEF LoopInv, LoopShape, LoopOrder, OneActor, OneResync, RoleOf, GuardOf, QuietSync, SyncOf,
       Actor, Ordered, Kinds, KindOf, PromoteSteps, FenceSteps, Thread
<1>9. (QuietSync /\ LeaderGuard)'
  BY <1>1, <1>2
     DEF LoopInv, LoopShape, LoopOrder, QuietSync, LeaderGuard, RoleOf, GuardOf, OneActor, OneResync,
       SyncOf, Actor, Ordered, Kinds, KindOf, PromoteSteps, FenceSteps, Thread
<1>10. (OnlyLeaderRenews /\ PromoteGuardFree)'
  BY <1>1, <1>2
     DEF LoopInv, LoopShape, LoopOrder, OnlyLeaderRenews, PromoteGuardFree, RoleOf,
       ResyncOf, Actor, Ordered, Kinds, KindOf, PromoteSteps, FenceSteps, Thread
<1> QED
  BY <1>4, <1>5, <1>6, <1>7, <1>8, <1>9, <1>10 DEF LoopInv, LoopOrder

\* A promotion or recovery that starts no keepalive ends.
LEMMA AttendQuietKeeps ==
  ASSUME LoopInv, NEW t \in Thread, thr[t].at = "attend",
         NEW a \in {"none", "run"}, To(t, a), a = "run" => thr[t].kind = "sync" /\ role # "leader",
         ch' = Handles(t, a), UNCHANGED <<haVars, stop>>
  PROVE  LoopInv'
<1>1. /\ role' = role /\ armed' = armed /\ overtaken' = overtaken /\ promoted' = promoted
      /\ known' = known /\ stop' = stop /\ key' = key /\ epoch' = epoch
      /\ ch' \in [Kinds -> Slot \cup {0}] /\ ch'["keep"] = ch["keep"] /\ ch'["sync"] = ch["sync"]
      /\ ch'["rec"] \in {0, ch["rec"]}
  BY HandlesFacts DEF haVars, LoopInv, Kinds
<1>2. /\ thr' \in [Thread -> ThreadState] /\ thr'[t].at = a
      /\ \A u \in Thread : thr'[u].kind = thr[u].kind /\ thr'[u].closed = thr[u].closed
      /\ \A u \in Thread : u # t => thr'[u].at = thr[u].at
  BY <1>1, ToFacts DEF LoopInv, LoopShape, Places, PromoteSteps, FenceSteps
<1>3. KindOf(t)'
  BY <1>1, <1>2 DEF LoopInv, LoopShape, KindOf, PromoteSteps, FenceSteps
<1>4. LoopShape'
  <2>1. (\A u \in Thread : KindOf(u))'
    BY <1>2, <1>3, KindsKept DEF LoopInv, LoopShape
  <2>2. \A k \in Kinds : ch'[k] # 0 => thr'[ch'[k]].kind = k
    BY <1>1, <1>2 DEF LoopInv, LoopShape, Thread, Kinds
  <2> QED
    BY <1>1, <1>2, <2>1, <2>2 DEF LoopInv, LoopShape
<1>5. (\A u \in Thread : RoleOf(u) /\ ResyncOf(u))'
  BY <1>1, <1>2
     DEF LoopInv, LoopShape, LoopOrder, RoleOf, ResyncOf, OneActor, OneResync,
       OnlyLeaderRenews, Actor, Ordered, RecoverOf, Kinds, KindOf, PromoteSteps, FenceSteps, Thread
<1>6. (\A u \in Thread : RecoverOf(u) /\ GuardOf(u))'
  BY <1>1, <1>2
     DEF LoopInv, LoopShape, LoopOrder, RecoverOf, GuardOf, RoleOf, OneActor,
       OneResync, Actor, Ordered, LeaderGuard, KindOf, PromoteSteps, FenceSteps, Thread
<1>7. (\A u \in Slot : SyncOf(u))'
  BY <1>1, <1>2
     DEF LoopInv, LoopShape, LoopOrder, SyncOf, QuietSync, OneResync, Actor, KindOf, PromoteSteps, FenceSteps, Thread
<1>8. (OneActor /\ OneResync)'
  BY <1>1, <1>2
     DEF LoopInv, LoopShape, LoopOrder, OneActor, OneResync, RoleOf, GuardOf, QuietSync, SyncOf,
       Actor, Ordered, KindOf, PromoteSteps, FenceSteps, Thread
<1>9. (QuietSync /\ LeaderGuard)'
  BY <1>1, <1>2
     DEF LoopInv, LoopShape, LoopOrder, QuietSync, LeaderGuard, RoleOf, GuardOf, OneActor, OneResync,
       SyncOf, Actor, Ordered, KindOf, PromoteSteps, FenceSteps, Thread
<1>10. (OnlyLeaderRenews /\ PromoteGuardFree)'
  BY <1>1, <1>2
     DEF LoopInv, LoopShape, LoopOrder, OnlyLeaderRenews, PromoteGuardFree, RoleOf,
       ResyncOf, Actor, Ordered, KindOf, PromoteSteps, FenceSteps, Thread
<1> QED
  BY <1>4, <1>5, <1>6, <1>7, <1>8, <1>9, <1>10 DEF LoopInv, LoopOrder

\* A promotion or recovery that starts the keepalive hands its part to it.
LEMMA AttendSpawnsKeeps ==
  ASSUME LoopInv, NEW t \in Thread, thr[t].at = "attend",
         NEW a \in {"none", "run"}, Spawn(t, "keep", a),
         a = "run" => thr[t].kind = "sync" /\ role # "leader", UNCHANGED <<haVars, stop>>
  PROVE  LoopInv'
<1>1. /\ role' = role /\ armed' = armed /\ overtaken' = overtaken /\ promoted' = promoted
      /\ known' = known /\ stop' = stop /\ key' = key /\ epoch' = epoch
  BY DEF haVars
<1>2. PICK s \in Slot :
        /\ s # t /\ thr[s].at = "none" /\ (\A k \in Kinds : ch[k] # s) /\ s \notin Request \cup {0}
        /\ thr' \in [Thread -> ThreadState] /\ ch' \in [Kinds -> Slot \cup {0}]
        /\ thr'[s].kind = "keep" /\ thr'[s].at = "run" /\ ~thr'[s].closed
        /\ thr'[t].at = a /\ thr'[t].kind = thr[t].kind /\ thr'[t].closed = thr[t].closed
        /\ \A u \in Thread \ {s, t} : thr'[u] = thr[u]
        /\ ch'["keep"] = s /\ ch'["rec"] \in {0, ch["rec"]}
        /\ \A k \in Kinds \ {"keep", "rec"} : ch'[k] = ch[k]
  BY <1>1, SpawnFacts DEF LoopInv, Places, Kinds
<1>3. (\A u \in Thread : KindOf(u))'
  BY <1>1, <1>2 DEF LoopInv, LoopShape, KindOf, PromoteSteps, FenceSteps, Thread
<1>4. LoopShape'
  BY <1>1, <1>2, <1>3
     DEF LoopInv, LoopShape, KindOf, Thread, Kinds
<1>5. (\A u \in Thread : RoleOf(u) /\ ResyncOf(u))'
  BY <1>1, <1>2
     DEF LoopInv, LoopShape, LoopOrder, RoleOf, ResyncOf, OneActor, OneResync,
       OnlyLeaderRenews, Actor, Ordered, RecoverOf, Kinds, KindOf, PromoteSteps, FenceSteps, Thread
<1>6. (\A u \in Thread : RecoverOf(u) /\ GuardOf(u))'
  BY <1>1, <1>2
     DEF LoopInv, LoopShape, LoopOrder, RecoverOf, GuardOf, RoleOf, OneActor,
       OneResync, Actor, Ordered, LeaderGuard, Kinds, KindOf, PromoteSteps, FenceSteps, Thread
<1>7. (\A u \in Slot : SyncOf(u))'
  BY <1>1, <1>2
     DEF LoopInv, LoopShape, LoopOrder, SyncOf, QuietSync, OneResync, Actor, Kinds, KindOf, PromoteSteps, FenceSteps, Thread
<1>8. (OneActor /\ OneResync)'
  BY <1>1, <1>2
     DEF LoopInv, LoopShape, LoopOrder, OneActor, OneResync, RoleOf, GuardOf, QuietSync, SyncOf,
       Actor, Ordered, Kinds, KindOf, PromoteSteps, FenceSteps, Thread
<1>9. (QuietSync /\ LeaderGuard)'
  BY <1>1, <1>2
     DEF LoopInv, LoopShape, LoopOrder, QuietSync, LeaderGuard, RoleOf, GuardOf, OneActor, OneResync,
       SyncOf, Actor, Ordered, Kinds, KindOf, PromoteSteps, FenceSteps, Thread
<1>10. (OnlyLeaderRenews /\ PromoteGuardFree)'
  BY <1>1, <1>2
     DEF LoopInv, LoopShape, LoopOrder, OnlyLeaderRenews, PromoteGuardFree, RoleOf,
       ResyncOf, Actor, Ordered, Kinds, KindOf, PromoteSteps, FenceSteps, Thread
<1> QED
  BY <1>4, <1>5, <1>6, <1>7, <1>8, <1>9, <1>10 DEF LoopInv, LoopOrder

\* A loop that has nobody to follow, or that Stop joins, returns.
LEMMA ResyncQuietKeeps ==
  ASSUME LoopInv, NEW t \in Thread, thr[t].at = "resync",
         Return(t), UNCHANGED <<haVars, stop>>
  PROVE  LoopInv'
<1>1. PICK a \in {"none"} :
        /\ To(t, a) /\ role' = role /\ armed' = armed /\ overtaken' = overtaken
        /\ known' = known /\ stop' = stop /\ key' = key /\ epoch' = epoch /\ promoted' = promoted
        /\ ch' \in [Kinds -> Slot \cup {0}] /\ ch'["keep"] = ch["keep"] /\ ch'["sync"] = ch["sync"]
        /\ ch'["rec"] \in {0, ch["rec"]}
  BY ReturnFacts DEF haVars, LoopInv
<1>2. /\ thr' \in [Thread -> ThreadState] /\ thr'[t].at = a
      /\ \A u \in Thread : thr'[u].kind = thr[u].kind /\ thr'[u].closed = thr[u].closed
      /\ \A u \in Thread : u # t => thr'[u].at = thr[u].at
  BY <1>1, ToFacts DEF LoopInv, LoopShape, Places, PromoteSteps, FenceSteps
<1>3. KindOf(t)'
  BY <1>1, <1>2 DEF LoopInv, LoopShape, KindOf, PromoteSteps, FenceSteps
<1>4. LoopShape'
  BY <1>1, <1>2, <1>3
     DEF LoopInv, LoopShape, KindOf, Thread, Kinds
<1>5. (\A u \in Thread : RoleOf(u) /\ ResyncOf(u))'
  BY <1>1, <1>2
     DEF LoopInv, LoopShape, LoopOrder, RoleOf, ResyncOf, OneActor, OneResync,
       OnlyLeaderRenews, Actor, Ordered, RecoverOf, Kinds, KindOf, PromoteSteps, FenceSteps, Thread
<1>6. (\A u \in Thread : RecoverOf(u) /\ GuardOf(u))'
  BY <1>1, <1>2
     DEF LoopInv, LoopShape, LoopOrder, RecoverOf, GuardOf, RoleOf, OneActor,
       OneResync, Actor, Ordered, LeaderGuard, Kinds, KindOf, PromoteSteps, FenceSteps, Thread
<1>7. (\A u \in Slot : SyncOf(u))'
  BY <1>1, <1>2
     DEF LoopInv, LoopShape, LoopOrder, SyncOf, QuietSync, OneResync, Actor, Kinds, KindOf, PromoteSteps, FenceSteps, Thread
<1>8. (OneActor /\ OneResync)'
  BY <1>1, <1>2
     DEF LoopInv, LoopShape, LoopOrder, OneActor, OneResync, RoleOf, GuardOf, QuietSync, SyncOf,
       Actor, Ordered, Kinds, KindOf, PromoteSteps, FenceSteps, Thread
<1>9. (QuietSync /\ LeaderGuard)'
  BY <1>1, <1>2
     DEF LoopInv, LoopShape, LoopOrder, QuietSync, LeaderGuard, RoleOf, GuardOf, OneActor, OneResync,
       SyncOf, Actor, Ordered, Kinds, KindOf, PromoteSteps, FenceSteps, Thread
<1>10. (OnlyLeaderRenews /\ PromoteGuardFree)'
  BY <1>1, <1>2
     DEF LoopInv, LoopShape, LoopOrder, OnlyLeaderRenews, PromoteGuardFree, RoleOf,
       ResyncOf, Actor, Ordered, Kinds, KindOf, PromoteSteps, FenceSteps, Thread
<1> QED
  BY <1>4, <1>5, <1>6, <1>7, <1>8, <1>9, <1>10 DEF LoopInv, LoopOrder

\* A loop that follows the peer becomes a standby with a new sync loop.
LEMMA ResyncSpawnsKeeps ==
  ASSUME LoopInv, NEW t \in Thread, thr[t].at = "resync",
         Spawn(t, "sync", "none"), role' = "standby", promoted' = FALSE, armed' = TRUE,
         UNCHANGED <<epoch, known, key, stop, overtaken>>
  PROVE  LoopInv'
<1>1. /\ role' = "standby" /\ armed' = TRUE /\ ~promoted' /\ promoted' \in BOOLEAN
      /\ overtaken' = overtaken /\ known' = known /\ stop' = stop /\ key' = key /\ epoch' = epoch
  OBVIOUS
<1>2. PICK s \in Slot :
        /\ s # t /\ thr[s].at = "none" /\ (\A k \in Kinds : ch[k] # s) /\ s \notin Request \cup {0}
        /\ thr' \in [Thread -> ThreadState] /\ ch' \in [Kinds -> Slot \cup {0}]
        /\ thr'[s].kind = "sync" /\ thr'[s].at = "run" /\ ~thr'[s].closed
        /\ thr'[t].at = "none" /\ thr'[t].kind = thr[t].kind /\ thr'[t].closed = thr[t].closed
        /\ \A u \in Thread \ {s, t} : thr'[u] = thr[u]
        /\ ch'["sync"] = s /\ ch'["rec"] \in {0, ch["rec"]}
        /\ \A k \in Kinds \ {"sync", "rec"} : ch'[k] = ch[k]
  BY <1>1, SpawnFacts DEF LoopInv, Places, Kinds
<1>3. (\A u \in Thread : KindOf(u))'
  BY <1>1, <1>2 DEF LoopInv, LoopShape, KindOf, PromoteSteps, FenceSteps, Thread
<1>4. LoopShape'
  BY <1>1, <1>2, <1>3
     DEF LoopInv, LoopShape, KindOf, Thread, Kinds
<1>5. (\A u \in Thread : RoleOf(u) /\ ResyncOf(u))'
  BY <1>1, <1>2
     DEF LoopInv, LoopShape, LoopOrder, RoleOf, ResyncOf, OneActor, OneResync,
       OnlyLeaderRenews, Actor, Ordered, RecoverOf, Kinds, KindOf, PromoteSteps, FenceSteps, Thread
<1>6. (\A u \in Thread : RecoverOf(u) /\ GuardOf(u))'
  BY <1>1, <1>2
     DEF LoopInv, LoopShape, LoopOrder, RecoverOf, GuardOf, RoleOf, OneActor,
       OneResync, Actor, Ordered, LeaderGuard, Kinds, KindOf, PromoteSteps, FenceSteps, Thread
<1>7. (\A u \in Slot : SyncOf(u))'
  <2>1. ~overtaken => ch["sync"] = 0 /\ \A u \in Slot : SyncOf(u)
    BY DEF LoopInv, LoopOrder, QuietSync, OneResync, Actor, PromoteSteps
  <2>2. \A u \in Slot \ {s} : thr'[u].kind = thr[u].kind /\ thr'[u].closed = thr[u].closed
    BY <1>2 DEF Thread
  <2>3. \A u \in Slot \ {s} : thr'[u].at # "none" => thr[u].at # "none"
    BY <1>2 DEF Thread
  <2>4. 0 \notin Slot
    BY LoopsAssumption
  <2> QED
    BY <1>1, <1>2, <2>1, <2>2, <2>3, <2>4 DEF SyncOf
<1>8. (OneActor /\ OneResync)'
  BY <1>1, <1>2
     DEF LoopInv, LoopShape, LoopOrder, OneActor, OneResync, RoleOf, GuardOf, QuietSync, SyncOf,
       Actor, Ordered, Kinds, KindOf, PromoteSteps, FenceSteps, Thread
<1>9. (QuietSync /\ LeaderGuard)'
  BY <1>1, <1>2
     DEF LoopInv, LoopShape, LoopOrder, QuietSync, LeaderGuard, RoleOf, GuardOf, OneActor, OneResync,
       SyncOf, Actor, Ordered, Kinds, KindOf, PromoteSteps, FenceSteps, Thread
<1>10. (OnlyLeaderRenews /\ PromoteGuardFree)'
  BY <1>1, <1>2
     DEF LoopInv, LoopShape, LoopOrder, OnlyLeaderRenews, PromoteGuardFree, RoleOf,
       ResyncOf, Actor, Ordered, Kinds, KindOf, PromoteSteps, FenceSteps, Thread
<1> QED
  BY <1>4, <1>5, <1>6, <1>7, <1>8, <1>9, <1>10 DEF LoopInv, LoopOrder

\* The initial states satisfy the invariant: one loop runs.
LEMMA LoopsInitInv ==
  ASSUME LoopsInit
  PROVE  LoopInv
<1>1. PICK kind \in Kinds :
        /\ thr = [t \in Thread |-> IF t \in Request THEN [Unborn EXCEPT !.kind = "request"]
                                   ELSE IF t = 1 THEN Loop(kind) ELSE Unborn]
        /\ ch = [k \in Kinds |-> IF k = kind THEN 1 ELSE 0]
        /\ role = (IF kind = "sync" THEN "standby" ELSE "leader")
        /\ epoch = (kind = "keep") /\ key = (IF kind = "keep" THEN "self" ELSE "free")
        /\ armed = (kind = "sync")
        /\ promoted = FALSE /\ known = FALSE /\ stop = "no" /\ overtaken = FALSE
  BY DEF LoopsInit
<1>2. /\ epoch \in BOOLEAN /\ armed \in BOOLEAN /\ (armed <=> kind = "sync") /\ ~promoted /\ ~overtaken
      /\ role \in {"leader", "standby"} /\ key \in {"self", "peer", "free"}
      /\ role = "standby" <=> kind = "sync"
  BY <1>1
<1>3. Unborn \in ThreadState /\ Loop(kind) \in ThreadState /\ [Unborn EXCEPT !.kind = "request"] \in ThreadState
  <2>1. Unborn \in ThreadState /\ Loop(kind) \in ThreadState
    BY DEF Unborn, Loop, ThreadState, Places, Kinds
  <2> QED
    BY <2>1 DEF ThreadState
<1>4. thr \in [Thread -> ThreadState]
  <2> HIDE DEF ThreadState
  <2> QED
    BY <1>1, <1>3
<1>5. 1 \in Slot /\ 1 \in Thread /\ 1 \notin Request
  BY LoopsAssumption DEF Thread
<1>6. /\ thr[1].kind = kind /\ thr[1].at = "run" /\ ~thr[1].closed
      /\ \A t \in Thread : t # 1 => thr[t].at = "none" /\ thr[t].kind = (IF t \in Request THEN "request" ELSE "sync")
  BY <1>1, <1>5 DEF Loop, Unborn
<1>7. ch \in [Kinds -> Slot \cup {0}] /\ \A k \in Kinds : ch[k] # 0 => k = kind /\ ch[k] = 1
  BY <1>1, <1>5
<1>8. \A t \in Thread : KindOf(t)
  BY <1>5, <1>6 DEF KindOf, Kinds, PromoteSteps, FenceSteps
<1>9. LoopShape
  BY <1>1, <1>2, <1>4, <1>6, <1>7, <1>8 DEF LoopShape
<1>10. \A t \in Thread : RoleOf(t) /\ ResyncOf(t) /\ RecoverOf(t) /\ GuardOf(t)
  BY <1>2, <1>6, <1>7 DEF RoleOf, ResyncOf, RecoverOf, GuardOf, Actor, Kinds, PromoteSteps
<1>11. \A t \in Slot : SyncOf(t)
  BY <1>1, <1>6, <1>7 DEF SyncOf, Thread
<1>12. OneActor /\ OneResync
  BY <1>6 DEF OneActor, OneResync, Actor, PromoteSteps
<1>13. QuietSync /\ LeaderGuard /\ OnlyLeaderRenews /\ PromoteGuardFree
  BY <1>2, <1>6, <1>7 DEF QuietSync, LeaderGuard, OnlyLeaderRenews, PromoteGuardFree, Kinds
<1> QED
  BY <1>9, <1>10, <1>11, <1>12, <1>13 DEF LoopInv, LoopOrder

\* The surroundings touch neither threads nor channels.
LEMMA LoopsFrameKeeps ==
  ASSUME LoopInv, thr' = thr, ch' = ch, role' = role, promoted' = promoted, armed' = armed,
         overtaken' = overtaken, epoch' = epoch, stop' = stop,
         key' \in {"self", "peer", "free"}, known' \in BOOLEAN
  PROVE  LoopInv'
<1>1. LoopShape'
  BY DEF LoopInv, LoopShape, KindOf
<1>2. LoopOrder'
  BY DEF LoopInv, LoopOrder, RoleOf, ResyncOf, RecoverOf, GuardOf, SyncOf, OneActor, OneResync, QuietSync,
     LeaderGuard, OnlyLeaderRenews, PromoteGuardFree, Actor, Ordered
<1> QED
  BY <1>1, <1>2 DEF LoopInv

\* Every step keeps the invariant.
LEMMA LoopsNextInv ==
  ASSUME LoopInv, [LoopsNext]_loopVars
  PROVE  LoopInv'
<1>1. ASSUME NEW t \in Thread, Attend(t)
      PROVE  LoopInv'
  <2> DEFINE a == IF thr[t].kind = "sync" /\ role # "leader" THEN "run" ELSE "none"
  <2>1. thr[t].at = "attend" /\ UNCHANGED <<haVars, stop>>
    BY <1>1 DEF Attend
  <2>2. Spawn(t, "keep", a) \/ (To(t, a) /\ ch' = Handles(t, a))
    BY <1>1 DEF Attend
  <2>3. a \in {"none", "run"} /\ (a = "run" => thr[t].kind = "sync" /\ role # "leader")
    OBVIOUS
  <2> HIDE DEF a
  <2>4. CASE Spawn(t, "keep", a)
    BY <2>1, <2>3, <2>4, AttendSpawnsKeeps
  <2>5. CASE To(t, a) /\ ch' = Handles(t, a)
    BY <2>1, <2>3, <2>5, AttendQuietKeeps
  <2> QED
    BY <2>2, <2>4, <2>5
<1>2. ASSUME NEW t \in Thread, Resync(t)
      PROVE  LoopInv'
  <2>1. thr[t].at = "resync" /\ UNCHANGED <<epoch, known, key, stop, overtaken>>
    BY <1>2 DEF Resync
  <2>2. CASE role' = "standby" /\ promoted' = FALSE /\ armed' = TRUE /\ Spawn(t, "sync", "none")
    BY <2>1, <2>2, ResyncSpawnsKeeps
  <2>3. CASE Return(t) /\ UNCHANGED <<role, promoted, armed>>
    <3>1. UNCHANGED <<haVars, stop>>
      BY <2>1, <2>3 DEF haVars
    <3> QED
      BY <2>1, <2>3, <3>1, ResyncQuietKeeps
  <2> QED
    BY <1>2, <2>2, <2>3 DEF Resync
<1>3. ASSUME NEW t \in Thread, ThreadStep(t)
      PROVE  LoopInv'
  BY <1>1, <1>2, <1>3, ExitKeeps, TakeLeaseKeeps, HookKeeps, LeadKeeps, HaltKeeps, FenceKeeps, RearmKeeps,
     RecoverLeaseKeeps DEF ThreadStep
<1>4. CASE RecordStandbyAddr \/ KeyMoves
  BY <1>4, LoopsFrameKeeps DEF RecordStandbyAddr, KeyMoves, LoopInv, LoopShape
<1>5. CASE UNCHANGED loopVars
  BY <1>5, LoopsFrameKeeps DEF loopVars, LoopInv, LoopShape
<1> QED
  BY <1>3, <1>4, <1>5, PromoteKeeps, RenewKeeps, StopKeeps DEF LoopsNext

\* The invariant holds throughout.
LEMMA LoopsInvariant == LoopsSpec => []LoopInv
BY LoopsInitInv, LoopsNextInv, PTL DEF LoopsSpec

\* A node that is not the leader keeps no keepalive loop: for any number of
\* concurrent requests to promote it, and whatever promotions, self-fences,
\* lease recoveries and Stop interleave (unless a promotion overtakes a fence).
THEOREM StandbyNeverRenews == LoopsSpec => []OnlyLeaderRenews
<1>1. LoopInv => OnlyLeaderRenews
  BY DEF LoopInv, LoopOrder
<1> QED
  BY <1>1, LoopsInvariant, PTL

\* The once-guard of promote() is never left taken on a standby by a failed
\* attempt, a fence or a resync, also after a promotion has overtaken a fence.
THEOREM GuardNeverStuck == LoopsSpec => []PromoteGuardFree
<1>1. LoopInv => PromoteGuardFree
  BY DEF LoopInv, LoopOrder
<1> QED
  BY <1>1, LoopsInvariant, PTL

\* The invariant implies the types.
LEMMA LoopInvTypes == LoopInv => LoopsTypeOK
BY DEF LoopInv, LoopShape, LoopsTypeOK, ThreadState, Places, KindOf, Thread

\* The variables of the loops keep their types; a stop channel belongs to a
\* loop of its own kind.
THEOREM LoopsTypeCorrect == LoopsSpec => []LoopsTypeOK
BY LoopInvTypes, LoopsInvariant, PTL

-----------------------------------------------------------------------------
(* ConnLimit: the inductive invariant.                                     *)

N == Cardinality(Conn)
Spot(k, at, i) == conn[k].at = at /\ conn[k].ctr = i

\* The connections that still have to take their count back from a counter,
\* were it the one in the map; the ones on their way to its decrement; and the
\* ones that have found it spent.
InUse(i) == {k \in Conn : conn[k].at = "open" \/ Spot(k, "undo", i) \/ Spot(k, "leave", i)}
Leaving(i) == {k \in Conn : Spot(k, "leave", i)}
Dropping(i) == {k \in Conn : Spot(k, "drop", i)}

\* Whether a connection is one of them, as a number.
Bit(b) == IF b THEN 1 ELSE 0
HoldsIn(x, i) == Bit(x.at = "open" \/ (x.at \in {"undo", "leave"} /\ x.ctr = i))
LeavesIn(x, i) == Bit(x.at = "leave" /\ x.ctr = i)
DropsIn(x, i) == Bit(x.at = "drop" /\ x.ctr = i)

ConnAt == {"new", "undo", "open", "leave", "drop"}
ConnState == [at : ConnAt, ctr : Counter \cup {0}]

ConnShape ==
  /\ entry \in Counter \cup {0} /\ ctr \in [Counter -> Int] /\ conn \in [Conn -> ConnState]
  /\ \A k \in Conn : conn[k].at \in {"new", "open"} <=> conn[k].ctr = 0
  /\ limiter \in [cap : Caps, on : BOOLEAN, enabling : BOOLEAN] /\ cut \in BOOLEAN

\* The counter in the map counts no connection that will not take it back.
UpperInv ==
  /\ \A i \in Counter : ctr[i] <= N
  /\ entry # 0 => ctr[entry] <= Cardinality(InUse(entry))

\* A counter falls below zero by no more than the handlers that will look.
LowerInv ==
  \A i \in Counter : IF i = entry THEN ctr[i] >= 0 - Cardinality(Dropping(i))
                     ELSE ctr[i] - Cardinality(Leaving(i)) >= 0 - N

\* Unless a Release removed another's entry, the count is exact.
ExactInv ==
  ~cut => IF entry = 0 THEN \A k \in Conn : conn[k].at # "open"
          ELSE ctr[entry] = Cardinality(InUse(entry))

ConnInv == ConnShape /\ UpperInv /\ LowerInv /\ ExactInv

-----------------------------------------------------------------------------
(* Counting.                                                               *)

\* Sets of connections are finite, and no larger than all of them.
LEMMA ConnCount ==
  ASSUME NEW S \in SUBSET Conn
  PROVE  IsFiniteSet(S) /\ Cardinality(S) \in Nat /\ N \in Nat /\ Cardinality(S) <= N
BY ConnAssumption, FS_Subset, FS_CardinalityType DEF N

\* Counters are numbers other than 0, which stands for none.
LEMMA CounterFacts == N \in Nat /\ 0 \notin Counter
BY ConnCount DEF Counter, N

\* Two disjoint sets of connections.
LEMMA ConnDisjoint ==
  ASSUME NEW S \in SUBSET Conn, NEW T \in SUBSET Conn, S \cap T = {}
  PROVE  Cardinality(S) + Cardinality(T) <= N
<1>1. IsFiniteSet(S) /\ IsFiniteSet(T) /\ Cardinality(S) \in Nat /\ Cardinality(T) \in Nat
  BY ConnCount
<1>2. Cardinality(S \cap T) = 0
  BY FS_EmptySet
<1>3. Cardinality(S \cup T) = Cardinality(S) + Cardinality(T) - Cardinality(S \cap T)
  BY <1>1, FS_Union
<1>4. Cardinality(S \cup T) <= N
  BY ConnCount
<1> QED
  BY <1>1, <1>2, <1>3, <1>4

\* Sets that differ in one connection at most.
LEMMA ConnDiffer ==
  ASSUME NEW S \in SUBSET Conn, NEW T \in SUBSET Conn, NEW k \in Conn,
         \A j \in Conn : j # k => (j \in S <=> j \in T)
  PROVE  Cardinality(T) = Cardinality(S) + Bit(k \in T) - Bit(k \in S)
<1>1. IsFiniteSet(S) /\ IsFiniteSet(T) /\ Cardinality(S) \in Nat
  BY ConnCount
<1>2. CASE k \in S <=> k \in T
  <2>1. S = T
    BY <1>2
  <2> QED
    BY <1>1, <2>1 DEF Bit
<1>3. CASE k \notin S /\ k \in T
  <2>1. T = S \cup {k}
    BY <1>3
  <2> QED
    BY <1>1, <1>3, <2>1, FS_AddElement DEF Bit
<1>4. CASE k \in S /\ k \notin T
  <2>1. T = S \ {k}
    BY <1>4
  <2> QED
    BY <1>1, <1>4, <2>1, FS_RemoveElement DEF Bit
<1> QED
  BY <1>2, <1>3, <1>4

\* Nothing is counted in an empty set.
LEMMA ConnNone ==
  ASSUME NEW S \in SUBSET Conn
  PROVE  Cardinality(S) <= 0 <=> S = {}
<1>1. IsFiniteSet(S) /\ Cardinality(S) \in Nat
  BY ConnCount
<1> QED
  BY <1>1, FS_EmptySet

\* There is a counter nobody refers to when the map has none.
LEMMA FreshCounter ==
  ASSUME ConnShape, entry = 0
  PROVE  Fresh \in Counter /\ Fresh \notin Reachable
<1>1. SUFFICES ASSUME \A i \in Counter : i \in Reachable
               PROVE  FALSE
  BY DEF Fresh
<1>2. N \in Nat /\ 0 \notin Counter
  BY ConnCount DEF Counter, N
<1>3. IsFiniteSet(Counter) /\ Cardinality(Counter) = N + 1
  <2>1. IsFiniteSet(1..(N + 1)) /\ Cardinality(1..(N + 1)) = N + 1
    BY <1>2, FS_Interval
  <2> QED
    BY <2>1 DEF Counter, N
<1> DEFINE f == [i \in Counter |-> CHOOSE k \in Conn : conn[k].ctr = i]
<1>4. \A i \in Counter : \E k \in Conn : conn[k].ctr = i
  BY <1>1, <1>2 DEF Reachable
<1>5. f \in [Counter -> Conn] /\ \A i \in Counter : conn[f[i]].ctr = i
  BY <1>4
<1> HIDE DEF f
<1>6. N < N + 1 /\ IsFiniteSet(Conn) /\ Cardinality(Conn) < Cardinality(Counter)
  BY <1>2, <1>3, ConnAssumption DEF N
<1>7. \E x, y \in Counter : x # y /\ f[x] = f[y]
  BY <1>3, <1>5, <1>6, FS_PigeonHole
<1> QED
  BY <1>5, <1>7

\* The counters and the map can bound every counter from below.
LEMMA LowerEverywhere ==
  ASSUME ConnShape, LowerInv
  PROVE  \A i \in Counter : ctr[i] - Cardinality(Leaving(i)) >= 0 - N
<1> SUFFICES ASSUME NEW i \in Counter
             PROVE  ctr[i] - Cardinality(Leaving(i)) >= 0 - N
  OBVIOUS
<1>1. Leaving(i) \in SUBSET Conn /\ Dropping(i) \in SUBSET Conn /\ Leaving(i) \cap Dropping(i) = {}
  BY DEF Leaving, Dropping, Spot
<1>2. Cardinality(Leaving(i)) + Cardinality(Dropping(i)) <= N
  BY <1>1, ConnDisjoint
<1>3. Cardinality(Leaving(i)) \in Nat /\ Cardinality(Dropping(i)) \in Nat /\ N \in Nat
  BY <1>1, ConnCount
<1>4. ctr[i] \in Int
  BY DEF ConnShape
<1> QED
  BY <1>2, <1>3, <1>4 DEF LowerInv

-----------------------------------------------------------------------------
(* ConnLimit: every step keeps the invariant.                              *)

\* One connection moves; the counts of who holds a counter follow it.
LEMMA GoesFacts ==
  ASSUME ConnShape, NEW k \in Conn, NEW at \in ConnAt, NEW i \in Counter \cup {0}, Goes(k, at, i),
         at \in {"new", "open"} <=> i = 0
  PROVE  /\ conn' \in [Conn -> ConnState] /\ conn'[k].at = at /\ conn'[k].ctr = i
         /\ \A j \in Conn : j # k => conn'[j] = conn[j]
         /\ \A j \in Conn : conn'[j].at \in {"new", "open"} <=> conn'[j].ctr = 0
<1>1. [at |-> at, ctr |-> i] \in ConnState
  BY DEF ConnState
<1>2. conn \in [Conn -> ConnState]
  BY DEF ConnShape
<1>3. conn' \in [Conn -> ConnState] /\ conn'[k] = [at |-> at, ctr |-> i] /\ \A j \in Conn : j # k => conn'[j] = conn[j]
  <2> HIDE DEF ConnState
  <2> QED
    BY <1>1, <1>2 DEF Goes
<1> QED
  BY <1>3 DEF ConnShape

\* How the sizes of the sets of a counter change with one connection.
LEMMA HoldersMove ==
  ASSUME NEW k \in Conn, NEW c, \A j \in Conn : j # k => conn'[j] = conn[j]
  PROVE  /\ Cardinality(InUse(c)) \in Nat /\ Cardinality(Leaving(c)) \in Nat /\ Cardinality(Dropping(c)) \in Nat
         /\ Cardinality(InUse(c)') \in Nat /\ N \in Nat /\ Cardinality(InUse(c)') <= N
         /\ Cardinality(Dropping(c)') \in Nat
         /\ Cardinality(InUse(c)') = Cardinality(InUse(c)) + HoldsIn(conn'[k], c) - HoldsIn(conn[k], c)
         /\ Cardinality(Leaving(c)') = Cardinality(Leaving(c)) + LeavesIn(conn'[k], c) - LeavesIn(conn[k], c)
         /\ Cardinality(Dropping(c)') = Cardinality(Dropping(c)) + DropsIn(conn'[k], c) - DropsIn(conn[k], c)
<1>1. /\ InUse(c) \in SUBSET Conn /\ InUse(c)' \in SUBSET Conn
      /\ Leaving(c) \in SUBSET Conn /\ Leaving(c)' \in SUBSET Conn
      /\ Dropping(c) \in SUBSET Conn /\ Dropping(c)' \in SUBSET Conn
  BY DEF InUse, Leaving, Dropping
<1>2. \A j \in Conn : j # k => /\ j \in InUse(c) <=> j \in InUse(c)'
                               /\ j \in Leaving(c) <=> j \in Leaving(c)'
                               /\ j \in Dropping(c) <=> j \in Dropping(c)'
  BY DEF InUse, Leaving, Dropping, Spot
<1>3. /\ Bit(k \in InUse(c)') = HoldsIn(conn'[k], c) /\ Bit(k \in InUse(c)) = HoldsIn(conn[k], c)
      /\ Bit(k \in Leaving(c)') = LeavesIn(conn'[k], c) /\ Bit(k \in Leaving(c)) = LeavesIn(conn[k], c)
      /\ Bit(k \in Dropping(c)') = DropsIn(conn'[k], c) /\ Bit(k \in Dropping(c)) = DropsIn(conn[k], c)
  BY DEF InUse, Leaving, Dropping, Spot, Bit, HoldsIn, LeavesIn, DropsIn
<1>4. /\ Cardinality(InUse(c)) \in Nat /\ Cardinality(Leaving(c)) \in Nat /\ Cardinality(Dropping(c)) \in Nat
      /\ Cardinality(InUse(c)') \in Nat /\ N \in Nat /\ Cardinality(InUse(c)') <= N
      /\ Cardinality(Dropping(c)') \in Nat
  BY <1>1, ConnCount
<1>5. Cardinality(InUse(c)') = Cardinality(InUse(c)) + Bit(k \in InUse(c)') - Bit(k \in InUse(c))
  BY <1>1, <1>2, ConnDiffer
<1>6. Cardinality(Leaving(c)') = Cardinality(Leaving(c)) + Bit(k \in Leaving(c)') - Bit(k \in Leaving(c))
  BY <1>1, <1>2, ConnDiffer
<1>7. Cardinality(Dropping(c)') = Cardinality(Dropping(c)) + Bit(k \in Dropping(c)') - Bit(k \in Dropping(c))
  BY <1>1, <1>2, ConnDiffer
<1> QED
  BY <1>3, <1>4, <1>5, <1>6, <1>7

\* Release finds the counter in the map, or nothing.
LEMMA ReleaseKeeps ==
  ASSUME ConnInv, NEW k \in Conn, Release(k)
  PROVE  ConnInv'
<1>1. PICK at \in {"new", "leave"}, i \in Counter \cup {0} :
        /\ Goes(k, at, i) /\ i = entry /\ (at = "new" <=> i = 0) /\ conn[k].at = "open"
        /\ ctr' = ctr /\ entry' = entry /\ limiter' = limiter /\ cut' = cut
  BY DEF Release, ConnInv, ConnShape
<1>2. /\ conn' \in [Conn -> ConnState] /\ conn'[k].at = at /\ conn'[k].ctr = i
      /\ \A j \in Conn : j # k => conn'[j] = conn[j]
      /\ \A j \in Conn : conn'[j].at \in {"new", "open"} <=> conn'[j].ctr = 0
  BY <1>1, GoesFacts DEF ConnInv, ConnAt
<1>3. \A c \in Counter :
        /\ Cardinality(InUse(c)) \in Nat /\ Cardinality(Leaving(c)) \in Nat /\ Cardinality(Dropping(c)) \in Nat
        /\ Cardinality(InUse(c)') \in Nat /\ N \in Nat /\ Cardinality(InUse(c)') <= N
        /\ Cardinality(Dropping(c)') \in Nat
        /\ Cardinality(InUse(c)') = Cardinality(InUse(c)) + HoldsIn(conn'[k], c) - HoldsIn(conn[k], c)
        /\ Cardinality(Leaving(c)') = Cardinality(Leaving(c)) + LeavesIn(conn'[k], c) - LeavesIn(conn[k], c)
        /\ Cardinality(Dropping(c)') = Cardinality(Dropping(c)) + DropsIn(conn'[k], c) - DropsIn(conn[k], c)
  BY <1>2, HoldersMove
<1>4. ConnShape'
  BY <1>1, <1>2 DEF ConnInv, ConnShape
<1>5. UpperInv'
  BY <1>1, <1>2, <1>3 DEF ConnInv, ConnShape, UpperInv, HoldsIn, Bit
<1>6. LowerInv'
  BY <1>1, <1>2, <1>3, LowerEverywhere DEF ConnInv, ConnShape, LowerInv, LeavesIn, DropsIn, Bit
<1>7. ExactInv'
  BY <1>1, <1>2, <1>3 DEF ConnInv, ConnShape, ExactInv, HoldsIn, Bit
<1> QED
  BY <1>4, <1>5, <1>6, <1>7 DEF ConnInv

\* Release takes its count back, from a counter that the map may have let go.
LEMMA DecrementKeeps ==
  ASSUME ConnInv, NEW k \in Conn, Decrement(k)
  PROVE  ConnInv'
<1>1. PICK at \in {"new", "drop"}, i \in Counter \cup {0} :
        /\ Goes(k, at, i) /\ (at = "new" <=> i = 0) /\ conn[k].at = "leave" /\ conn[k].ctr \in Counter
        /\ ctr' = [ctr EXCEPT ![conn[k].ctr] = @ - 1]
        /\ at = "drop" => i = conn[k].ctr /\ ctr[i] - 1 <= 0
        /\ at = "new" => ctr[conn[k].ctr] - 1 > 0
        /\ entry' = entry /\ limiter' = limiter /\ cut' = cut
  BY DEF Decrement, ConnInv, ConnShape, ConnState
<1>2. /\ conn' \in [Conn -> ConnState] /\ conn'[k].at = at /\ conn'[k].ctr = i
      /\ \A j \in Conn : j # k => conn'[j] = conn[j]
      /\ \A j \in Conn : conn'[j].at \in {"new", "open"} <=> conn'[j].ctr = 0
  BY <1>1, GoesFacts DEF ConnInv, ConnAt
<1>3. \A c \in Counter :
        /\ Cardinality(InUse(c)) \in Nat /\ Cardinality(Leaving(c)) \in Nat /\ Cardinality(Dropping(c)) \in Nat
        /\ Cardinality(InUse(c)') \in Nat /\ N \in Nat /\ Cardinality(InUse(c)') <= N
        /\ Cardinality(Dropping(c)') \in Nat
        /\ Cardinality(InUse(c)') = Cardinality(InUse(c)) + HoldsIn(conn'[k], c) - HoldsIn(conn[k], c)
        /\ Cardinality(Leaving(c)') = Cardinality(Leaving(c)) + LeavesIn(conn'[k], c) - LeavesIn(conn[k], c)
        /\ Cardinality(Dropping(c)') = Cardinality(Dropping(c)) + DropsIn(conn'[k], c) - DropsIn(conn[k], c)
  BY <1>2, HoldersMove
<1>4. ConnShape'
  BY <1>1, <1>2 DEF ConnInv, ConnShape
<1>5. UpperInv'
  BY <1>1, <1>2, <1>3 DEF ConnInv, ConnShape, UpperInv, HoldsIn, Bit
<1>6. LowerInv'
  BY <1>1, <1>2, <1>3, LowerEverywhere DEF ConnInv, ConnShape, LowerInv, LeavesIn, DropsIn, Bit
<1>7. ExactInv'
  BY <1>1, <1>2, <1>3 DEF ConnInv, ConnShape, ExactInv, HoldsIn, Bit
<1> QED
  BY <1>4, <1>5, <1>6, <1>7 DEF ConnInv

\* Release looks at its counter again and may remove the entry, also of another.
LEMMA DropKeeps ==
  ASSUME ConnInv, NEW k \in Conn, Drop(k)
  PROVE  ConnInv'
<1>1. PICK at \in {"new"}, i \in {0} :
        /\ Goes(k, at, i) /\ conn[k].at = "drop" /\ conn[k].ctr \in Counter
        /\ ctr' = ctr /\ limiter' = limiter /\ cut' \in BOOLEAN
        /\ entry' = IF ctr[conn[k].ctr] <= 0 THEN 0 ELSE entry
        /\ cut' <=> (cut \/ (ctr[conn[k].ctr] <= 0 /\ entry \notin {0, conn[k].ctr}))
  BY DEF Drop, ConnInv, ConnShape, ConnState
<1>2. /\ conn' \in [Conn -> ConnState] /\ conn'[k].at = at /\ conn'[k].ctr = i
      /\ \A j \in Conn : j # k => conn'[j] = conn[j]
      /\ \A j \in Conn : conn'[j].at \in {"new", "open"} <=> conn'[j].ctr = 0
  BY <1>1, GoesFacts DEF ConnInv, ConnAt
<1>3. \A c \in Counter :
        /\ Cardinality(InUse(c)) \in Nat /\ Cardinality(Leaving(c)) \in Nat /\ Cardinality(Dropping(c)) \in Nat
        /\ Cardinality(InUse(c)') \in Nat /\ N \in Nat /\ Cardinality(InUse(c)') <= N
        /\ Cardinality(Dropping(c)') \in Nat
        /\ Cardinality(InUse(c)') = Cardinality(InUse(c)) + HoldsIn(conn'[k], c) - HoldsIn(conn[k], c)
        /\ Cardinality(Leaving(c)') = Cardinality(Leaving(c)) + LeavesIn(conn'[k], c) - LeavesIn(conn[k], c)
        /\ Cardinality(Dropping(c)') = Cardinality(Dropping(c)) + DropsIn(conn'[k], c) - DropsIn(conn[k], c)
  BY <1>2, HoldersMove
<1>4. ConnShape'
  BY <1>1, <1>2 DEF ConnInv, ConnShape
<1>5. UpperInv'
  BY <1>1, <1>2, <1>3 DEF ConnInv, ConnShape, UpperInv, HoldsIn, Bit
<1>6. LowerInv'
  <2>1. \A c \in Counter : ctr[c] - Cardinality(Leaving(c)) >= 0 - N
    BY LowerEverywhere DEF ConnInv
  <2>2. \A c \in Counter : Cardinality(Leaving(c)') = Cardinality(Leaving(c))
    BY <1>1, <1>2, <1>3 DEF LeavesIn, Bit
  <2>3. CASE ctr[conn[k].ctr] <= 0
    BY <1>1, <2>1, <2>2, <2>3 DEF LowerInv, Counter
  <2>4. CASE ~(ctr[conn[k].ctr] <= 0)
    <3> SUFFICES ASSUME NEW c \in Counter
                 PROVE  (IF c = entry THEN ctr[c] >= 0 - Cardinality(Dropping(c)')
                         ELSE ctr[c] - Cardinality(Leaving(c)') >= 0 - N)
      BY <1>1, <2>4 DEF LowerInv
    <3>1. CASE c = conn[k].ctr
      BY <1>1, <1>3, <2>1, <2>2, <2>4, <3>1 DEF ConnInv, ConnShape
    <3>2. CASE c # conn[k].ctr
      BY <1>1, <1>2, <1>3, <2>2, <3>2 DEF ConnInv, LowerInv, DropsIn, Bit
    <3> QED
      BY <3>1, <3>2
  <2> QED
    BY <2>3, <2>4
<1>7. ExactInv'
  <2>1. \A c \in Counter : InUse(c) \in SUBSET Conn /\ \A j \in Conn : conn[j].at = "open" => j \in InUse(c)
    BY DEF InUse
  <2>2. CASE ctr[conn[k].ctr] <= 0
    <3>1. ~cut' => ~cut /\ entry \in {0, conn[k].ctr}
      BY <1>1, <2>2
    <3>2. ~cut' => \A j \in Conn : conn[j].at # "open"
      <4>1. CASE entry = 0
        BY <3>1, <4>1 DEF ConnInv, ExactInv
      <4>2. CASE entry # 0
        <5>1. ~cut' => entry = conn[k].ctr /\ ctr[entry] = Cardinality(InUse(entry))
          BY <3>1, <4>2 DEF ConnInv, ExactInv
        <5>2. ~cut' => InUse(entry) = {}
          BY <1>1, <2>1, <2>2, <5>1, ConnNone
        <5> QED
          BY <1>1, <2>1, <5>1, <5>2
      <4> QED
        BY <4>1, <4>2
    <3>3. entry' = 0
      BY <1>1, <2>2
    <3> QED
      BY <1>1, <1>2, <3>2, <3>3 DEF ExactInv
  <2>3. CASE ~(ctr[conn[k].ctr] <= 0)
    BY <1>1, <1>2, <1>3, <2>3 DEF ConnInv, ConnShape, ExactInv, HoldsIn, Bit
  <2> QED
    BY <2>2, <2>3
<1> QED
  BY <1>4, <1>5, <1>6, <1>7 DEF ConnInv

\* A refusal takes its count back if the map still has the counter.
LEMMA UndoKeeps ==
  ASSUME ConnInv, NEW k \in Conn, Undo(k)
  PROVE  ConnInv'
<1>1. PICK at \in {"new"}, i \in {0} :
        /\ Goes(k, at, i) /\ conn[k].at = "undo" /\ conn[k].ctr \in Counter /\ limiter' = limiter /\ cut' = cut
        /\ \/ entry # conn[k].ctr /\ ctr' = ctr /\ entry' = entry
           \/ /\ entry = conn[k].ctr /\ ctr' = [ctr EXCEPT ![entry] = @ - 1]
              /\ entry' = IF ctr[entry] - 1 <= 0 THEN 0 ELSE entry
  BY DEF Undo, ConnInv, ConnShape, ConnState
<1>2. /\ conn' \in [Conn -> ConnState] /\ conn'[k].at = at /\ conn'[k].ctr = i
      /\ \A j \in Conn : j # k => conn'[j] = conn[j]
      /\ \A j \in Conn : conn'[j].at \in {"new", "open"} <=> conn'[j].ctr = 0
  BY <1>1, GoesFacts DEF ConnInv, ConnAt
<1>3. \A c \in Counter :
        /\ Cardinality(InUse(c)) \in Nat /\ Cardinality(Leaving(c)) \in Nat /\ Cardinality(Dropping(c)) \in Nat
        /\ Cardinality(InUse(c)') \in Nat /\ N \in Nat /\ Cardinality(InUse(c)') <= N
        /\ Cardinality(Dropping(c)') \in Nat
        /\ Cardinality(InUse(c)') = Cardinality(InUse(c)) + HoldsIn(conn'[k], c) - HoldsIn(conn[k], c)
        /\ Cardinality(Leaving(c)') = Cardinality(Leaving(c)) + LeavesIn(conn'[k], c) - LeavesIn(conn[k], c)
        /\ Cardinality(Dropping(c)') = Cardinality(Dropping(c)) + DropsIn(conn'[k], c) - DropsIn(conn[k], c)
  BY <1>2, HoldersMove
<1>4. ConnShape'
  BY <1>1, <1>2 DEF ConnInv, ConnShape
<1>5. UpperInv'
  BY <1>1, <1>2, <1>3 DEF ConnInv, ConnShape, UpperInv, HoldsIn, Bit
<1>6. LowerInv'
  <2>1. \A c \in Counter : ctr[c] - Cardinality(Leaving(c)) >= 0 - N
    BY LowerEverywhere DEF ConnInv
  <2>2. \A c \in Counter : /\ Cardinality(Leaving(c)') = Cardinality(Leaving(c))
                           /\ Cardinality(Dropping(c)') = Cardinality(Dropping(c))
    BY <1>1, <1>2, <1>3 DEF LeavesIn, DropsIn, Bit
  <2>3. CASE entry # conn[k].ctr
    BY <1>1, <2>2, <2>3 DEF ConnInv, LowerInv
  <2>4. CASE entry = conn[k].ctr
    <3> DEFINE S == Leaving(entry)
               T == Dropping(entry)
    <3>1. /\ S \in SUBSET Conn /\ S \cup {k} \in SUBSET Conn /\ T \in SUBSET Conn
          /\ k \notin S /\ (S \cup {k}) \cap T = {}
      BY <1>1 DEF Leaving, Dropping, Spot
    <3>2. Cardinality(S \cup {k}) + Cardinality(T) <= N
      BY <3>1, ConnDisjoint
    <3>3. IsFiniteSet(S) /\ Cardinality(S) \in Nat /\ Cardinality(T) \in Nat /\ N \in Nat
      BY <3>1, ConnCount
    <3>4. Cardinality(S \cup {k}) = Cardinality(S) + 1
      BY <3>1, <3>3, FS_AddElement
    <3>5. ctr[entry] \in Int /\ ctr[entry] >= 0 - Cardinality(T)
      BY <1>1, <2>4 DEF ConnInv, ConnShape, LowerInv
    <3>6. ctr[entry] - 1 - Cardinality(S) >= 0 - N
      BY <3>2, <3>3, <3>4, <3>5
    <3>7. /\ ctr'[entry] = ctr[entry] - 1 /\ \A c \in Counter : c # entry => ctr'[c] = ctr[c]
          /\ entry' = (IF ctr[entry] - 1 <= 0 THEN 0 ELSE entry) /\ entry \in Counter /\ 0 \notin Counter
      BY <1>1, <2>4, CounterFacts DEF ConnInv, ConnShape
    <3>8. \A c \in Counter : c # entry => ctr[c] - Cardinality(Leaving(c)) >= 0 - N
      BY <2>1
    <3> SUFFICES ASSUME NEW c \in Counter
                 PROVE  (IF c = entry' THEN ctr'[c] >= 0 - Cardinality(Dropping(c))
                         ELSE ctr'[c] - Cardinality(Leaving(c)) >= 0 - N)
      BY <2>2 DEF LowerInv
    <3> QED
      BY <3>3, <3>5, <3>6, <3>7, <3>8
  <2> QED
    BY <2>3, <2>4
<1>7. ExactInv'
  <2>1. CASE entry # conn[k].ctr
    BY <1>1, <1>2, <1>3, <2>1 DEF ConnInv, ConnShape, ExactInv, HoldsIn, Bit
  <2>2. CASE entry = conn[k].ctr
    <3>1. PICK e \in Counter : e = entry
      BY <1>1, <2>2
    <3>2. /\ e # 0 /\ ctr[e] \in Int /\ ctr'[e] = ctr[e] - 1
          /\ entry' = IF ctr[e] - 1 <= 0 THEN 0 ELSE e
      BY <1>1, <2>2, <3>1, CounterFacts DEF ConnInv, ConnShape
    <3>3. ~cut => ctr[e] = Cardinality(InUse(e))
      BY <3>1, <3>2 DEF ConnInv, ExactInv
    <3>4. HoldsIn(conn'[k], e) = 0 /\ HoldsIn(conn[k], e) = 1
      BY <1>1, <1>2, <2>2, <3>1 DEF HoldsIn, Bit
    <3>5. ~cut => ctr[e] - 1 = Cardinality(InUse(e)')
      BY <1>3, <3>3, <3>4
    <3>6. CASE ctr[e] - 1 <= 0
      <4>1. InUse(e)' \in SUBSET Conn
        BY DEF InUse
      <4>2. ~cut => InUse(e)' = {}
        BY <3>5, <3>6, <4>1, ConnNone
      <4>3. ~cut => \A j \in Conn : conn'[j].at # "open"
        BY <4>2 DEF InUse
      <4> QED
        BY <1>1, <3>2, <3>6, <4>3 DEF ExactInv
    <3>7. CASE ~(ctr[e] - 1 <= 0)
      BY <1>1, <3>2, <3>5, <3>7 DEF ExactInv
    <3> QED
      BY <3>6, <3>7
  <2> QED
    BY <2>1, <2>2
<1> QED
  BY <1>4, <1>5, <1>6, <1>7 DEF ConnInv

\* Acquire counts in the entry of the map, or in a fresh counter.
LEMMA AcquireKeeps ==
  ASSUME ConnInv, NEW k \in Conn, Acquire(k)
  PROVE  ConnInv'
<1>1. PICK at \in {"undo", "open"}, i \in Counter \cup {0} :
        /\ Goes(k, at, i) /\ (at = "open" <=> i = 0) /\ conn[k].at = "new" /\ limiter' = limiter /\ cut' = cut
        /\ entry' \in Counter /\ i \in {0, entry'}
        /\ entry # 0 => entry' = entry /\ ctr' = [ctr EXCEPT ![entry'] = @ + 1]
        /\ entry = 0 => entry' \notin Reachable /\ ctr' = [ctr EXCEPT ![entry'] = 1]
  <2> DEFINE e == IF entry = 0 THEN Fresh ELSE entry
             n == (IF entry = 0 THEN 0 ELSE ctr[e]) + 1
  <2>1. e \in Counter /\ e # 0 /\ (entry # 0 => e = entry) /\ (entry = 0 => e \notin Reachable)
    BY FreshCounter DEF ConnInv, ConnShape, Counter
  <2>2. /\ conn[k].at = "new" /\ entry' = e /\ ctr' = [ctr EXCEPT ![e] = n] /\ limiter' = limiter /\ cut' = cut
        /\ Goes(k, "undo", e) \/ Goes(k, "open", 0)
    BY DEF Acquire
  <2>3. /\ entry # 0 => n = ctr[e] + 1
        /\ entry = 0 => n = 1
    OBVIOUS
  <2> HIDE DEF e, n
  <2> QED
    BY <2>1, <2>2, <2>3
<1>2. /\ conn' \in [Conn -> ConnState] /\ conn'[k].at = at /\ conn'[k].ctr = i
      /\ \A j \in Conn : j # k => conn'[j] = conn[j]
      /\ \A j \in Conn : conn'[j].at \in {"new", "open"} <=> conn'[j].ctr = 0
  BY <1>1, GoesFacts DEF ConnInv, ConnAt
<1>3. \A c \in Counter :
        /\ Cardinality(InUse(c)) \in Nat /\ Cardinality(Leaving(c)) \in Nat /\ Cardinality(Dropping(c)) \in Nat
        /\ Cardinality(InUse(c)') \in Nat /\ N \in Nat /\ Cardinality(InUse(c)') <= N
        /\ Cardinality(Dropping(c)') \in Nat
        /\ Cardinality(InUse(c)') = Cardinality(InUse(c)) + HoldsIn(conn'[k], c) - HoldsIn(conn[k], c)
        /\ Cardinality(Leaving(c)') = Cardinality(Leaving(c)) + LeavesIn(conn'[k], c) - LeavesIn(conn[k], c)
        /\ Cardinality(Dropping(c)') = Cardinality(Dropping(c)) + DropsIn(conn'[k], c) - DropsIn(conn[k], c)
  BY <1>2, HoldersMove
<1>4. ConnShape'
  BY <1>1, <1>2 DEF ConnInv, ConnShape
<1>5. UpperInv'
  BY <1>1, <1>2, <1>3 DEF ConnInv, ConnShape, UpperInv, HoldsIn, Bit
<1>6. LowerInv'
  BY <1>1, <1>2, <1>3, LowerEverywhere DEF ConnInv, ConnShape, LowerInv, LeavesIn, DropsIn, Bit
<1>7. ExactInv'
  <2>1. CASE entry # 0
    BY <1>1, <1>2, <1>3, <2>1 DEF ConnInv, ConnShape, ExactInv, HoldsIn, Bit
  <2>2. CASE entry = 0
    <3>1. ~cut => InUse(entry') = {}
      BY <1>1, <2>2 DEF ConnInv, ExactInv, InUse, Spot, Reachable
    <3>2. ~cut => Cardinality(InUse(entry')) = 0
      BY <3>1, FS_EmptySet
    <3>3. HoldsIn(conn'[k], entry') = 1 /\ HoldsIn(conn[k], entry') = 0
      BY <1>1, <1>2 DEF HoldsIn, Bit
    <3>4. Cardinality(InUse(entry)') = Cardinality(InUse(entry')) + HoldsIn(conn'[k], entry') - HoldsIn(conn[k], entry')
      BY <1>2, HoldersMove DEF InUse, Spot
    <3>5. ctr'[entry'] = 1 /\ entry' # 0
      BY <1>1, <2>2, CounterFacts DEF ConnInv, ConnShape
    <3> QED
      BY <1>1, <3>2, <3>3, <3>4, <3>5 DEF ExactInv
  <2> QED
    BY <2>1, <2>2
<1> QED
  BY <1>4, <1>5, <1>6, <1>7 DEF ConnInv

\* No connection, no count.
LEMMA ConnInitInv ==
  ASSUME ConnInit
  PROVE  ConnInv
<1>1. ConnShape
  <2>1. [at |-> "new", ctr |-> 0] \in ConnState
    BY DEF ConnState, ConnAt
  <2>2. conn \in [Conn -> ConnState] /\ \A k \in Conn : conn[k].at = "new" /\ conn[k].ctr = 0
    BY <2>1 DEF ConnInit
  <2>3. limiter \in [cap : Caps, on : BOOLEAN, enabling : BOOLEAN] /\ cut \in BOOLEAN
    BY DEF ConnInit
  <2>4. entry = 0 /\ ctr \in [Counter -> Int]
    BY DEF ConnInit
  <2> QED
    BY <2>2, <2>3, <2>4 DEF ConnShape
<1>2. N \in Nat /\ \A i \in Counter : Cardinality(Leaving(i)) \in Nat /\ Leaving(i) = {}
  BY ConnCount DEF ConnInit, Leaving, Spot
<1>3. \A i \in Counter : ctr[i] = 0 /\ Cardinality(Leaving(i)) = 0 /\ i # entry
  BY <1>2, CounterFacts, FS_EmptySet DEF ConnInit
<1>4. UpperInv /\ LowerInv
  BY <1>2, <1>3 DEF ConnInit, UpperInv, LowerInv
<1>5. ExactInv
  BY DEF ConnInit, ExactInv
<1> QED
  BY <1>1, <1>4, <1>5 DEF ConnInv

\* Every step keeps the invariant.
LEMMA ConnNextInv ==
  ASSUME ConnInv, [ConnNext]_connVars
  PROVE  ConnInv'
<1>1. CASE Enable \/ Disable \/ UNCHANGED connVars
  <2>1. ctr' = ctr /\ entry' = entry /\ conn' = conn /\ cut' = cut
    BY <1>1 DEF Enable, Disable, connVars
  <2>2. limiter' \in [cap : Caps, on : BOOLEAN, enabling : BOOLEAN]
    BY <1>1 DEF Enable, Disable, connVars, ConnInv, ConnShape
  <2> QED
    BY <2>1, <2>2 DEF ConnInv, ConnShape, UpperInv, LowerInv, ExactInv, InUse, Leaving, Dropping, Spot
<1> QED
  BY <1>1, AcquireKeeps, UndoKeeps, ReleaseKeeps, DecrementKeeps, DropKeeps DEF ConnNext

\* The invariant holds throughout.
LEMMA ConnInvariant == ConnSpec => []ConnInv
BY ConnInitInv, ConnNextInv, PTL DEF ConnSpec

\* The counter of a client never exceeds its live connections, for any number
\* of connections and limits: no order of releases, refusals and switches of
\* the limiter leaves a count behind.
THEOREM NoCountOutlives == ConnSpec => []CountsOnlyLive
<1>1. ConnInv => CountsOnlyLive
  <2> SUFFICES ASSUME ConnInv, entry # 0
               PROVE  ctr[entry] <= Cardinality(Live)
    BY DEF CountsOnlyLive
  <2>1. InUse(entry) \in SUBSET Live /\ Live \in SUBSET Conn /\ InUse(entry) \in SUBSET Conn
    BY DEF InUse, Live, Spot
  <2>2. IsFiniteSet(Live) /\ Cardinality(Live) \in Nat /\ Cardinality(InUse(entry)) \in Nat
    BY <2>1, ConnCount
  <2>3. Cardinality(InUse(entry)) <= Cardinality(Live)
    BY <2>1, <2>2, FS_Subset
  <2> QED
    BY <2>2, <2>3 DEF ConnInv, ConnShape, UpperInv
<1> QED
  BY <1>1, ConnInvariant, PTL

\* With no handler inside the limiter the counter is the number of open
\* connections, unless a Release has removed the entry of another counter.
THEOREM CountIsExact == ConnSpec => []CountedUnlessCut
<1>1. ConnInv => CountedUnlessCut
  <2> SUFFICES ASSUME ConnInv, ~cut, \A k \in Conn : conn[k].at \in {"new", "open"}
               PROVE  Cardinality(Live) = IF entry = 0 THEN 0 ELSE ctr[entry]
    BY DEF CountedUnlessCut
  <2>1. CASE entry = 0
    <3>1. Live = {}
      BY <2>1 DEF ConnInv, ExactInv, Live
    <3> QED
      BY <2>1, <3>1, FS_EmptySet
  <2>2. CASE entry # 0
    <3>1. Live = InUse(entry)
      BY DEF Live, InUse, Spot
    <3> QED
      BY <2>2, <3>1 DEF ConnInv, ExactInv
  <2> QED
    BY <2>1, <2>2
<1> QED
  BY <1>1, ConnInvariant, PTL

\* A counter stays between plus and minus the number of connections.
LEMMA ConnInvTypes == ConnInv => ConnTypeOK
<1> SUFFICES ASSUME ConnInv
             PROVE  ConnTypeOK
  OBVIOUS
<1>1. N \in Nat /\ \A i \in Counter : Cardinality(Leaving(i)) \in Nat
  BY ConnCount DEF Leaving
<1>2. \A i \in Counter : ctr[i] - Cardinality(Leaving(i)) >= 0 - N
  BY LowerEverywhere DEF ConnInv
<1>3. \A i \in Counter : ctr[i] \in Int /\ ctr[i] <= N
  BY DEF ConnInv, ConnShape, UpperInv
<1>4. \A i \in Counter : ctr[i] \in -N..N
  BY <1>1, <1>2, <1>3
<1> QED
  BY <1>4 DEF ConnInv, ConnShape, ConnTypeOK, ConnState, ConnAt, N

\* The variables of the limiter keep their types.
THEOREM ConnTypeCorrect == ConnSpec => []ConnTypeOK
BY ConnInvTypes, ConnInvariant, PTL
=============================================================================
