------------------------------ MODULE HALoops -------------------------------
(***************************************************************************)
(* The goroutines of one Control Plane in lease mode, at the grain of      *)
(* HAState's critical sections: the standby sync loop, the lease keepalive *)
(* and the lease recovery loop, with the channels that stop them, promote  *)
(* as run by the sync loop or by an operator's request, the self-fence,    *)
(* and Stop, which joins the loops.  HALease and HAFailover take these     *)
(* sequences as single steps.                                              *)
(*                                                                         *)
(* Abstractions.  The lease is the state of the etcd key; whether a round  *)
(* of a loop fails, and whether the gates of an automatic promotion are    *)
(* open, may change at any time.  The stop channel of a loop is named      *)
(* after its goroutine.                                                    *)
(***************************************************************************)
EXTENDS Integers, FiniteSets

CONSTANTS
  Slot,      \* bound on the goroutines of loops at a time
  Request    \* concurrent requests to promote this node

ASSUME LoopsAssumption ==
  /\ IsFiniteSet(Slot) /\ Slot \subseteq Nat \ {0} /\ 1 \in Slot
  /\ Request \cap Slot = {} /\ 0 \notin Request

VARIABLES
  thr,        \* per thread: what it is, where it is, and whether its stop
              \* channel is closed
  ch,         \* stopCh, leaseStopCh and leaseRecoveryCh; 0 is nil
  role, epoch, promoted,    \* HAState: role, leaseEpoch # 0, promoted
  known,      \* standbyAddr is recorded
  armed,      \* the promote context is set
  key,        \* the lease in etcd: "self", "peer" or "free"
  stop,       \* Stop's progress
  overtaken   \* history: a promotion began between a self-fence and its resync

loopVars == <<thr, ch, role, epoch, promoted, known, armed, key, stop, overtaken>>
haVars == <<role, epoch, promoted, known, armed, key, overtaken>>

Thread == Slot \cup Request
Kinds == {"sync", "keep", "rec"}
PromoteSteps == {"acquire", "hook", "lead", "halt", "attend"}
FenceSteps == {"fence", "rearm", "resync"}

LoopsTypeOK ==
  /\ thr \in [Thread -> [kind : Kinds \cup {"request"}, closed : BOOLEAN,
                         at : {"none", "run"} \cup PromoteSteps \cup FenceSteps]]
  /\ \A t \in Request : thr[t].kind = "request" /\ thr[t].at \in {"none"} \cup PromoteSteps
  /\ ch \in [Kinds -> Slot \cup {0}]
  /\ \A k \in Kinds : ch[k] # 0 => thr[ch[k]].kind = k
  /\ role \in {"leader", "standby"} /\ key \in {"self", "peer", "free"}
  /\ {epoch, promoted, known, armed, overtaken} \subseteq BOOLEAN
  /\ stop \in {"no", "latched", "join", "done"}

Unborn == [kind |-> "sync", at |-> "none", closed |-> FALSE]
Loop(kind) == [kind |-> kind, at |-> "run", closed |-> FALSE]

\* After boot: a standby with its sync loop, a leader with its keepalive, or a
\* leader that could not reach the lease and tries to recover it.
LoopsInit ==
  \E kind \in Kinds :
    /\ thr = [t \in Thread |-> IF t \in Request THEN [Unborn EXCEPT !.kind = "request"]
                               ELSE IF t = 1 THEN Loop(kind) ELSE Unborn]
    /\ ch = [k \in Kinds |-> IF k = kind THEN 1 ELSE 0]
    /\ role = IF kind = "sync" THEN "standby" ELSE "leader"
    /\ epoch = (kind = "keep") /\ key = IF kind = "keep" THEN "self" ELSE "free"
    /\ armed = (kind = "sync")
    /\ promoted = FALSE /\ known = FALSE /\ stop = "no" /\ overtaken = FALSE

-----------------------------------------------------------------------------
Is(t, kind, at) == thr[t].kind = kind /\ thr[t].at = at
To(t, at) == thr' = [thr EXCEPT ![t].at = at]
Running == {t \in Slot : thr[t].at # "none"}
Stopping == stop \in {"latched", "join"}

\* A round is over: a request is answered, a sync loop goes on.
Back(t) == To(t, IF t \in Request THEN "none" ELSE "run")

\* The goroutine of a new loop; its slot is neither running nor referred to.
FreeSlots == Slot \ (Running \cup {ch[k] : k \in Kinds})
NewSlot == CHOOSE s \in FreeSlots : TRUE

\* The channels when thread t is at a step: a recovery loop that returns drops
\* its own handle.
Handles(t, at) ==
  IF at = "none" /\ thr[t].kind = "rec" /\ ch["rec"] = t THEN [ch EXCEPT !["rec"] = 0] ELSE ch

\* Thread t starts a loop of this kind and goes on at a step.
Spawn(t, kind, at) ==
  /\ FreeSlots # {}
  /\ thr' = [thr EXCEPT ![t].at = at, ![NewSlot] = Loop(kind)]
  /\ ch' = [Handles(t, at) EXCEPT ![kind] = NewSlot]

\* Thread t closes the channels of these kinds that are not nil and goes on.
Close(kinds, t, at) ==
  /\ thr' = [u \in Thread |->
               [thr[u] EXCEPT !.closed = @ \/ \E k \in kinds : ch[k] = u,
                              !.at = IF u = t THEN at ELSE @]]
  /\ ch' = [k \in Kinds |-> IF k \in kinds THEN 0 ELSE ch[k]]

\* A loop returns.
Return(t) == To(t, "none") /\ ch' = Handles(t, "none")

\* A loop sees its stop channel closed.
Exit(t) ==
  /\ t \in Slot /\ thr[t].at = "run" /\ thr[t].closed
  /\ Return(t)
  /\ UNCHANGED <<haVars, stop>>

-----------------------------------------------------------------------------
(* promote.                                                                *)

\* The once-guard is taken by PromoteManually or by a tick of the sync loop.
\* A sync loop that finds it taken goes on, or ends if the node leads by now; it
\* tests its stop channel (as the context of the round) just before.
\* (Bound: behaviours are not followed into a promotion after an overtaken one.)
Promote(t) ==
  /\ ~overtaken
  /\ \/ t \in Request /\ thr[t].at = "none" /\ role = "standby" /\ armed
     \/ Is(t, "sync", "run") /\ ~thr[t].closed
  /\ \/ /\ ~promoted /\ promoted' = TRUE /\ To(t, "acquire")
        /\ overtaken' = (overtaken \/ \E u \in Slot : thr[u].at = "resync")
     \/ /\ promoted /\ t \in Slot /\ role = "leader" /\ To(t, "none")
        /\ UNCHANGED <<promoted, overtaken>>
  /\ UNCHANGED <<ch, role, epoch, known, armed, key, stop>>

\* acquireLeaseForLeadership: granted if the key is free, denied or failed.
TakeLease(t) ==
  /\ thr[t].at = "acquire"
  /\ \/ /\ key = "free" /\ key' = "self" /\ epoch' = TRUE
        /\ To(t, "hook") /\ UNCHANGED promoted
     \/ promoted' = FALSE /\ Back(t) /\ UNCHANGED <<key, epoch>>
  /\ UNCHANGED <<ch, role, known, armed, stop, overtaken>>

\* onPromote succeeds or fails.
Hook(t) ==
  /\ thr[t].at = "hook"
  /\ \/ To(t, "lead") /\ UNCHANGED promoted
     \/ promoted' = FALSE /\ Back(t)
  /\ UNCHANGED <<ch, role, epoch, known, armed, key, stop, overtaken>>

\* The role changes under the lock.
Lead(t) ==
  /\ thr[t].at = "lead" /\ To(t, "halt")
  /\ role' = "leader"
  /\ UNCHANGED <<ch, epoch, promoted, known, armed, key, stop, overtaken>>

\* stopLoops: signal, do not wait.
Halt(t) ==
  /\ thr[t].at = "halt" /\ Close(Kinds, t, "attend")
  /\ UNCHANGED <<haVars, stop>>

\* Mutant: the latch is not consulted.
AttendUnlatched(t) ==
  /\ thr[t].at = "attend"
  /\ LET at == IF thr[t].kind = "sync" /\ role # "leader" THEN "run" ELSE "none"
     IN IF epoch /\ ch["keep"] = 0 THEN Spawn(t, "keep", at)
        ELSE To(t, at) /\ ch' = Handles(t, at)
  /\ UNCHANGED <<haVars, stop>>

\* startLeaseKeepalive, after a promotion or a recovery: refused while Stop
\* joins.  The caller ends; a sync loop that does not lead after all goes on.
Attend(t) ==
  /\ thr[t].at = "attend"
  /\ LET at == IF thr[t].kind = "sync" /\ role # "leader" THEN "run" ELSE "none"
     IN IF epoch /\ ch["keep"] = 0 /\ ~Stopping THEN Spawn(t, "keep", at)
        ELSE To(t, at) /\ ch' = Handles(t, at)
  /\ UNCHANGED <<haVars, stop>>

-----------------------------------------------------------------------------
(* The keepalive and recovery loops.                                       *)

\* leaseRenewOnce: the lease is lost, or unconfirmed for too long.  (A round
\* that confirms it, or finds no grant, changes nothing.)
Renew(t) ==
  /\ Is(t, "keep", "run") /\ epoch /\ To(t, "fence")
  /\ UNCHANGED <<ch, haVars, stop>>

\* Mutant: the channel is dropped, not closed.
FenceDropsChannel(t) ==
  /\ thr[t].at = "fence"
  /\ \/ role # "leader" /\ Return(t) /\ UNCHANGED <<role, epoch>>
     \/ /\ role = "leader" /\ role' = "standby" /\ epoch' = FALSE
        /\ To(t, "rearm") /\ UNCHANGED ch
  /\ UNCHANGED <<promoted, known, armed, key, stop, overtaken>>

\* selfFence under the lock: a node that does not lead has nothing to fence.
Fence(t) ==
  /\ thr[t].at = "fence"
  /\ \/ role # "leader" /\ Return(t) /\ UNCHANGED <<role, epoch>>
     \/ /\ role = "leader" /\ role' = "standby" /\ epoch' = FALSE
        /\ Close({"keep"}, t, "rearm")
  /\ UNCHANGED <<promoted, known, armed, key, stop, overtaken>>

\* Mutant: the once-guard stays taken.
RearmForgotten(t) ==
  /\ thr[t].at = "rearm" /\ To(t, "resync")
  /\ UNCHANGED <<ch, haVars, stop>>

\* After the lock: the once-guard is released.
Rearm(t) ==
  /\ thr[t].at = "rearm" /\ To(t, "resync") /\ promoted' = FALSE
  /\ UNCHANGED <<ch, role, epoch, known, armed, key, stop, overtaken>>

\* Mutant: the sync loop's channel is stored as the keepalive's.
ResyncWrongChannel(t) ==
  /\ thr[t].at = "resync"
  /\ IF known /\ ~Stopping
     THEN /\ role' = "standby" /\ promoted' = FALSE /\ armed' = TRUE
          /\ FreeSlots # {}
          /\ thr' = [thr EXCEPT ![t].at = "none", ![NewSlot] = Loop("sync")]
          /\ ch' = [ch EXCEPT !["keep"] = NewSlot]
     ELSE Return(t) /\ UNCHANGED <<role, promoted, armed>>
  /\ UNCHANGED <<epoch, known, key, stop, overtaken>>

\* enterStandbyResync and StartAsStandby, on the goroutine of the loop that is
\* about to return: refused while Stop joins, or with nobody to follow.
Resync(t) ==
  /\ thr[t].at = "resync"
  /\ IF known /\ ~Stopping
     THEN /\ role' = "standby" /\ promoted' = FALSE /\ armed' = TRUE
          /\ Spawn(t, "sync", "none")
     ELSE Return(t) /\ UNCHANGED <<role, promoted, armed>>
  /\ UNCHANGED <<epoch, known, key, stop, overtaken>>

\* leaseRecoveryAttempt: nothing to recover, a grant, or a foreign holder.  (A
\* failing backend and the node's own former key are tried again.)
RecoverLease(t) ==
  /\ Is(t, "rec", "run")
  /\ \/ (role # "leader" \/ epoch) /\ Return(t) /\ UNCHANGED <<key, epoch>>
     \/ /\ role = "leader" /\ ~epoch /\ key = "free"
        /\ key' = "self" /\ epoch' = TRUE /\ To(t, "attend") /\ UNCHANGED ch
     \/ /\ role = "leader" /\ ~epoch /\ key = "peer"
        /\ To(t, "resync") /\ UNCHANGED <<ch, key, epoch>>
  /\ UNCHANGED <<role, promoted, known, armed, stop, overtaken>>

-----------------------------------------------------------------------------
(* Stop, and the surroundings.                                             *)

\* The latch, the signal, and the join.
Stop ==
  /\ \/ stop = "no" /\ stop' = "latched" /\ UNCHANGED <<thr, ch>>
     \/ stop = "latched" /\ stop' = "join" /\ Close(Kinds, 0, "none")
     \/ stop = "join" /\ Running = {} /\ stop' = "done" /\ UNCHANGED <<thr, ch>>
  /\ UNCHANGED haVars

\* A standby announces itself to the leader.
RecordStandbyAddr ==
  /\ role = "leader" /\ ~known /\ known' = TRUE
  /\ UNCHANGED <<thr, ch, role, epoch, promoted, armed, key, stop, overtaken>>

\* The key expires, is taken by the peer, or given up by it.
KeyMoves ==
  /\ \/ key \in {"self", "peer"} /\ key' = "free"
     \/ key = "free" /\ key' = "peer"
  /\ UNCHANGED <<thr, ch, role, epoch, promoted, known, armed, stop, overtaken>>

-----------------------------------------------------------------------------
ThreadStep(t) ==
  \/ Exit(t) \/ TakeLease(t) \/ Hook(t) \/ Lead(t) \/ Halt(t) \/ Attend(t)
  \/ Fence(t) \/ Rearm(t) \/ Resync(t) \/ RecoverLease(t)

LoopsNext ==
  \/ \E t \in Thread : ThreadStep(t) \/ Promote(t) \/ Renew(t)
  \/ Stop \/ RecordStandbyAddr \/ KeyMoves

\* Goroutines are scheduled and calls return (each has a time limit).
LoopsFairness ==
  /\ \A t \in Thread : WF_loopVars(ThreadStep(t))
  /\ WF_loopVars(stop # "no" /\ Stop)

LoopsSpec == LoopsInit /\ [][LoopsNext]_loopVars /\ LoopsFairness

-----------------------------------------------------------------------------
(* Properties.                                                             *)

\* A node that is not the leader does not renew the lease, which would keep
\* its peer from leading as well: whatever promotions, fences, recoveries and
\* Stop interleave, except that an operator's promotion overtakes the fence
\* that made it possible (README, section 3.3).
OnlyLeaderRenews == (ch["keep"] # 0 /\ ~overtaken) => role = "leader"

\* A standby on which no promotion runs can be promoted: the once-guard is free
\* or about to be, after every failed attempt, fence and resync.
PromoteGuardFree ==
  (role = "standby" /\ promoted)
    => \E t \in Thread : thr[t].at \in PromoteSteps \cup {"rearm"}

\* Stop returns: the loops it joins end, whatever they were doing when the
\* latch was set, including the ones that start others.
StopReturns == (stop = "join") ~> (stop = "done" \/ overtaken)

=============================================================================
