------------------------------ MODULE HALease ------------------------------
(***************************************************************************)
(* Control-Plane leadership under the etcd fencing lease (ADR-0005):       *)
(* ha.go, ha_lease.go, ha_lease_recovery.go, ha_failover.go and            *)
(* internal/halease/etcd.go.                                               *)
(*                                                                         *)
(* Each Culvert Control Plane is a process with an in-memory HAState and a *)
(* persisted ha_config.json.  Leadership is taken by an Acquire call on    *)
(* the lease backend, kept by a keepalive loop of Renew calls and given up *)
(* by selfFence.  Every call is several steps, because the backend starts  *)
(* the lease's time-to-live when it serves the call while the client       *)
(* starts its own validity window when the answer is handled.  A process   *)
(* has at most one Acquire and one Renew under way, the Renew on its       *)
(* keepalive goroutine, whose selfFence is three steps: what it does under *)
(* the lock, the re-arming of the promote guard and the resync.            *)
(*                                                                         *)
(* Time is a discrete clock (Tick); state keeps ages and remaining times,  *)
(* never absolute times.  Promotion is attempted at any moment, which is   *)
(* exactly PromoteManually; HAFailover adds the automatic path.            *)
(***************************************************************************)
EXTENDS Integers, FiniteSets

CONSTANTS
  Node,       \* the Control Planes of the HA pair
  NoNode,     \* no node: a free lease, an unrecorded address
  JoinNodes,  \* the nodes whose command line carries --ha-join
  TTL,        \* lease time-to-live in clock units (--ha-lease-ttl)
  Margin,     \* haLeaseWriteMargin
  MaxLag,     \* longest time from the backend starting a TTL to the client
              \* handling the answer; the code bounds it by haLeaseOpTimeout
  MaxRev      \* bound on the number of grants (etcd revisions)

ASSUME NodeAssumption == NoNode \notin Node /\ JoinNodes \subseteq Node
ASSUME TimeAssumption == /\ TTL \in Nat /\ Margin \in Nat /\ MaxLag \in Nat
                         /\ Margin < TTL \* armHALease rejects a TTL within the margin
ASSUME RevAssumption == MaxRev \in Nat

VARIABLES
  key,         \* the etcd key /culvert/ha/leader: holder, epoch, time left
  rev,         \* the last epoch (create_revision) etcd granted
  role,        \* HAState.role, or "down" for a process that is not running
  keepalive,   \* the nodes whose lease keepalive loop runs (leaseStopCh)
  recovering,  \* the nodes whose lease recovery loop runs (leaseRecoveryCh)
  promoted,    \* the nodes whose promote once-guard is taken
  pcSet,       \* the nodes with a promote context (pc.set)
  standbyAddr, \* the failback target each leader has recorded
  lease,       \* HAState.leaseEpoch and the age of leaseConfirmedAt
  call,        \* the Acquire call, or promotion, each process has under way
  renew,       \* the keepalive round each process has under way
  fencing,     \* what the selfFence of a keepalive goroutine still has to do
  overtaken,   \* history: the nodes where a promotion began while a selfFence
               \* had not ended
  disk,        \* ha_config.json of each node
  resumeSave   \* the config ResumeAsLeader still has to re-persist

etcd == <<key, rev>>
loops == <<keepalive, recovering>>
guards == <<promoted, pcSet>>
tail == <<fencing, overtaken>>
ha == <<role, keepalive, recovering, promoted, pcSet, standbyAddr, fencing, overtaken>>
store == <<disk, resumeSave>>
vars == <<key, rev, role, keepalive, recovering, promoted, pcSet, standbyAddr,
          lease, call, renew, fencing, overtaken, disk, resumeSave>>

-----------------------------------------------------------------------------
(* State space.                                                            *)

MaybeNode == Node \cup {NoNode}
Roles == {"down", "none", "leader", "standby"}
Acquires == {"enable", "promote", "resume", "recover"}
Ops == {"idle", "onPromote", "promoteSave"} \cup Acquires
\* Where a call is: not sent, on its way, past the step that starts the
\* lease's TTL (Grant), or answered.
Phases == {"client", "sent", "granted", "yes", "no"}

Config == [role : {"none", "leader", "standby"}, standby : MaybeNode]
NoConfig == [role |-> "none", standby |-> NoNode]

Call == [op : Ops, at : Phases, holder : MaybeNode, epoch : Nat, lag : Nat]
Request(o, a) == [op |-> o, at |-> a, holder |-> NoNode, epoch |-> 0, lag |-> 0]
\* The answer to an Acquire: the epoch granted, or who holds the key.
Grants(n, e) == [op |-> call[n].op, at |-> "yes", holder |-> n, epoch |-> e,
                 lag |-> call[n].lag]
Denies(n, h) == [op |-> call[n].op, at |-> "no", holder |-> h, epoch |-> 0, lag |-> 0]
Idle == Request("idle", "client")

\* A keepalive round: where its Renew call is (as above, KeepAlive being the
\* step that starts the TTL), the epoch it read at its start, and whether its
\* loop is the one HAState holds the stop channel of or has been stopped.
Round == [at : {"idle", "sent", "kept", "yes", "no"}, epoch : Nat, lag : Nat,
          loop : {"own", "stopped"}]
NoRound == [at |-> "idle", epoch |-> 0, lag |-> 0, loop |-> "stopped"]
Answered(g, a) == [at |-> a, epoch |-> g.epoch, lag |-> IF a = "yes" THEN g.lag ELSE 0,
                   loop |-> g.loop]
Stopped(g) == [at |-> g.at, epoch |-> g.epoch, lag |-> g.lag, loop |-> "stopped"]

FreeKey == [holder |-> NoNode, epoch |-> 0, left |-> 0]
Grant(e) == [epoch |-> e, age |-> 0]
NotHeld == Grant(0)

TypeOK ==
  /\ key \in [holder : MaybeNode, epoch : Nat, left : Nat]
  /\ rev \in Nat
  /\ role \in [Node -> Roles]
  /\ keepalive \subseteq Node /\ recovering \subseteq Node
  /\ promoted \subseteq Node /\ pcSet \subseteq Node
  /\ standbyAddr \in [Node -> MaybeNode]
  /\ lease \in [Node -> [epoch : Nat, age : Nat]]
  /\ call \in [Node -> Call]
  /\ renew \in [Node -> Round]
  /\ fencing \in [Node -> {"no", "rearm", "resync"}]
  /\ overtaken \subseteq Node
  /\ disk \in [Node -> Config]
  /\ resumeSave \in [Node -> Config]

-----------------------------------------------------------------------------
(* Write authority.                                                        *)

\* Fault: the window is used up to the TTL, without the margin.
WriteAllowedNoMargin(n) == lease[n].epoch # 0 /\ lease[n].age < TTL

\* WriteAllowed in lease mode: a grant is held and the confirmed validity
\* window, less the margin, still covers now.
WriteAllowed(n) == lease[n].epoch # 0 /\ lease[n].age < TTL - Margin

\* A leader whose write sinks are open (haIssuanceAllowed with HA enabled).
CanWrite(n) == role[n] = "leader" /\ WriteAllowed(n)

\* haIssuanceAllowed as the RPC handlers evaluate it: with HA not (yet)
\* enabled in the process the gate is open.
IssuanceAllowed(n) == role[n] = "none" \/ CanWrite(n)

-----------------------------------------------------------------------------
(* The lease backend (etcd), one action per request it serves.             *)

Acquiring(n) == call[n].op \in Acquires

\* Grant: a lease object is created and its TTL starts running.
EtcdGrant(n) ==
  /\ Acquiring(n) /\ call[n].at = "sent"
  /\ call' = [call EXCEPT ![n] = Request(call[n].op, "granted")]
  /\ UNCHANGED <<etcd, ha, lease, renew, store>>

\* Fault: an own key from an earlier grant is taken for the new one.
EtcdTxnAdoptsOwnKey(n) ==
  /\ Acquiring(n) /\ call[n].at = "granted" /\ call[n].lag < TTL
  /\ \/ /\ key.holder \in {n, NoNode} /\ rev < MaxRev
        /\ rev' = rev + 1
        /\ key' = [holder |-> n, epoch |-> rev + 1, left |-> TTL - call[n].lag]
        /\ call' = [call EXCEPT ![n] = Grants(n, rev + 1)]
     \/ /\ key.holder \notin {n, NoNode}
        /\ call' = [call EXCEPT ![n] = Denies(n, key.holder)]
        /\ UNCHANGED etcd
  /\ UNCHANGED <<ha, lease, renew, store>>

\* Fault: the key's version, which restarts with every create, is the epoch.
EtcdTxnVersionAsEpoch(n) ==
  /\ Acquiring(n) /\ call[n].at = "granted" /\ call[n].lag < TTL
  /\ key.holder = NoNode /\ rev < MaxRev
  /\ rev' = rev + 1
  /\ key' = [holder |-> n, epoch |-> 1, left |-> TTL - call[n].lag]
  /\ call' = [call EXCEPT ![n] = Grants(n, 1)]
  /\ UNCHANGED <<ha, lease, renew, store>>

\* Txn: put the key under the new lease iff the key does not exist, else
\* read its holder.  A lease that ran out before the Txn fails the call.
EtcdTxn(n) ==
  /\ Acquiring(n) /\ call[n].at = "granted" /\ call[n].lag < TTL
  /\ \/ /\ key.holder = NoNode /\ rev < MaxRev
        /\ rev' = rev + 1
        /\ key' = [holder |-> n, epoch |-> rev + 1, left |-> TTL - call[n].lag]
        /\ call' = [call EXCEPT ![n] = Grants(n, rev + 1)]
     \/ /\ key.holder # NoNode
        /\ call' = [call EXCEPT ![n] = Denies(n, key.holder)]
        /\ UNCHANGED etcd
  /\ UNCHANGED <<ha, lease, renew, store>>

HoldsKey(n) == key.holder = n /\ key.epoch = lease[n].epoch
RoundHoldsKey(n) == key.holder = n /\ key.epoch = renew[n].epoch

\* KeepAliveOnce: a live lease gets a fresh TTL; a vanished one is reported
\* as ErrLeaseNotFound, which Renew turns into a loss.
EtcdKeepAlive(n) ==
  /\ renew[n].at = "sent"
  /\ \/ /\ RoundHoldsKey(n) /\ key.left > 0
        /\ key' = [holder |-> n, epoch |-> key.epoch, left |-> TTL]
        /\ renew' = [renew EXCEPT ![n] = Answered(renew[n], "kept")]
     \/ /\ ~(RoundHoldsKey(n) /\ key.left > 0)
        /\ renew' = [renew EXCEPT ![n] = Answered(renew[n], "no")]
        /\ UNCHANGED key
  /\ UNCHANGED <<rev, ha, lease, call, store>>

\* Get: Renew re-verifies that the key still carries (holder, epoch).
EtcdVerify(n) ==
  /\ renew[n].at = "kept"
  /\ renew' = [renew EXCEPT ![n] =
                 Answered(renew[n], IF RoundHoldsKey(n) THEN "yes" ELSE "no")]
  /\ UNCHANGED <<etcd, ha, lease, call, store>>

\* etcd deletes the key once its lease ran out, at once or later.
EtcdExpire ==
  /\ key.holder # NoNode /\ key.left = 0
  /\ key' = FreeKey
  /\ UNCHANGED <<rev, ha, lease, call, renew, store>>

-----------------------------------------------------------------------------
(* Calls, as the client sees them.                                         *)

Send(n, o) == call' = [call EXCEPT ![n] = Request(o, "sent")]
Step(n, o) == call' = [call EXCEPT ![n] = Request(o, "client")]
Return(n)  == call' = [call EXCEPT ![n] = Idle]

\* The answer is in and in time.  acquireLeaseAttempt (like leaseRenewOnce)
\* stamps leaseConfirmedAt with the time the answer is HANDLED.
Granted(n, o) == call[n].op = o /\ call[n].at = "yes" /\ call[n].lag <= MaxLag
Denied(n, o) == call[n].op = o /\ call[n].at = "no"
DeniedBy(n, o, holders) == Denied(n, o) /\ call[n].holder \in holders

\* Fault: the best-effort revoke deletes the key, whoever holds it.
FailedDeletesKey(n, o) ==
  /\ call[n].op = o /\ call[n].at # "client"
  /\ \/ UNCHANGED key
     \/ o \in Acquires /\ key' = FreeKey

\* A transport error or the operation timeout: the client learns nothing,
\* whatever the backend did.  Acquire then revokes its grant, best effort.
Failed(n, o) ==
  /\ call[n].op = o /\ call[n].at # "client"
  /\ \/ UNCHANGED key
     \/ /\ o \in Acquires /\ call[n].at = "yes"
        /\ key.holder = n /\ key.epoch = call[n].epoch
        /\ key' = FreeKey

\* Fault: the margin is added to the window instead of taken off it.
InstallPostdated(n) ==
  lease' = [lease EXCEPT ![n] = [epoch |-> call[n].epoch, age |-> 0 - Margin]]

\* acquireLeaseAttempt records the grant.
Install(n) == lease' = [lease EXCEPT ![n] = Grant(call[n].epoch)]

SetRole(n, r) == role' = [role EXCEPT ![n] = r]
Save(n, r, m) == disk' = [disk EXCEPT ![n] = [role |-> r, standby |-> m]]

-----------------------------------------------------------------------------
(* Boot and crash.                                                         *)

\* StartAsStandby: the promote guard is cleared and the promote context set;
\* the persisted record carries neither the term nor a standby address.
StartAsStandby(n) ==
  /\ SetRole(n, "standby")
  /\ promoted' = promoted \ {n}
  /\ pcSet' = pcSet \cup {n}
  /\ Save(n, "standby", NoNode)

\* loadCluster: --ha-join always starts a standby; otherwise the persisted
\* role decides (haRestartAction).  A persisted leader starts its gRPC
\* server and then blocks in acquireLeaseForResume with role "".
Boot(n) ==
  /\ role[n] = "down"
  /\ \/ /\ n \in JoinNodes \/ disk[n].role = "standby"
        /\ StartAsStandby(n)
        /\ UNCHANGED call
     \/ /\ n \notin JoinNodes /\ disk[n].role = "leader"
        /\ SetRole(n, "none")
        /\ Send(n, "resume")
        /\ UNCHANGED <<guards, disk>>
     \/ /\ n \notin JoinNodes /\ disk[n].role = "none"
        /\ SetRole(n, "none")
        /\ UNCHANGED <<guards, disk, call>>
  /\ UNCHANGED <<etcd, loops, standbyAddr, lease, renew, tail, resumeSave>>

\* Process exit, by crash or by Stop and shutdown: Close never revokes the
\* lease, so both leave the key to its TTL.
Crash(n) ==
  /\ role[n] # "down"
  /\ SetRole(n, "down")
  /\ keepalive' = keepalive \ {n} /\ recovering' = recovering \ {n}
  /\ promoted' = promoted \ {n} /\ pcSet' = pcSet \ {n}
  /\ standbyAddr' = [standbyAddr EXCEPT ![n] = NoNode]
  /\ lease' = [lease EXCEPT ![n] = NotHeld]
  /\ Return(n)
  /\ renew' = [renew EXCEPT ![n] = NoRound]
  /\ fencing' = [fencing EXCEPT ![n] = "no"]
  /\ overtaken' = overtaken \ {n}
  /\ resumeSave' = [resumeSave EXCEPT ![n] = NoConfig]
  /\ UNCHANGED <<etcd, disk>>

-----------------------------------------------------------------------------
(* HA genesis: apiClusterHAEnable and EnableAsLeader.                      *)

EnableAsLeader(n) ==
  /\ role[n] = "none" /\ call[n].op = "idle"
  /\ Send(n, "enable")
  /\ UNCHANGED <<etcd, ha, lease, renew, store>>

EnableGranted(n) ==
  /\ Granted(n, "enable")
  /\ Install(n)
  /\ SetRole(n, "leader")
  /\ keepalive' = keepalive \cup {n}
  /\ Save(n, "leader", NoNode)
  /\ Return(n)
  /\ UNCHANGED <<etcd, recovering, guards, standbyAddr, renew, tail, resumeSave>>

EnableRefused(n) ==
  /\ \/ Denied(n, "enable") /\ UNCHANGED key
     \/ Failed(n, "enable")
  /\ Return(n)
  /\ UNCHANGED <<rev, ha, lease, renew, store>>

-----------------------------------------------------------------------------
(* Promotion: PromoteManually and promote.                                 *)

\* The promoted guard is a compare-and-swap shared by every trigger.
Promote(n) ==
  /\ role[n] = "standby" /\ n \in pcSet \ promoted /\ call[n].op = "idle"
  /\ promoted' = promoted \cup {n}
  /\ Send(n, "promote")
  /\ overtaken' = IF fencing[n] = "no" THEN overtaken ELSE overtaken \cup {n}
  /\ UNCHANGED <<etcd, role, loops, pcSet, standbyAddr, lease, renew, fencing, store>>

\* The fence is held; onPromote (gRPC server start) runs next, unrenewed.
PromoteGranted(n) ==
  /\ Granted(n, "promote")
  /\ Install(n)
  /\ Step(n, "onPromote")
  /\ UNCHANGED <<etcd, ha, renew, store>>

PromoteBlocked(n) ==
  /\ \/ Denied(n, "promote") /\ UNCHANGED key
     \/ Failed(n, "promote")
  /\ promoted' = promoted \ {n}
  /\ Return(n)
  /\ UNCHANGED <<rev, role, loops, pcSet, standbyAddr, lease, renew, tail, store>>

\* onPromote failed or panicked: still a standby, the grant left unkept.
PromoteFailed(n) ==
  /\ call[n].op = "onPromote"
  /\ promoted' = promoted \ {n}
  /\ Return(n)
  /\ UNCHANGED <<etcd, role, loops, pcSet, standbyAddr, lease, renew, tail, store>>

\* The role flips under the lock; the config is saved after the unlock.
PromoteCommit(n) ==
  /\ call[n].op = "onPromote"
  /\ SetRole(n, "leader")
  /\ Step(n, "promoteSave")
  /\ UNCHANGED <<etcd, loops, guards, standbyAddr, lease, renew, tail, store>>

\* saveHAConfig (without StandbyAddr), stopLoops, startLeaseKeepalive: the
\* loop starts only with a grant.  A keepalive round under way at this moment
\* goes on, its loop stopped.
PromoteSave(n) ==
  /\ call[n].op = "promoteSave"
  /\ Save(n, "leader", NoNode)
  /\ recovering' = recovering \ {n}
  /\ keepalive' = IF lease[n].epoch # 0 THEN keepalive \cup {n} ELSE keepalive \ {n}
  /\ renew' = [renew EXCEPT ![n] = Stopped(renew[n])]
  /\ Return(n)
  /\ UNCHANGED <<etcd, role, guards, standbyAddr, lease, tail, resumeSave>>

-----------------------------------------------------------------------------
(* Keepalive and self-fence.                                               *)

\* leaseRenewOnce, one round of leaseKeepaliveLoop.
RenewSend(n) ==
  /\ n \in keepalive /\ renew[n].at = "idle"
  /\ renew' = [renew EXCEPT ![n] = [at |-> "sent", epoch |-> lease[n].epoch,
                                    lag |-> 0, loop |-> "own"]]
  /\ UNCHANGED <<etcd, ha, lease, call, store>>

RoundOver(n) == renew' = [renew EXCEPT ![n] = NoRound]

\* The window starts anew, whichever grant it is the window of by now.
RenewConfirmed(n) ==
  /\ renew[n].at = "yes" /\ renew[n].lag <= MaxLag
  /\ lease' = [lease EXCEPT ![n] = Grant(lease[n].epoch)]
  /\ RoundOver(n)
  /\ UNCHANGED <<etcd, ha, call, store>>

\* selfFence under the lock: demote, drop the epoch, stop the keepalive loop
\* and persist the demotion.
Demote(n) ==
  /\ role[n] = "leader"
  /\ SetRole(n, "standby")
  /\ lease' = [lease EXCEPT ![n] = NotHeld]
  /\ keepalive' = keepalive \ {n}
  /\ Save(n, "standby", standbyAddr[n])
  /\ fencing' = [fencing EXCEPT ![n] = "rearm"]
  /\ UNCHANGED <<recovering, guards, standbyAddr, overtaken>>

\* selfFence returns early on a node that is no leader; the loop of the round
\* ends all the same.
FenceNothing(n) ==
  /\ role[n] # "leader"
  /\ keepalive' = IF renew[n].loop = "own" THEN keepalive \ {n} ELSE keepalive
  /\ UNCHANGED <<role, recovering, guards, standbyAddr, lease, tail, disk>>

SelfFence(n) == Demote(n) \/ FenceNothing(n)

RenewLost(n) ==
  /\ renew[n].at = "no"
  /\ SelfFence(n)
  /\ RoundOver(n)
  /\ UNCHANGED <<etcd, call, resumeSave>>

\* Fault: a panic ends the keepalive loop and nothing fences (CHAOS-24).
RenewUnknownEndsLoop(n) ==
  /\ renew[n].at # "idle"
  /\ keepalive' = keepalive \ {n}
  /\ RoundOver(n)
  /\ UNCHANGED <<etcd, role, recovering, guards, standbyAddr, lease, call, tail, store>>

\* The window is the one the round read at its start: that of an older grant
\* where a promotion has installed a new one since.
OlderGrant(n) == renew[n].epoch # lease[n].epoch

\* A transport error or a contained panic: fence only once the confirmed
\* window is over (leaseRenewOnce, fenceIfLeaseWindowElapsed).
RenewUnknown(n) ==
  /\ renew[n].at # "idle"
  /\ \/ (lease[n].age >= TTL - Margin \/ OlderGrant(n)) /\ SelfFence(n)
     \/ (lease[n].age < TTL - Margin \/ OlderGrant(n)) /\ UNCHANGED <<ha, lease, disk>>
  /\ RoundOver(n)
  /\ UNCHANGED <<etcd, call, resumeSave>>

\* selfFence after the unlock: the promote guard is re-armed.
Rearm(n) ==
  /\ fencing[n] = "rearm"
  /\ promoted' = promoted \ {n}
  /\ fencing' = [fencing EXCEPT ![n] = "resync"]
  /\ UNCHANGED <<etcd, role, loops, pcSet, standbyAddr, lease, call, renew,
                 overtaken, store>>

\* enterStandbyResync, selfFence's last step: a standby of the recorded
\* ex-standby if there is one, else passive.  A promotion may have come in
\* between; StartAsStandby does not look.
Resync(n) ==
  /\ fencing[n] = "resync"
  /\ fencing' = [fencing EXCEPT ![n] = "no"]
  /\ \/ standbyAddr[n] # NoNode /\ StartAsStandby(n)
     \/ standbyAddr[n] = NoNode /\ UNCHANGED <<role, guards, disk>>
  /\ UNCHANGED <<etcd, loops, standbyAddr, lease, call, renew, overtaken, resumeSave>>

-----------------------------------------------------------------------------
(* Leader resume after a restart: ResumeAsLeader, acquireLeaseForResume.   *)

\* acquireLeaseForResume's retry round, its two time budgets abstracted:
\* the own ghost lease and the unanswered question are both asked again.
ResumeRetry(n) ==
  /\ \/ DeniedBy(n, "resume", {n, NoNode}) /\ UNCHANGED key
     \/ Failed(n, "resume")
  /\ Send(n, "resume")
  /\ UNCHANGED <<rev, ha, lease, renew, store>>

\* The leader role with what was read at boot.  The trailing
\* saveHAConfig(cfg) of that same configuration is still to come.
AssumeLeader(n) ==
  /\ SetRole(n, "leader")
  /\ standbyAddr' = [standbyAddr EXCEPT ![n] = disk[n].standby]
  /\ resumeSave' = [resumeSave EXCEPT ![n] = disk[n]]
  /\ UNCHANGED <<guards, disk>>

\* Granted: leader again under a new epoch, keepalive on.
ResumeGranted(n) ==
  /\ Granted(n, "resume")
  /\ Install(n)
  /\ AssumeLeader(n)
  /\ keepalive' = keepalive \cup {n}
  /\ Return(n)
  /\ UNCHANGED <<etcd, recovering, renew, tail>>

\* A live foreign holder: stand by against the recorded ex-standby, or keep
\* a read-only leader role when none was recorded.
ResumeForeign(n) ==
  /\ DeniedBy(n, "resume", Node \ {n})
  /\ \/ /\ disk[n].standby # NoNode
        /\ standbyAddr' = [standbyAddr EXCEPT ![n] = disk[n].standby]
        /\ StartAsStandby(n)
        /\ UNCHANGED resumeSave
     \/ /\ disk[n].standby = NoNode
        /\ AssumeLeader(n)
  /\ Return(n)
  /\ UNCHANGED <<etcd, loops, lease, renew, tail>>

\* Budget spent with no answer: a read-only leader with recovery armed.
ResumeGiveUp(n) ==
  /\ \/ DeniedBy(n, "resume", {n, NoNode}) /\ UNCHANGED key
     \/ Failed(n, "resume")
  /\ AssumeLeader(n)
  /\ recovering' = recovering \cup {n}
  /\ Return(n)
  /\ UNCHANGED <<rev, keepalive, lease, renew, tail>>

\* The last statement of ResumeAsLeader re-persists what was read at boot,
\* concurrently with the loops and handlers started before it.
ResumeSave(n) ==
  /\ resumeSave[n] # NoConfig
  /\ disk' = [disk EXCEPT ![n] = resumeSave[n]]
  /\ resumeSave' = [resumeSave EXCEPT ![n] = NoConfig]
  /\ UNCHANGED <<etcd, ha, lease, call, renew>>

-----------------------------------------------------------------------------
(* Background lease recovery: leaseRecoveryLoop.                           *)

RecoverSend(n) ==
  /\ n \in recovering /\ role[n] = "leader" /\ lease[n].epoch = 0
  /\ call[n].op = "idle"
  /\ Send(n, "recover")
  /\ UNCHANGED <<etcd, ha, lease, renew, store>>

\* completeLeaseRecovery
RecoverGranted(n) ==
  /\ Granted(n, "recover")
  /\ Install(n)
  /\ recovering' = recovering \ {n}
  /\ keepalive' = keepalive \cup {n}
  /\ Save(n, "leader", standbyAddr[n])
  /\ Return(n)
  /\ UNCHANGED <<etcd, role, guards, standbyAddr, renew, tail, resumeSave>>

\* handleForeignFenceHolder: latched, the loop ends whatever happens next.
RecoverForeign(n) ==
  /\ DeniedBy(n, "recover", Node \ {n})
  /\ recovering' = recovering \ {n}
  /\ \/ standbyAddr[n] # NoNode /\ StartAsStandby(n)
     \/ standbyAddr[n] = NoNode /\ UNCHANGED <<role, guards, disk>>
  /\ Return(n)
  /\ UNCHANGED <<etcd, keepalive, standbyAddr, lease, renew, tail, resumeSave>>

\* An error, the own ghost or a vanished holder: back off and try again.
RecoverRetry(n) ==
  /\ \/ DeniedBy(n, "recover", {n, NoNode}) /\ UNCHANGED key
     \/ Failed(n, "recover")
  /\ Return(n)
  /\ UNCHANGED <<rev, ha, lease, renew, store>>

-----------------------------------------------------------------------------
(* The leader learns its standby's address from an HASync request, which   *)
(* only a standby with a running sync loop (a promote context) sends.      *)

RecordStandbyAddr(n, m) ==
  /\ n # m /\ role[n] = "leader" /\ role[m] = "standby" /\ m \in pcSet
  /\ standbyAddr[n] # m
  /\ standbyAddr' = [standbyAddr EXCEPT ![n] = m]
  /\ Save(n, "leader", m)
  /\ UNCHANGED <<etcd, role, loops, guards, lease, call, renew, tail, resumeSave>>

-----------------------------------------------------------------------------
(* One unit of time.  Counting stops where nothing tells the values apart  *)
(* any more: a window that is over, an answer that comes too late, a lease *)
(* that ran out before its Txn.                                            *)

Older(a, last) == IF a < last THEN a + 1 ELSE a
Aged(g) == IF g.epoch # 0
           THEN [epoch |-> g.epoch, age |-> Older(g.age, TTL)]
           ELSE g
Delayed(c) == IF c.at \in {"granted", "yes"}
              THEN [op |-> c.op, at |-> c.at, holder |-> c.holder, epoch |-> c.epoch,
                    lag |-> Older(c.lag, IF c.at = "yes" THEN MaxLag + 1 ELSE TTL)]
              ELSE c
Waiting(g) == IF g.at \in {"kept", "yes"}
              THEN [at |-> g.at, epoch |-> g.epoch,
                    lag |-> Older(g.lag, MaxLag + 1), loop |-> g.loop]
              ELSE g

Tick ==
  /\ key' = [holder |-> key.holder, epoch |-> key.epoch,
             left |-> IF key.left > 0 THEN key.left - 1 ELSE 0]
  /\ lease' = [n \in Node |-> Aged(lease[n])]
  /\ call' = [n \in Node |-> Delayed(call[n])]
  /\ renew' = [n \in Node |-> Waiting(renew[n])]
  /\ UNCHANGED <<rev, ha, store>>

-----------------------------------------------------------------------------

Init ==
  /\ key = FreeKey /\ rev = 0
  /\ role = [n \in Node |-> "down"]
  /\ keepalive = {} /\ recovering = {} /\ promoted = {} /\ pcSet = {}
  /\ standbyAddr = [n \in Node |-> NoNode]
  /\ lease = [n \in Node |-> NotHeld]
  /\ call = [n \in Node |-> Idle]
  /\ renew = [n \in Node |-> NoRound]
  /\ fencing = [n \in Node |-> "no"]
  /\ overtaken = {}
  /\ disk = [n \in Node |-> NoConfig]
  /\ resumeSave = [n \in Node |-> NoConfig]

Backend(n) == EtcdGrant(n) \/ EtcdTxn(n) \/ EtcdKeepAlive(n) \/ EtcdVerify(n)

Lifecycle(n) == Boot(n) \/ Crash(n)
                \/ EnableAsLeader(n) \/ EnableGranted(n) \/ EnableRefused(n)

Promotion(n) == PromoteGranted(n) \/ PromoteBlocked(n) \/ PromoteFailed(n)
                \/ PromoteCommit(n) \/ PromoteSave(n)

Keepalive(n) == RenewSend(n) \/ RenewConfirmed(n) \/ RenewLost(n) \/ RenewUnknown(n)
                \/ Rearm(n) \/ Resync(n)

Resume(n) == ResumeRetry(n) \/ ResumeGranted(n) \/ ResumeForeign(n)
             \/ ResumeGiveUp(n) \/ ResumeSave(n)

Recovery(n) == RecoverSend(n) \/ RecoverGranted(n) \/ RecoverForeign(n)
               \/ RecoverRetry(n)

Next ==
  \/ Tick \/ EtcdExpire
  \/ \E n \in Node : Backend(n) \/ Lifecycle(n) \/ Promote(n) \/ Promotion(n)
                     \/ Keepalive(n) \/ Resume(n) \/ Recovery(n)
  \/ \E n, m \in Node : RecordStandbyAddr(n, m)

Spec == Init /\ [][Next]_vars
-----------------------------------------------------------------------------
(* Properties.                                                             *)

\* Split brain is impossible: no two Control Planes hold write authority
\* (leader role plus a live WriteAllowed window) at the same moment, whatever
\* crashes, restarts, lost answers and delays within MaxLag happen.
AtMostOneWriter == \A n, m \in Node : CanWrite(n) /\ CanWrite(m) => n = m

\* The fence is what write authority rests on: a node that may write is the
\* live holder of the etcd key, and no newer epoch has been granted to anyone,
\* so the epoch it stamps on bundles and snapshots is the highest in existence.
WriterHoldsFence ==
  \A n \in Node : CanWrite(n) => HoldsKey(n) /\ key.left > 0 /\ lease[n].epoch = rev

\* A grant is never left unattended on a leader: a leader with a lease epoch
\* has its keepalive loop, or is about to start it as the last step of promote,
\* whatever fences, promotions and resyncs overlap.  Otherwise it would be the
\* CHAOS-24 catastrophe, write authority with nothing renewing it.  The other
\* way round, only a leader with a grant keeps one alive, except where a
\* promotion began before a selfFence of the same node had ended: the resync of
\* that fence demotes the new leader and leaves its keepalive loop running.
GrantAttended ==
  \A n \in Node :
    /\ role[n] = "leader" /\ lease[n].epoch # 0 =>
         n \in keepalive \/ call[n].op = "promoteSave"
    /\ n \in keepalive => /\ lease[n].epoch # 0 /\ n \notin recovering
                          /\ role[n] = "leader" \/ n \in overtaken

\* Fencing tokens only go up: an epoch a node installs is greater than every
\* epoch any node holds or held at that moment, so a sink that has seen it can
\* tell every older leader apart.
EpochsAdvance ==
  [][\A n \in Node : lease'[n].epoch \notin {0, lease[n].epoch} =>
       \A m \in Node : lease'[n].epoch > lease[m].epoch]_vars

\* The inductive form of the two write-authority invariants, in five parts.
\* The key is the latest grant, and no node holds an epoch not yet issued.
KeyIsLatest == key.holder # NoNode => key.epoch = rev
EpochIssued(n) == lease[n].epoch <= rev

\* A validity window never outlasts the key: the sum of the key's remaining
\* time and the window's age is what a Tick preserves.
WindowCovered(n) ==
  WriteAllowed(n) => HoldsKey(n) /\ key.left + lease[n].age >= TTL - Margin

\* An answer still in flight vouches for the key it was given for.
GrantVouched(n) ==
  Acquiring(n) /\ call[n].at = "yes" =>
    /\ call[n].epoch > lease[n].epoch
    /\ call[n].lag <= MaxLag =>
         /\ key.holder = n /\ key.epoch = call[n].epoch
         /\ key.left + call[n].lag = TTL
         /\ \A m \in Node : lease[m].epoch < call[n].epoch

\* So does a keepalive round, for the epoch it was started with, whichever
\* grant the node holds by now.
RenewVouched(n) ==
  renew[n].at # "idle" =>
    /\ renew[n].epoch <= lease[n].epoch
    /\ renew[n].at \in {"kept", "yes"} /\ renew[n].lag <= MaxLag =>
         RoundHoldsKey(n) /\ key.left + renew[n].lag = TTL

\* The fence invariant: what the backend granted, what the nodes hold and what
\* is on its way between them agree.  It is inductive and implies the two
\* write-authority invariants above.
FenceInv ==
  /\ KeyIsLatest
  /\ \A n \in Node : EpochIssued(n) /\ WindowCovered(n)
                     /\ GrantVouched(n) /\ RenewVouched(n)

\* Which call, which loops and which grant go with which role, in four parts:
\* the inductive form of GrantAttended.  What a node's calls may be.
CallsFit(n) ==
  /\ Acquiring(n) /\ call[n].at = "yes" => call[n].epoch # 0
  /\ role[n] \in {"down", "none"} => call[n].op \in {"idle", "enable", "resume"}
  /\ role[n] = "down" => call[n].op = "idle"
  /\ role[n] = "standby" => \/ call[n].op \in {"idle", "promote", "onPromote"}
                            \/ call[n].op = "promoteSave" /\ n \in overtaken
  /\ role[n] = "leader" => call[n].op \in {"idle", "recover", "promoteSave"}
  /\ call[n].op = "onPromote" => lease[n].epoch # 0
  /\ call[n].op = "promoteSave" => lease[n].epoch # 0 \/ n \in overtaken
  /\ call[n].op = "recover" => n \in recovering

\* What a node that is not in the pair, or not yet, has: nothing.
NothingYet(n) ==
  role[n] \in {"down", "none"} =>
    lease[n].epoch = 0 /\ renew[n].at = "idle" /\ fencing[n] = "no" /\ n \notin overtaken

\* When a selfFence may still have to end: on a standby with nothing under way,
\* unless a promotion overtook it.
TailFits(n) ==
  fencing[n] # "no" => n \in overtaken \/ (role[n] = "standby" /\ call[n].op = "idle")

LoopsFit(n) ==
  /\ renew[n].at # "idle" => n \in keepalive \/ n \in overtaken
  /\ n \in keepalive => /\ lease[n].epoch # 0
                        /\ role[n] = "leader" \/ (role[n] = "standby" /\ n \in overtaken)
                        /\ call[n].op = "idle" \/ n \in overtaken
  /\ n \in recovering => /\ role[n] = "leader" /\ lease[n].epoch = 0
                         /\ n \notin overtaken
  /\ role[n] = "leader" /\ lease[n].epoch # 0 =>
       n \in keepalive \/ call[n].op = "promoteSave"

LoopOK(n) == CallsFit(n) /\ NothingYet(n) /\ TailFits(n) /\ LoopsFit(n)

LoopInv == \A n \in Node : LoopOK(n)

\* The node-and-etcd machinery implements the abstract fencing lease: etcd's
\* key is the owner, the last granted revision the token, and a node wields
\* its lease epoch exactly while its write sinks are open.
Wield == [n \in Node |-> IF CanWrite(n) THEN lease[n].epoch ELSE 0]
Fence == INSTANCE FencedLease WITH owner <- key.holder, token <- rev, wield <- Wield
ImplementsFence == Fence!FSpec

-----------------------------------------------------------------------------
(* Statements of the repository that the code does not meet; each is the   *)
(* property of a run that expects a violation.                             *)

Member(n) == disk[n].role # "none"

\* The runbook: "leadership belongs to whoever holds the lease in etcd, and
\* only that node may promote or accept cluster writes".  Read on the gate the
\* write RPCs call (haIssuanceAllowed), of nodes that are in an HA pair.
AtMostOneIssuer ==
  \A n, m \in Node : Member(n) /\ Member(m) /\ IssuanceAllowed(n)
                     /\ IssuanceAllowed(m) => n = m

\* selfFence and StartAsStandby persist a demotion, so that a restart honours
\* it: a running standby is recorded as a standby in ha_config.json.
DemotionPersisted ==
  \A n \in Node : role[n] = "standby" => disk[n].role = "standby"

=============================================================================
