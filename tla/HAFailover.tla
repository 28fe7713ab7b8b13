----------------------------- MODULE HAFailover -----------------------------
(***************************************************************************)
(* Standby replication and automatic failover of a Control-Plane pair in   *)
(* lease mode: the standby sync loop of ha.go (HASync pull, puller-side    *)
(* epoch fence, import), the failover policy of ha_failover.go (failure    *)
(* streak, freshness, hysteresis, fence-gated promotion), failback, and    *)
(* the resume and recovery decisions that compete with them.               *)
(*                                                                         *)
(* The lease is used through what HALease proves of it (FencedLease): one  *)
(* owner, a token per grant.  An Acquire is therefore one step here, and   *)
(* elapsed times are reduced to what the policy asks of them: whether the  *)
(* last sync is fresh, whether the cooldown runs, whether a key has run    *)
(* out.                                                                    *)
(***************************************************************************)
EXTENDS Naturals, FiniteSets

CONSTANTS
  Node,       \* the Control Planes of the pair
  NoNode,     \* no node
  First,      \* the node HA was enabled on
  JoinNodes,  \* nodes whose command line carries --ha-join
  Flaky,      \* nodes that may lose the lease backend
  MaxFail,    \* haStandbyMaxFail
  MaxToken,   \* bound on lease grants
  MaxWrites,  \* bound on cluster-state writes
  Faults      \* which other faults the environment may show: "hook" (onPromote
              \* fails), "age" (a standby goes unsynced for longer than the
              \* freshness window)

ASSUME FailoverAssumption ==
  /\ NoNode \notin Node /\ First \in Node /\ JoinNodes \subseteq Node
  /\ Flaky \subseteq Node
  /\ MaxFail \in Nat /\ MaxFail > 1 \* the first round of a loop never promotes
  /\ MaxToken \in Nat \ {0} /\ MaxWrites \in Nat
  /\ Faults \subseteq {"hook", "age"}

VARIABLES
  owner, token,  \* the fencing lease
  reach,         \* the nodes that reach the lease backend
  linked,        \* whether the two nodes reach each other
  role,          \* "down", "none" (resuming, role ""), "leader", "standby"
  epoch,         \* HAState.leaseEpoch
  serving,       \* the nodes whose Control-Plane gRPC server runs
  recovering,    \* the nodes whose lease recovery loop runs
  syncing,       \* the nodes whose standby sync loop runs
  hook,          \* the promote context's onPromote: "none", "enable" (start the
                 \* Control Plane) or "noop"
  peer,          \* HAState.peerAddr, the node a sync loop pulls from
  standbyAddr,   \* the recorded failback target
  synced,        \* lastSyncOK: "never", "fresh" or "stale"
  cooling,       \* the nodes within haRepromoteCooldown of a demotion
  fails,         \* the failure streak of each sync loop
  round,         \* the sync round under way: stage, bundle epoch and state
  late,          \* a verified round that outlived its stopped sync loop
  imported,      \* the epoch of the last bundle imported (no code state)
  state,         \* the cluster state of each node, as the set of its writes
  writes,        \* number of cluster-state writes made
  disk           \* ha_config.json

leaseVars == <<owner, token, epoch>>
links == <<reach, linked>>
loopVars == <<serving, recovering, syncing, hook>>
addrs == <<peer, standbyAddr>>
policy == <<synced, cooling, fails>>
rounds == <<round, late>>
data == <<state, imported, writes>>
vars == <<owner, token, reach, linked, role, epoch, serving, recovering,
          syncing, hook, peer, standbyAddr, synced, cooling, fails, round,
          late, imported, state, writes, disk>>

MaybeNode == Node \cup {NoNode}
Config == [role : {"leader", "standby"}, peer : Node, standby : MaybeNode]
Round == [at : {"idle", "pulled", "verified"}, epoch : 0..MaxToken,
          state : SUBSET (1..MaxWrites)]
NoRound == [at |-> "idle", epoch |-> 0, state |-> {}]

TypeOK ==
  /\ owner \in MaybeNode /\ token \in 0..MaxToken
  /\ reach \subseteq Node /\ linked \in BOOLEAN
  /\ role \in [Node -> {"down", "none", "leader", "standby"}]
  /\ epoch \in [Node -> 0..MaxToken]
  /\ serving \subseteq Node /\ recovering \subseteq Node
  /\ syncing \subseteq Node /\ hook \in [Node -> {"none", "enable", "noop"}]
  /\ peer \in [Node -> MaybeNode] /\ standbyAddr \in [Node -> MaybeNode]
  /\ synced \in [Node -> {"never", "fresh", "stale"}]
  /\ cooling \subseteq Node
  /\ fails \in [Node -> 0..MaxFail]
  /\ round \in [Node -> Round] /\ late \in [Node -> Round]
  /\ imported \in [Node -> 0..MaxToken]
  /\ state \in [Node -> SUBSET (1..MaxWrites)] /\ writes \in 0..MaxWrites
  /\ disk \in [Node -> Config]

-----------------------------------------------------------------------------
(* The lease, as the nodes see it.                                         *)

Holds(n) == epoch[n] # 0 /\ owner = n /\ epoch[n] = token
CanWrite(n) == role[n] = "leader" /\ Holds(n)

\* haIssuanceAllowed, the gate of Enroll, RenewCert and SyncRevocations.
IssuanceAllowed(n) == role[n] = "none" \/ CanWrite(n)

\* A free lease is granted under the next token.
Free(n) == n \in reach /\ owner = NoNode /\ token < MaxToken
Take(n) == /\ owner' = n /\ token' = token + 1
           /\ epoch' = [epoch EXCEPT ![n] = token + 1]
Foreign(n) == n \in reach /\ owner \notin {n, NoNode}

\* The key runs out once no keepalive loop renews it.
Renewed(n) == CanWrite(n) /\ n \in reach
Expire ==
  /\ owner # NoNode /\ ~Renewed(owner)
  /\ owner' = NoNode
  /\ UNCHANGED <<token, epoch, links, role, loopVars, addrs, policy, rounds, data, disk>>

-----------------------------------------------------------------------------
(* The environment.                                                        *)

LoseEtcd(n) ==
  /\ n \in Flaky /\ n \in reach
  /\ reach' = reach \ {n}
  /\ UNCHANGED <<leaseVars, linked, role, loopVars, addrs, policy, rounds, data, disk>>

RegainEtcd(n) ==
  /\ n \notin reach
  /\ reach' = reach \cup {n}
  /\ UNCHANGED <<leaseVars, linked, role, loopVars, addrs, policy, rounds, data, disk>>

ToggleLink ==
  /\ linked' = ~linked
  /\ UNCHANGED <<leaseVars, reach, role, loopVars, addrs, policy, rounds, data, disk>>

\* Ten minutes without a successful sync.
GoStale(n) ==
  /\ "age" \in Faults /\ synced[n] = "fresh"
  /\ synced' = [synced EXCEPT ![n] = "stale"]
  /\ UNCHANGED <<leaseVars, links, role, loopVars, addrs, cooling, fails, rounds, data, disk>>

\* haRepromoteCooldown is over.
CoolDown(n) ==
  /\ n \in cooling
  /\ cooling' = cooling \ {n}
  /\ UNCHANGED <<leaseVars, links, role, loopVars, addrs, synced, fails, rounds, data, disk>>

-----------------------------------------------------------------------------
(* Roles.                                                                  *)

SetRole(n, r) == role' = [role EXCEPT ![n] = r]
Save(n, r, p, m) == disk' = [disk EXCEPT ![n] = [role |-> r, peer |-> p, standby |-> m]]

\* StartAsStandby: a new sync loop against p with a fresh streak and the
\* promotion hook h; the saved record names p and forgets the failback target.
StartAsStandby(n, p, h) ==
  /\ SetRole(n, "standby")
  /\ peer' = [peer EXCEPT ![n] = p]
  /\ syncing' = syncing \cup {n} /\ hook' = [hook EXCEPT ![n] = h]
  /\ fails' = [fails EXCEPT ![n] = 0]
  /\ Save(n, "standby", p, NoNode)

\* The leader role with the persisted addresses (ResumeAsLeader).
AssumeLeader(n) ==
  /\ SetRole(n, "leader")
  /\ peer' = [peer EXCEPT ![n] = disk[n].peer]
  /\ standbyAddr' = [standbyAddr EXCEPT ![n] = disk[n].standby]
  /\ UNCHANGED <<syncing, hook, fails, disk>>

\* enableControlPlane refuses a node that already runs as a Control Plane.
HookWorks(n) == hook[n] = "noop" \/ n \notin serving

\* promote, granted and with onPromote done: leader, sync loop signalled to
\* stop, the record saved without a failback target.
Promoted(n) ==
  /\ HookWorks(n)
  /\ Take(n)
  /\ SetRole(n, "leader")
  /\ syncing' = syncing \ {n} /\ serving' = serving \cup {n}
  /\ Save(n, "leader", peer[n], NoNode)
  /\ UNCHANGED <<recovering, hook, addrs>>

\* promote, granted but with onPromote failing: a standby that left a lease
\* behind which nothing renews.
HookFailed(n) ==
  /\ "hook" \in Faults \/ ~HookWorks(n)
  /\ Take(n)
  /\ UNCHANGED <<role, loopVars, addrs, disk>>

-----------------------------------------------------------------------------
(* Boot, resume and crash.                                                 *)

\* loadCluster: --ha-join or a persisted standby role starts a standby
\* without a gRPC server; a persisted leader starts its server and resumes.
Boot(n) ==
  /\ role[n] = "down"
  /\ \/ n \in JoinNodes /\ StartAsStandby(n, First, "enable") /\ UNCHANGED serving
     \/ /\ n \notin JoinNodes /\ disk[n].role = "standby"
        /\ StartAsStandby(n, disk[n].peer, "enable") /\ UNCHANGED serving
     \/ /\ n \notin JoinNodes /\ disk[n].role = "leader"
        /\ SetRole(n, "none") /\ serving' = serving \cup {n}
        /\ UNCHANGED <<peer, syncing, hook, fails, disk>>
  /\ UNCHANGED <<leaseVars, links, recovering, standbyAddr, synced, cooling, rounds, data>>

\* acquireLeaseForResume waits out the own ghost, so it is granted once the
\* lease is free.
ResumeGranted(n) ==
  /\ role[n] = "none" /\ Free(n)
  /\ Take(n)
  /\ AssumeLeader(n)
  /\ UNCHANGED <<links, serving, recovering, synced, cooling, rounds, data>>

\* A live foreign holder: stand by against the recorded ex-standby, or stay
\* a read-only leader.
ResumeForeign(n) ==
  /\ role[n] = "none" /\ Foreign(n)
  /\ \/ /\ disk[n].standby # NoNode
        /\ standbyAddr' = [standbyAddr EXCEPT ![n] = disk[n].standby]
        /\ StartAsStandby(n, disk[n].standby, "noop")
     \/ disk[n].standby = NoNode /\ AssumeLeader(n)
  /\ UNCHANGED <<leaseVars, links, serving, recovering, synced, cooling, rounds, data>>

\* Fault: the read-only leader is left without a recovery loop (HA-7).
ResumeGiveUpUnarmed(n) ==
  /\ role[n] = "none" /\ (n \notin reach \/ owner = n)
  /\ AssumeLeader(n)
  /\ UNCHANGED <<leaseVars, links, serving, recovering, synced, cooling, rounds, data>>

\* No answer, or an own ghost that outlived the budget.
ResumeGiveUp(n) ==
  /\ role[n] = "none" /\ (n \notin reach \/ owner = n)
  /\ AssumeLeader(n)
  /\ recovering' = recovering \cup {n}
  /\ UNCHANGED <<leaseVars, links, serving, synced, cooling, rounds, data>>

Crash(n) ==
  /\ role[n] # "down"
  /\ SetRole(n, "down")
  /\ epoch' = [epoch EXCEPT ![n] = 0]
  /\ serving' = serving \ {n} /\ recovering' = recovering \ {n}
  /\ syncing' = syncing \ {n} /\ hook' = [hook EXCEPT ![n] = "none"]
  /\ cooling' = cooling \ {n}
  /\ peer' = [peer EXCEPT ![n] = NoNode]
  /\ standbyAddr' = [standbyAddr EXCEPT ![n] = NoNode]
  /\ synced' = [synced EXCEPT ![n] = "never"]
  /\ fails' = [fails EXCEPT ![n] = 0]
  /\ round' = [round EXCEPT ![n] = NoRound] /\ late' = [late EXCEPT ![n] = NoRound]
  /\ UNCHANGED <<owner, token, links, data, disk>>

-----------------------------------------------------------------------------
(* The leader.                                                             *)

\* Enroll, RenewCert or SyncRevocations commits to the cluster store.
ClusterWrite(n) ==
  /\ n \in serving /\ IssuanceAllowed(n) /\ writes < MaxWrites
  /\ writes' = writes + 1
  /\ state' = [state EXCEPT ![n] = @ \cup {writes + 1}]
  /\ UNCHANGED <<leaseVars, links, role, loopVars, addrs, policy, rounds, imported, disk>>

\* Fault: the resync does not ask whether a standby was ever recorded.
SelfFenceUnchecked(n) ==
  /\ role[n] = "leader" /\ epoch[n] # 0 /\ (~Holds(n) \/ n \notin reach)
  /\ epoch' = [epoch EXCEPT ![n] = 0]
  /\ cooling' = cooling \cup {n}
  /\ StartAsStandby(n, standbyAddr[n], "noop")
  /\ UNCHANGED <<owner, token, links, serving, recovering, standbyAddr, synced, rounds, data>>

\* selfFence on a lost or unconfirmable lease.
SelfFence(n) ==
  /\ role[n] = "leader" /\ epoch[n] # 0 /\ (~Holds(n) \/ n \notin reach)
  /\ epoch' = [epoch EXCEPT ![n] = 0]
  /\ cooling' = cooling \cup {n}
  /\ \/ standbyAddr[n] # NoNode /\ StartAsStandby(n, standbyAddr[n], "noop")
     \/ /\ standbyAddr[n] = NoNode
        /\ SetRole(n, "standby")
        /\ Save(n, "standby", peer[n], NoNode)
        /\ UNCHANGED <<peer, syncing, hook, fails>>
  /\ UNCHANGED <<owner, token, links, serving, recovering, standbyAddr, synced, rounds, data>>

\* leaseRecoveryAttempt, granted.
RecoverGranted(n) ==
  /\ n \in recovering /\ Free(n)
  /\ Take(n)
  /\ recovering' = recovering \ {n}
  /\ Save(n, "leader", peer[n], standbyAddr[n])
  /\ UNCHANGED <<links, role, serving, syncing, hook, addrs, policy, rounds, data>>

\* handleForeignFenceHolder: latched.
RecoverForeign(n) ==
  /\ n \in recovering /\ Foreign(n)
  /\ recovering' = recovering \ {n}
  /\ cooling' = cooling \cup {n}
  /\ \/ standbyAddr[n] # NoNode /\ StartAsStandby(n, standbyAddr[n], "noop")
     \/ standbyAddr[n] = NoNode /\ UNCHANGED <<role, peer, syncing, hook, fails, disk>>
  /\ UNCHANGED <<leaseVars, links, serving, standbyAddr, synced, rounds, data>>

-----------------------------------------------------------------------------
(* The standby sync loop.                                                  *)

\* HASync answers when the peer's server runs and knows the HA token (it
\* does not while its role is still "").
Answers(n) == /\ linked /\ peer[n] \in serving \ {n}
              /\ role[peer[n]] \in {"leader", "standby"}

\* HASync: the bundle is what the peer has now; a leader records the caller.
Pull(n) ==
  /\ n \in syncing /\ round[n].at = "idle" /\ Answers(n)
  /\ LET p == peer[n] IN
     /\ round' = [round EXCEPT ![n] =
                    [at |-> "pulled", epoch |-> epoch[p], state |-> state[p]]]
     /\ \/ /\ role[p] = "leader" /\ standbyAddr[p] # n
           /\ standbyAddr' = [standbyAddr EXCEPT ![p] = n]
           /\ Save(p, "leader", peer[p], n)
        \/ /\ ~(role[p] = "leader" /\ standbyAddr[p] # n)
           /\ UNCHANGED <<standbyAddr, disk>>
  /\ UNCHANGED <<leaseVars, links, role, loopVars, peer, policy, late, data>>

\* Faults: an expired key sets no floor; the comparison is strict.
CurrentWithoutHolder(n) == n \in reach /\ (owner = NoNode \/ round[n].epoch >= token)
CurrentStrict(n) == n \in reach /\ owner # NoNode /\ round[n].epoch > token

\* verifyBundleEpoch: there is a live holder and the bundle is not below it.
Current(n) == n \in reach /\ owner # NoNode /\ round[n].epoch >= token

Verify(n) ==
  /\ round[n].at = "pulled" /\ Current(n)
  /\ round' = [round EXCEPT ![n] = [at |-> "verified", epoch |-> round[n].epoch,
                                    state |-> round[n].state]]
  /\ UNCHANGED <<leaseVars, links, role, loopVars, addrs, policy, late, data, disk>>

\* ImportFullState of the bundle of a round b.
Import(n, b) ==
  /\ state' = [state EXCEPT ![n] = b.state]
  /\ imported' = [imported EXCEPT ![n] = b.epoch]
  /\ UNCHANGED writes

RoundOver(n) == round' = [round EXCEPT ![n] = NoRound]

\* applyHABundle, markSyncOK, setFail(0).
Apply(n) ==
  /\ round[n].at = "verified"
  /\ Import(n, round[n])
  /\ RoundOver(n)
  /\ synced' = [synced EXCEPT ![n] = "fresh"]
  /\ fails' = [fails EXCEPT ![n] = 0]
  /\ UNCHANGED <<leaseVars, links, role, loopVars, addrs, cooling, late, disk>>

\* A counted failure: no answer, a rejected bundle, or an import that fails
\* before (CA) or after (config snapshot) the cluster state was replaced.
RoundFails(n) ==
  /\ \/ round[n].at = "idle" /\ ~Answers(n) /\ UNCHANGED data
     \/ round[n].at = "pulled" /\ ~Current(n) /\ UNCHANGED data
     \/ round[n].at = "verified" /\ (UNCHANGED data \/ Import(n, round[n]))
  /\ RoundOver(n)

\* A contained panic, before or after the cluster state was replaced, is not
\* charged to the streak (guardedTick).
RoundPanics(n) ==
  /\ round[n].at = "verified"
  /\ UNCHANGED data \/ Import(n, round[n])
  /\ RoundOver(n)
  /\ UNCHANGED <<leaseVars, links, role, loopVars, addrs, policy, late, disk>>

\* Fault: a peer that answers is never succeeded, fenced or not.
MayAutoPromoteIfSilent(n) ==
  n \notin cooling /\ synced[n] = "fresh" /\ Free(n) /\ ~Answers(n)

\* The gates of leaseAutoPromote, then Acquire.
MayAutoPromote(n) == n \notin cooling /\ synced[n] = "fresh" /\ Free(n)
Streak(n) == IF fails[n] < MaxFail THEN fails[n] + 1 ELSE MaxFail

\* tick: the streak grows; at the threshold a promotion is attempted, and a
\* refused or failed one leaves the loop running.
SyncFails(n) ==
  /\ n \in syncing /\ RoundFails(n)
  /\ fails' = [fails EXCEPT ![n] = Streak(n)]
  /\ \/ /\ Streak(n) < MaxFail \/ ~MayAutoPromote(n)
        /\ UNCHANGED <<leaseVars, role, loopVars, addrs, disk>>
     \/ Streak(n) = MaxFail /\ MayAutoPromote(n) /\ HookFailed(n)
  /\ UNCHANGED <<links, synced, cooling, late>>

AutoPromote(n) ==
  /\ n \in syncing /\ RoundFails(n)
  /\ Streak(n) = MaxFail /\ MayAutoPromote(n)
  /\ Promoted(n)
  /\ fails' = [fails EXCEPT ![n] = MaxFail]
  /\ UNCHANGED <<links, synced, cooling, late>>

\* PromoteManually: no freshness, no hysteresis, but the lease.  It runs
\* outside the sync loop, so a round may outlive it.  One that is not yet
\* verified is dropped: its bundle predates the grant just made.
PromoteManually(n) ==
  /\ role[n] = "standby" /\ hook[n] # "none" /\ Free(n)
  /\ \/ /\ Promoted(n)
        /\ RoundOver(n)
        /\ late' = [late EXCEPT ![n] =
                     IF round[n].at = "verified" THEN round[n] ELSE late[n]]
     \/ HookFailed(n) /\ UNCHANGED rounds
  /\ UNCHANGED <<links, policy, data>>

\* Nothing between verifyBundleEpoch and ImportFullState looks at the role,
\* the lease or the stop channel again.
LateApply(n) ==
  /\ late[n].at = "verified"
  /\ Import(n, late[n])
  /\ late' = [late EXCEPT ![n] = NoRound]
  /\ synced' = [synced EXCEPT ![n] = "fresh"]
  /\ UNCHANGED <<leaseVars, links, role, loopVars, addrs, cooling, fails, round, disk>>

-----------------------------------------------------------------------------

Init ==
  /\ owner = First /\ token = 1
  /\ reach = Node /\ linked = TRUE
  /\ role = [n \in Node |-> IF n = First THEN "leader" ELSE "standby"]
  /\ epoch = [n \in Node |-> IF n = First THEN 1 ELSE 0]
  /\ serving = {First} /\ recovering = {}
  /\ syncing = Node \ {First}
  /\ hook = [n \in Node |-> IF n = First THEN "none" ELSE "enable"]
  /\ peer = [n \in Node |-> First]
  /\ standbyAddr = [n \in Node |-> NoNode]
  /\ synced = [n \in Node |-> "never"] /\ cooling = {}
  /\ fails = [n \in Node |-> 0]
  /\ round = [n \in Node |-> NoRound] /\ late = [n \in Node |-> NoRound]
  /\ imported = [n \in Node |-> 0]
  /\ state = [n \in Node |-> {}] /\ writes = 0
  /\ disk = [n \in Node |->
               [role |-> IF n = First THEN "leader" ELSE "standby",
                peer |-> First, standby |-> NoNode]]

Environment(n) == LoseEtcd(n) \/ RegainEtcd(n) \/ GoStale(n) \/ Crash(n)

Lead(n) == ResumeGranted(n) \/ ResumeForeign(n) \/ ResumeGiveUp(n)
           \/ SelfFence(n) \/ RecoverGranted(n) \/ RecoverForeign(n)

Standby(n) == Pull(n) \/ Verify(n) \/ Apply(n) \/ SyncFails(n)
              \/ RoundPanics(n) \/ AutoPromote(n) \/ LateApply(n)

Next ==
  \/ Expire \/ ToggleLink
  \/ \E n \in Node : Environment(n) \/ CoolDown(n) \/ Boot(n) \/ Lead(n)
                     \/ Standby(n) \/ ClusterWrite(n) \/ PromoteManually(n)

Spec == Init /\ [][Next]_vars

\* The loops tick, the lease times out, a supervisor restarts a process, and an
\* import that keeps being tried succeeds in the end.
Fairness ==
  /\ WF_vars(Expire)
  /\ \A n \in Node :
       /\ WF_vars(Boot(n)) /\ WF_vars(CoolDown(n)) /\ WF_vars(Lead(n))
       /\ WF_vars(Pull(n)) /\ WF_vars(Verify(n)) /\ WF_vars(SyncFails(n))
       /\ WF_vars(AutoPromote(n)) /\ SF_vars(Apply(n)) /\ WF_vars(LateApply(n))

FairSpec == Spec /\ Fairness
-----------------------------------------------------------------------------
(* Properties.                                                             *)

\* The puller-side fence (verifyBundleEpoch) orders imports: across leader
\* restarts, failovers and zombies, a sync loop never replaces an imported
\* state by one stamped with an older epoch.
ImportsAdvance ==
  [][\A n \in Node : late'[n] = late[n] => imported'[n] >= imported[n]]_vars

\* The lease, the links and the processes are well.
Healthy == /\ reach = Node /\ linked /\ \A n \in Node : role[n] # "down"
SomeWriter == \E n \in Node : CanWrite(n)

\* The lease is free, and only the bound on grants refuses it.
Exhausted == token = MaxToken /\ owner = NoNode

\* A node that is, or without an operator may become, a writer.
Candidate(n) ==
  \/ role[n] = "none" \/ n \in recovering
  \/ role[n] = "leader" /\ epoch[n] # 0
  \/ n \in syncing /\ synced[n] = "fresh"
Stranded == \A n \in Node : ~Candidate(n)

\* Leadership comes back by itself: once the environment stays healthy there
\* is a writer again and again, until a grant is needed beyond the bound.
LeadershipReturns == <>[]Healthy => []<>SomeWriter \/ <>Exhausted

\* After any loss of leadership, a grant wasted by a failing onPromote included,
\* the one way not to get it back without an operator is a cluster in which no
\* node is a candidate: no resume, recovery or freshly synced standby.
LeadershipReturnsUnlessStranded ==
  <>[]Healthy => []<>SomeWriter \/ <>Exhausted \/ <>[]Stranded

\* A standby of a stable writer ends up with the writer's cluster state.
ReplicaCatchesUp ==
  \A n, p \in Node :
    <>[](Healthy /\ n \in syncing /\ peer[n] = p /\ n # p /\ CanWrite(p) /\ p \in serving)
      => <>[](state[n] = state[p])

\* selfFence re-arms the promote guard because "a future (fence-gated)
\* promotion is legitimate": a promotion the fence grants completes, the
\* onPromote of the code failing only by itself (no "hook" fault).
PromotionCompletes ==
  [][\A n \in Node : role[n] = "standby" /\ epoch'[n] \notin {0, epoch[n]}
       => role'[n] = "leader"]_vars
=============================================================================
