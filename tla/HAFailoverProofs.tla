-------------------------- MODULE HAFailoverProofs --------------------------
(***************************************************************************)
(* Proofs about HAFailover, for every set of Control Planes, failure       *)
(* threshold and combination of faults: its type invariant, and the order  *)
(* of imports that the puller-side epoch fence gives (ImportsAdvance).     *)
(*                                                                         *)
(* TypeOK is not inductive: ha_config.json always names a peer, and what   *)
(* promote, selfFence and HASync write there is the peer address in        *)
(* memory, which a node that has just booted does not have.  PeerInv says  *)
(* why it is never written: a node in a role has a peer, and only a node   *)
(* in a role runs a loop.  ImportsAdvance needs StampInv, that no stamp is *)
(* ahead of the lease, to turn the comparison of verifyBundleEpoch with    *)
(* the lease into one with what was imported (VerifiedInv).                *)
(***************************************************************************)
EXTENDS HAFailover, Integers, TLAPS

USE DEF MaybeNode

-----------------------------------------------------------------------------
(* The inductive invariant.                                                *)

\* A node in a role has a peer address to save, and only a node in a role runs
\* the sync loop or the recovery loop.
PeerInv ==
  \A n \in Node :
    /\ role[n] \in {"leader", "standby"} => peer[n] \in Node
    /\ n \in syncing => role[n] \in {"leader", "standby"}
    /\ n \in recovering => role[n] \in {"leader", "standby"}

\* No stamp is ahead of the lease: not the epoch a node believes it holds, the
\* epoch of a bundle on its way, or that of an imported one.
StampInv ==
  \A n \in Node : /\ epoch[n] <= token /\ round[n].epoch <= token
                  /\ late[n].epoch <= token /\ imported[n] <= token

\* A bundle that passed the fence is at least as new as everything its node has
\* imported, and as the bundle of a stopped loop that may still be imported.
VerifiedInv ==
  \A n \in Node : round[n].at = "verified"
    => round[n].epoch >= imported[n] /\ round[n].epoch >= late[n].epoch

FailoverInv == TypeOK /\ PeerInv /\ StampInv /\ VerifiedInv

-----------------------------------------------------------------------------
(* The records.                                                            *)

\* The fields of a sync round, and the round that is not under way.
LEMMA RoundFacts ==
  /\ NoRound \in Round /\ NoRound.at = "idle" /\ NoRound.epoch = 0
  /\ \A b \in Round : /\ b.at \in {"idle", "pulled", "verified"}
                      /\ b.epoch \in 0..MaxToken /\ b.state \in SUBSET (1..MaxWrites)
BY FailoverAssumption DEF Round, NoRound

\* A round made of a stage, a stamp and a state.
LEMMA RoundOf ==
  ASSUME NEW a \in {"idle", "pulled", "verified"}, NEW e \in 0..MaxToken,
         NEW s \in SUBSET (1..MaxWrites)
  PROVE  LET b == [at |-> a, epoch |-> e, state |-> s]
         IN b \in Round /\ b.at = a /\ b.epoch = e /\ b.state = s
BY DEF Round

\* What Save writes is a configuration whenever its peer is a node.
LEMMA ConfigFacts ==
  /\ \A c \in Config : c.role \in {"leader", "standby"} /\ c.peer \in Node /\ c.standby \in MaybeNode
  /\ \A r \in {"leader", "standby"}, p \in Node, m \in MaybeNode :
       [role |-> r, peer |-> p, standby |-> m] \in Config
BY DEF Config

\* Every stamp that is compared is a number.
LEMMA StampTypes ==
  ASSUME TypeOK
  PROVE  /\ token \in Int
         /\ \A m \in Node : /\ epoch[m] \in Int /\ round[m].epoch \in Int
                             /\ late[m].epoch \in Int /\ imported[m] \in Int
BY RoundFacts, FailoverAssumption DEF TypeOK

-----------------------------------------------------------------------------
(* The shared parts of the actions.                                        *)

\* A saved record keeps the disk well typed.
LEMMA SaveType ==
  ASSUME disk \in [Node -> Config], NEW n \in Node, NEW r \in {"leader", "standby"},
         NEW p \in Node, NEW m \in MaybeNode, Save(n, r, p, m)
  PROVE  disk' \in [Node -> Config]
BY ConfigFacts DEF Save

\* StartAsStandby against a node leaves a standby with that peer and a sync loop.
LEMMA StartFacts ==
  ASSUME TypeOK, NEW n \in Node, NEW p \in Node, NEW h \in {"enable", "noop"},
         StartAsStandby(n, p, h)
  PROVE  /\ role' = [role EXCEPT ![n] = "standby"]
         /\ role' \in [Node -> {"down", "none", "leader", "standby"}]
         /\ peer' = [peer EXCEPT ![n] = p] /\ peer' \in [Node -> MaybeNode]
         /\ syncing' = syncing \cup {n} /\ syncing' \subseteq Node
         /\ hook' \in [Node -> {"none", "enable", "noop"}]
         /\ fails' \in [Node -> 0..MaxFail] /\ disk' \in [Node -> Config]
<1>1. disk \in [Node -> Config] /\ Save(n, "standby", p, NoNode)
  BY DEF TypeOK, StartAsStandby
<1>2. disk' \in [Node -> Config]
  BY <1>1, SaveType
<1>3. 0 \in 0..MaxFail
  BY FailoverAssumption
<1>4. /\ role' = [role EXCEPT ![n] = "standby"] /\ peer' = [peer EXCEPT ![n] = p]
      /\ syncing' = syncing \cup {n} /\ hook' = [hook EXCEPT ![n] = h]
      /\ fails' = [fails EXCEPT ![n] = 0]
  BY DEF StartAsStandby, SetRole
<1>5. /\ role \in [Node -> {"down", "none", "leader", "standby"}]
      /\ peer \in [Node -> MaybeNode] /\ syncing \subseteq Node
      /\ hook \in [Node -> {"none", "enable", "noop"}] /\ fails \in [Node -> 0..MaxFail]
  BY DEF TypeOK
<1>6. /\ hook' \in [Node -> {"none", "enable", "noop"}] /\ fails' \in [Node -> 0..MaxFail]
  BY <1>3, <1>4, <1>5
<1> QED
  BY <1>2, <1>4, <1>5, <1>6

\* AssumeLeader leaves a leader with the peer its file names.
LEMMA AssumeFacts ==
  ASSUME TypeOK, NEW n \in Node, AssumeLeader(n)
  PROVE  /\ role' = [role EXCEPT ![n] = "leader"]
         /\ role' \in [Node -> {"down", "none", "leader", "standby"}]
         /\ peer' = [peer EXCEPT ![n] = disk[n].peer] /\ disk[n].peer \in Node
         /\ peer' \in [Node -> MaybeNode] /\ standbyAddr' \in [Node -> MaybeNode]
         /\ UNCHANGED <<syncing, hook, fails, disk>>
BY ConfigFacts DEF AssumeLeader, SetRole, TypeOK

\* A grant raises the token by one and stamps nobody but its taker.
LEMMA TakeFacts ==
  ASSUME TypeOK, NEW n \in Node, Free(n), Take(n)
  PROVE  /\ owner' = n /\ token' = token + 1 /\ token' \in 0..MaxToken
         /\ epoch' = [epoch EXCEPT ![n] = token + 1] /\ epoch' \in [Node -> 0..MaxToken]
BY FailoverAssumption DEF TypeOK, Free, Take

\* A promotion saves the peer of a node in a role.
LEMMA PromotedFacts ==
  ASSUME TypeOK, NEW n \in Node, peer[n] \in Node, Free(n), Promoted(n)
  PROVE  /\ owner' = n /\ token' = token + 1 /\ token' \in 0..MaxToken
         /\ epoch' = [epoch EXCEPT ![n] = token + 1] /\ epoch' \in [Node -> 0..MaxToken]
         /\ role' = [role EXCEPT ![n] = "leader"]
         /\ role' \in [Node -> {"down", "none", "leader", "standby"}]
         /\ syncing' = syncing \ {n} /\ serving' \subseteq Node /\ disk' \in [Node -> Config]
         /\ UNCHANGED <<recovering, hook, addrs>>
<1>1. disk \in [Node -> Config] /\ Save(n, "leader", peer[n], NoNode) /\ Take(n)
  BY DEF TypeOK, Promoted
<1>2. disk' \in [Node -> Config]
  BY <1>1, SaveType
<1> QED
  BY <1>1, <1>2, TakeFacts DEF Promoted, SetRole, TypeOK

\* The end of a round that failed: nothing was imported, or the whole of a
\* verified bundle.
LEMMA FailsFacts ==
  ASSUME TypeOK, NEW n \in Node, RoundFails(n)
  PROVE  /\ round' = [round EXCEPT ![n] = NoRound] /\ round' \in [Node -> Round]
         /\ writes' = writes /\ state' \in [Node -> SUBSET (1..MaxWrites)]
         /\ imported' \in [Node -> 0..MaxToken]
         /\ \/ imported' = imported
            \/ round[n].at = "verified" /\ imported' = [imported EXCEPT ![n] = round[n].epoch]
BY RoundFacts DEF RoundFails, RoundOver, Import, data, TypeOK

\* The end of a round that panicked: nothing was imported, or the whole of a
\* verified bundle.
LEMMA PanicsFacts ==
  ASSUME TypeOK, NEW n \in Node, RoundPanics(n)
  PROVE  /\ round' = [round EXCEPT ![n] = NoRound] /\ round' \in [Node -> Round]
         /\ writes' = writes /\ state' \in [Node -> SUBSET (1..MaxWrites)]
         /\ imported' \in [Node -> 0..MaxToken]
         /\ \/ imported' = imported
            \/ round[n].at = "verified" /\ imported' = [imported EXCEPT ![n] = round[n].epoch]
BY RoundFacts DEF RoundPanics, RoundOver, Import, data, TypeOK

\* The failure streak stays within its threshold.
LEMMA StreakType ==
  ASSUME TypeOK, NEW n \in Node
  PROVE  Streak(n) \in 0..MaxFail
BY FailoverAssumption DEF Streak, TypeOK

-----------------------------------------------------------------------------
(* Every action preserves the invariant.                                   *)

\* The key of a lease that nobody renews runs out.
LEMMA ExpireKeeps ==
  ASSUME FailoverInv, Expire
  PROVE  FailoverInv'
<1>0. TypeOK /\ PeerInv /\ StampInv /\ VerifiedInv
  BY DEF FailoverInv
<1>1. TypeOK'
  BY <1>0, FailoverAssumption DEF TypeOK, Expire, links, loopVars, addrs, policy,
     rounds, data
<1>2. PeerInv'
  BY <1>0, FailoverAssumption DEF PeerInv, TypeOK, Expire, links, loopVars, addrs,
     policy, rounds, data
<1>3. StampInv'
  BY <1>0, FailoverAssumption DEF StampInv, TypeOK, Expire, links, loopVars, addrs,
     policy, rounds, data
<1>4. VerifiedInv'
  BY <1>0, FailoverAssumption DEF VerifiedInv, TypeOK, Expire, links, loopVars, addrs,
     policy, rounds, data
<1> QED
  BY <1>1, <1>2, <1>3, <1>4 DEF FailoverInv

\* The link between the nodes goes or comes back.
LEMMA ToggleLinkKeeps ==
  ASSUME FailoverInv, ToggleLink
  PROVE  FailoverInv'
<1>0. TypeOK /\ PeerInv /\ StampInv /\ VerifiedInv
  BY DEF FailoverInv
<1>1. TypeOK'
  BY <1>0 DEF TypeOK, ToggleLink, leaseVars, loopVars, addrs, policy, rounds, data
<1>2. PeerInv'
  BY <1>0 DEF PeerInv, TypeOK, ToggleLink, leaseVars, loopVars, addrs, policy, rounds, data
<1>3. StampInv'
  BY <1>0 DEF StampInv, TypeOK, ToggleLink, leaseVars, loopVars, addrs, policy, rounds, data
<1>4. VerifiedInv'
  BY <1>0 DEF VerifiedInv, TypeOK, ToggleLink, leaseVars, loopVars, addrs, policy,
     rounds, data
<1> QED
  BY <1>1, <1>2, <1>3, <1>4 DEF FailoverInv

\* A node loses the lease backend.
LEMMA LoseEtcdKeeps ==
  ASSUME FailoverInv, NEW n \in Node, LoseEtcd(n)
  PROVE  FailoverInv'
<1>0. TypeOK /\ PeerInv /\ StampInv /\ VerifiedInv
  BY DEF FailoverInv
<1>1. TypeOK'
  BY <1>0 DEF TypeOK, LoseEtcd, leaseVars, loopVars, addrs, policy, rounds, data
<1>2. PeerInv'
  BY <1>0 DEF PeerInv, TypeOK, LoseEtcd, leaseVars, loopVars, addrs, policy, rounds, data
<1>3. StampInv'
  BY <1>0 DEF StampInv, TypeOK, LoseEtcd, leaseVars, loopVars, addrs, policy, rounds, data
<1>4. VerifiedInv'
  BY <1>0 DEF VerifiedInv, TypeOK, LoseEtcd, leaseVars, loopVars, addrs, policy, rounds,
     data
<1> QED
  BY <1>1, <1>2, <1>3, <1>4 DEF FailoverInv

\* A node reaches the lease backend again.
LEMMA RegainEtcdKeeps ==
  ASSUME FailoverInv, NEW n \in Node, RegainEtcd(n)
  PROVE  FailoverInv'
<1>0. TypeOK /\ PeerInv /\ StampInv /\ VerifiedInv
  BY DEF FailoverInv
<1>1. TypeOK'
  BY <1>0 DEF TypeOK, RegainEtcd, leaseVars, loopVars, addrs, policy, rounds, data
<1>2. PeerInv'
  BY <1>0 DEF PeerInv, TypeOK, RegainEtcd, leaseVars, loopVars, addrs, policy, rounds, data
<1>3. StampInv'
  BY <1>0 DEF StampInv, TypeOK, RegainEtcd, leaseVars, loopVars, addrs, policy, rounds, data
<1>4. VerifiedInv'
  BY <1>0 DEF VerifiedInv, TypeOK, RegainEtcd, leaseVars, loopVars, addrs, policy,
     rounds, data
<1> QED
  BY <1>1, <1>2, <1>3, <1>4 DEF FailoverInv

\* The last sync leaves the freshness window.
LEMMA GoStaleKeeps ==
  ASSUME FailoverInv, NEW n \in Node, GoStale(n)
  PROVE  FailoverInv'
<1>0. TypeOK /\ PeerInv /\ StampInv /\ VerifiedInv
  BY DEF FailoverInv
<1>1. TypeOK'
  BY <1>0 DEF TypeOK, GoStale, leaseVars, links, loopVars, addrs, rounds, data
<1>2. PeerInv'
  BY <1>0 DEF PeerInv, TypeOK, GoStale, leaseVars, links, loopVars, addrs, rounds, data
<1>3. StampInv'
  BY <1>0 DEF StampInv, TypeOK, GoStale, leaseVars, links, loopVars, addrs, rounds, data
<1>4. VerifiedInv'
  BY <1>0 DEF VerifiedInv, TypeOK, GoStale, leaseVars, links, loopVars, addrs, rounds, data
<1> QED
  BY <1>1, <1>2, <1>3, <1>4 DEF FailoverInv

\* The re-promotion cooldown ends.
LEMMA CoolDownKeeps ==
  ASSUME FailoverInv, NEW n \in Node, CoolDown(n)
  PROVE  FailoverInv'
<1>0. TypeOK /\ PeerInv /\ StampInv /\ VerifiedInv
  BY DEF FailoverInv
<1>1. TypeOK'
  BY <1>0 DEF TypeOK, CoolDown, leaseVars, links, loopVars, addrs, rounds, data
<1>2. PeerInv'
  BY <1>0 DEF PeerInv, TypeOK, CoolDown, leaseVars, links, loopVars, addrs, rounds, data
<1>3. StampInv'
  BY <1>0 DEF StampInv, TypeOK, CoolDown, leaseVars, links, loopVars, addrs, rounds, data
<1>4. VerifiedInv'
  BY <1>0 DEF VerifiedInv, TypeOK, CoolDown, leaseVars, links, loopVars, addrs, rounds, data
<1> QED
  BY <1>1, <1>2, <1>3, <1>4 DEF FailoverInv

\* loadCluster: a standby against a node, or a leader that resumes.
LEMMA BootKeeps ==
  ASSUME FailoverInv, NEW n \in Node, Boot(n)
  PROVE  FailoverInv'
<1>0. TypeOK /\ PeerInv /\ StampInv /\ VerifiedInv
  BY DEF FailoverInv
<1>1. /\ role' \in [Node -> {"down", "none", "leader", "standby"}] /\ peer' \in [Node -> MaybeNode]
      /\ syncing' \subseteq Node /\ hook' \in [Node -> {"none", "enable", "noop"}]
      /\ fails' \in [Node -> 0..MaxFail] /\ disk' \in [Node -> Config] /\ serving' \subseteq Node
      /\ \A m \in Node \ {n} : role'[m] = role[m] /\ peer'[m] = peer[m] /\ (m \in syncing' <=> m \in syncing)
      /\ \/ role'[n] = "standby" /\ peer'[n] \in Node
         \/ role'[n] = "none" /\ n \notin syncing'
      /\ n \notin recovering
  <2>0. role[n] = "down" /\ n \notin syncing /\ n \notin recovering /\ disk[n].peer \in Node /\ First \in Node
    BY <1>0, FailoverAssumption, ConfigFacts DEF Boot, TypeOK, PeerInv
  <2>1. CASE n \in JoinNodes /\ StartAsStandby(n, First, "enable") /\ UNCHANGED serving
    BY <1>0, <2>0, <2>1, StartFacts DEF TypeOK
  <2>2. CASE StartAsStandby(n, disk[n].peer, "enable") /\ UNCHANGED serving
    BY <1>0, <2>0, <2>2, StartFacts DEF TypeOK
  <2>3. CASE SetRole(n, "none") /\ serving' = serving \cup {n} /\ UNCHANGED <<peer, syncing, hook, fails, disk>>
    BY <1>0, <2>0, <2>3 DEF TypeOK, SetRole
  <2> QED
    BY <2>1, <2>2, <2>3 DEF Boot
<1>2. UNCHANGED <<leaseVars, links, recovering, standbyAddr, synced, cooling, rounds, data>>
  BY DEF Boot
<1>3. TypeOK'
  BY <1>0, <1>1, <1>2 DEF TypeOK, leaseVars, links, rounds, data
<1>4. PeerInv'
  BY <1>0, <1>1, <1>2 DEF PeerInv, TypeOK, leaseVars, links, rounds, data
<1>5. StampInv'
  BY <1>0, <1>1, <1>2 DEF StampInv, TypeOK, leaseVars, links, rounds, data
<1>6. VerifiedInv'
  BY <1>0, <1>1, <1>2 DEF VerifiedInv, TypeOK, leaseVars, links, rounds, data
<1> QED
  BY <1>3, <1>4, <1>5, <1>6 DEF FailoverInv

\* A resume that is granted the lease.
LEMMA ResumeGrantedKeeps ==
  ASSUME FailoverInv, NEW n \in Node, ResumeGranted(n)
  PROVE  FailoverInv'
<1>0. TypeOK /\ PeerInv /\ StampInv /\ VerifiedInv
  BY DEF FailoverInv
<1>1. TypeOK'
  BY <1>0, TakeFacts, AssumeFacts DEF TypeOK, ResumeGranted, links, rounds, data
<1>2. PeerInv'
  BY <1>0, TakeFacts, AssumeFacts DEF PeerInv, TypeOK, ResumeGranted, links, rounds, data
<1>3. StampInv'
  BY <1>0, TakeFacts, StampTypes DEF StampInv, ResumeGranted, TypeOK, rounds, data
<1>4. VerifiedInv'
  BY <1>0, TakeFacts, AssumeFacts DEF VerifiedInv, TypeOK, ResumeGranted, links, rounds,
     data
<1> QED
  BY <1>1, <1>2, <1>3, <1>4 DEF FailoverInv

\* A resume that finds another holder.
LEMMA ResumeForeignKeeps ==
  ASSUME FailoverInv, NEW n \in Node, ResumeForeign(n)
  PROVE  FailoverInv'
<1>0. TypeOK /\ PeerInv /\ StampInv /\ VerifiedInv
  BY DEF FailoverInv
<1>1. /\ role' \in [Node -> {"down", "none", "leader", "standby"}] /\ peer' \in [Node -> MaybeNode]
      /\ standbyAddr' \in [Node -> MaybeNode]
      /\ syncing' \subseteq Node /\ hook' \in [Node -> {"none", "enable", "noop"}]
      /\ fails' \in [Node -> 0..MaxFail] /\ disk' \in [Node -> Config]
      /\ \A m \in Node \ {n} : role'[m] = role[m] /\ peer'[m] = peer[m] /\ (m \in syncing' <=> m \in syncing)
      /\ role'[n] \in {"leader", "standby"} /\ peer'[n] \in Node
  <2>0. disk[n].standby \in Node \cup {NoNode}
    BY <1>0, ConfigFacts DEF TypeOK
  <2>1. CASE /\ disk[n].standby # NoNode
             /\ standbyAddr' = [standbyAddr EXCEPT ![n] = disk[n].standby]
             /\ StartAsStandby(n, disk[n].standby, "noop")
    <3>1. disk[n].standby \in Node
      BY <2>0, <2>1
    <3> QED
      BY <1>0, <2>1, <3>1, StartFacts DEF TypeOK
  <2>2. CASE AssumeLeader(n)
    BY <1>0, <2>2, AssumeFacts DEF TypeOK
  <2> QED
    BY <2>1, <2>2 DEF ResumeForeign
<1>2. UNCHANGED <<leaseVars, links, serving, recovering, synced, cooling, rounds, data>>
  BY DEF ResumeForeign
<1>3. TypeOK'
  BY <1>0, <1>1, <1>2 DEF TypeOK, leaseVars, links, rounds, data
<1>4. PeerInv'
  BY <1>0, <1>1, <1>2 DEF PeerInv, TypeOK, leaseVars, links, rounds, data
<1>5. StampInv'
  BY <1>0, <1>1, <1>2 DEF StampInv, TypeOK, leaseVars, links, rounds, data
<1>6. VerifiedInv'
  BY <1>0, <1>1, <1>2 DEF VerifiedInv, TypeOK, leaseVars, links, rounds, data
<1> QED
  BY <1>3, <1>4, <1>5, <1>6 DEF FailoverInv

\* A resume that gives up and leaves a read-only leader to recovery.
LEMMA ResumeGiveUpKeeps ==
  ASSUME FailoverInv, NEW n \in Node, ResumeGiveUp(n)
  PROVE  FailoverInv'
<1>0. TypeOK /\ PeerInv /\ StampInv /\ VerifiedInv
  BY DEF FailoverInv
<1>1. TypeOK'
  BY <1>0, AssumeFacts DEF TypeOK, ResumeGiveUp, leaseVars, links, rounds, data
<1>2. PeerInv'
  BY <1>0, AssumeFacts DEF PeerInv, TypeOK, ResumeGiveUp, leaseVars, links, rounds, data
<1>3. StampInv'
  BY <1>0, AssumeFacts DEF StampInv, TypeOK, ResumeGiveUp, leaseVars, links, rounds, data
<1>4. VerifiedInv'
  BY <1>0, AssumeFacts DEF VerifiedInv, TypeOK, ResumeGiveUp, leaseVars, links, rounds, data
<1> QED
  BY <1>1, <1>2, <1>3, <1>4 DEF FailoverInv

\* A process dies with everything but its file and the cluster state.
LEMMA CrashKeeps ==
  ASSUME FailoverInv, NEW n \in Node, Crash(n)
  PROVE  FailoverInv'
<1>0. TypeOK /\ PeerInv /\ StampInv /\ VerifiedInv
  BY DEF FailoverInv
<1>1. TypeOK'
  BY <1>0, RoundFacts, FailoverAssumption DEF TypeOK, Crash, SetRole, links, data
<1>2. PeerInv'
  BY <1>0, RoundFacts, FailoverAssumption DEF PeerInv, TypeOK, Crash, SetRole, links, data
<1>3. StampInv'
  BY <1>0, RoundFacts, FailoverAssumption DEF StampInv, TypeOK, Crash, SetRole, links, data
<1>4. VerifiedInv'
  BY <1>0, RoundFacts, FailoverAssumption DEF VerifiedInv, TypeOK, Crash, SetRole,
     links, data
<1> QED
  BY <1>1, <1>2, <1>3, <1>4 DEF FailoverInv

\* A serving node that may issue writes to its cluster state.
LEMMA ClusterWriteKeeps ==
  ASSUME FailoverInv, NEW n \in Node, ClusterWrite(n)
  PROVE  FailoverInv'
<1>0. TypeOK /\ PeerInv /\ StampInv /\ VerifiedInv
  BY DEF FailoverInv
<1>1. TypeOK'
  BY <1>0, FailoverAssumption DEF TypeOK, ClusterWrite, leaseVars, links, loopVars,
     addrs, policy, rounds
<1>2. PeerInv'
  BY <1>0, FailoverAssumption DEF PeerInv, TypeOK, ClusterWrite, leaseVars, links,
     loopVars, addrs, policy, rounds
<1>3. StampInv'
  BY <1>0, FailoverAssumption DEF StampInv, TypeOK, ClusterWrite, leaseVars, links,
     loopVars, addrs, policy, rounds
<1>4. VerifiedInv'
  BY <1>0, FailoverAssumption DEF VerifiedInv, TypeOK, ClusterWrite, leaseVars, links,
     loopVars, addrs, policy, rounds
<1> QED
  BY <1>1, <1>2, <1>3, <1>4 DEF FailoverInv

\* A leader that lost its lease steps down to standby.
LEMMA SelfFenceKeeps ==
  ASSUME FailoverInv, NEW n \in Node, SelfFence(n)
  PROVE  FailoverInv'
<1>0. TypeOK /\ PeerInv /\ StampInv /\ VerifiedInv
  BY DEF FailoverInv
<1>1. /\ role' \in [Node -> {"down", "none", "leader", "standby"}] /\ peer' \in [Node -> MaybeNode]
      /\ syncing' \subseteq Node /\ hook' \in [Node -> {"none", "enable", "noop"}]
      /\ fails' \in [Node -> 0..MaxFail] /\ disk' \in [Node -> Config]
      /\ \A m \in Node \ {n} : role'[m] = role[m] /\ peer'[m] = peer[m] /\ (m \in syncing' <=> m \in syncing)
      /\ role'[n] \in {"leader", "standby"} /\ peer'[n] \in Node
  <2>0. role[n] \in {"leader", "standby"} /\ peer[n] \in Node /\ standbyAddr[n] \in Node \cup {NoNode}
    BY <1>0 DEF TypeOK, PeerInv, SelfFence
  <2>1. CASE standbyAddr[n] # NoNode /\ StartAsStandby(n, standbyAddr[n], "noop")
    <3>1. standbyAddr[n] \in Node
      BY <2>0, <2>1
    <3> QED
      BY <1>0, <2>1, <3>1, StartFacts DEF TypeOK
  <2>2. CASE SetRole(n, "standby") /\ Save(n, "standby", peer[n], NoNode) /\ UNCHANGED <<peer, syncing, hook, fails>>
    <3>1. disk' \in [Node -> Config]
      BY <1>0, <2>0, <2>2, SaveType DEF TypeOK
    <3> QED
      BY <1>0, <2>0, <2>2, <3>1 DEF TypeOK, SetRole
  <2> QED
    BY <2>1, <2>2 DEF SelfFence
<1>2. /\ epoch' = [epoch EXCEPT ![n] = 0] /\ cooling' = cooling \cup {n}
      /\ UNCHANGED <<owner, token, links, serving, recovering, standbyAddr, synced, rounds, data>>
  BY DEF SelfFence
<1>3. TypeOK'
  BY <1>0, <1>1, <1>2, FailoverAssumption DEF TypeOK, links, rounds, data
<1>4. PeerInv'
  BY <1>0, <1>1, <1>2, FailoverAssumption DEF PeerInv, TypeOK, links, rounds, data
<1>5. StampInv'
  BY <1>0, <1>1, <1>2, FailoverAssumption DEF StampInv, TypeOK, links, rounds, data
<1>6. VerifiedInv'
  BY <1>0, <1>1, <1>2, FailoverAssumption DEF VerifiedInv, TypeOK, links, rounds, data
<1> QED
  BY <1>3, <1>4, <1>5, <1>6 DEF FailoverInv

\* The recovery loop is granted the lease.
LEMMA RecoverGrantedKeeps ==
  ASSUME FailoverInv, NEW n \in Node, RecoverGranted(n)
  PROVE  FailoverInv'
<1>0. TypeOK /\ PeerInv /\ StampInv /\ VerifiedInv
  BY DEF FailoverInv
<1>1. disk' \in [Node -> Config]
  <2>1. peer[n] \in Node /\ standbyAddr[n] \in MaybeNode
    BY <1>0 DEF RecoverGranted, PeerInv, TypeOK
  <2> QED
    BY <1>0, <2>1, SaveType DEF RecoverGranted, TypeOK
<1>2. TypeOK'
  BY <1>0, TakeFacts, <1>1 DEF TypeOK, RecoverGranted, links, addrs, policy, rounds, data
<1>3. PeerInv'
  BY <1>0, TakeFacts, <1>1 DEF PeerInv, TypeOK, RecoverGranted, links, addrs, policy,
     rounds, data
<1>4. StampInv'
  BY <1>0, TakeFacts, StampTypes DEF StampInv, RecoverGranted, TypeOK, rounds, data
<1>5. VerifiedInv'
  BY <1>0, TakeFacts, <1>1 DEF VerifiedInv, TypeOK, RecoverGranted, links, addrs,
     policy, rounds, data
<1> QED
  BY <1>2, <1>3, <1>4, <1>5 DEF FailoverInv

\* The recovery loop finds another holder and stops.
LEMMA RecoverForeignKeeps ==
  ASSUME FailoverInv, NEW n \in Node, RecoverForeign(n)
  PROVE  FailoverInv'
<1>0. TypeOK /\ PeerInv /\ StampInv /\ VerifiedInv
  BY DEF FailoverInv
<1>1. /\ role' \in [Node -> {"down", "none", "leader", "standby"}] /\ peer' \in [Node -> MaybeNode]
      /\ syncing' \subseteq Node /\ hook' \in [Node -> {"none", "enable", "noop"}]
      /\ fails' \in [Node -> 0..MaxFail] /\ disk' \in [Node -> Config]
      /\ \A m \in Node \ {n} : role'[m] = role[m] /\ peer'[m] = peer[m] /\ (m \in syncing' <=> m \in syncing)
      /\ role'[n] \in {"leader", "standby"} /\ peer'[n] \in Node
  <2>0. role[n] \in {"leader", "standby"} /\ peer[n] \in Node /\ standbyAddr[n] \in Node \cup {NoNode}
    BY <1>0 DEF TypeOK, PeerInv, RecoverForeign
  <2>1. CASE standbyAddr[n] # NoNode /\ StartAsStandby(n, standbyAddr[n], "noop")
    <3>1. standbyAddr[n] \in Node
      BY <2>0, <2>1
    <3> QED
      BY <1>0, <2>1, <3>1, StartFacts DEF TypeOK
  <2>2. CASE UNCHANGED <<role, peer, syncing, hook, fails, disk>>
    BY <1>0, <2>0, <2>2 DEF TypeOK
  <2> QED
    BY <2>1, <2>2 DEF RecoverForeign
<1>2. /\ recovering' = recovering \ {n} /\ cooling' = cooling \cup {n}
      /\ UNCHANGED <<leaseVars, links, serving, standbyAddr, synced, rounds, data>>
  BY DEF RecoverForeign
<1>3. TypeOK'
  BY <1>0, <1>1, <1>2 DEF TypeOK, leaseVars, links, rounds, data
<1>4. PeerInv'
  BY <1>0, <1>1, <1>2 DEF PeerInv, TypeOK, leaseVars, links, rounds, data
<1>5. StampInv'
  BY <1>0, <1>1, <1>2 DEF StampInv, TypeOK, leaseVars, links, rounds, data
<1>6. VerifiedInv'
  BY <1>0, <1>1, <1>2 DEF VerifiedInv, TypeOK, leaseVars, links, rounds, data
<1> QED
  BY <1>3, <1>4, <1>5, <1>6 DEF FailoverInv

\* A bundle is pulled; a leader records its caller.
LEMMA PullKeeps ==
  ASSUME FailoverInv, NEW n \in Node, Pull(n)
  PROVE  FailoverInv'
<1>0. TypeOK /\ PeerInv /\ StampInv /\ VerifiedInv
  BY DEF FailoverInv
<1>1. /\ standbyAddr' \in [Node -> MaybeNode] /\ disk' \in [Node -> Config]
      /\ UNCHANGED <<leaseVars, links, role, loopVars, peer, policy, late, data>>
  <2>0. peer[n] \in Node
    BY <1>0 DEF Pull, Answers, TypeOK
  <2>1. CASE /\ role[peer[n]] = "leader"
             /\ standbyAddr' = [standbyAddr EXCEPT ![peer[n]] = n]
             /\ Save(peer[n], "leader", peer[peer[n]], n)
    <3>1. peer[peer[n]] \in Node
      BY <1>0, <2>0, <2>1 DEF PeerInv
    <3>2. disk' \in [Node -> Config]
      BY <1>0, <2>0, <2>1, <3>1, SaveType DEF TypeOK
    <3> QED
      BY <1>0, <2>0, <2>1, <3>2 DEF TypeOK, Pull
  <2>2. CASE UNCHANGED <<standbyAddr, disk>>
    BY <1>0, <2>2 DEF TypeOK, Pull
  <2> QED
    BY <2>1, <2>2 DEF Pull
<1>2. /\ round' \in [Node -> Round] /\ round'[n].at = "pulled" /\ round'[n].epoch <= token
      /\ \A m \in Node \ {n} : round'[m] = round[m]
  <2>0. peer[n] \in Node
    BY <1>0 DEF Pull, Answers, TypeOK
  <2>1. epoch[peer[n]] \in 0..MaxToken /\ epoch[peer[n]] <= token /\ state[peer[n]] \in SUBSET (1..MaxWrites)
    BY <1>0, <2>0 DEF TypeOK, StampInv
  <2> DEFINE b == [at |-> "pulled", epoch |-> epoch[peer[n]], state |-> state[peer[n]]]
  <2>2. b \in Round /\ b.at = "pulled" /\ b.epoch = epoch[peer[n]]
    BY <2>1, RoundOf
  <2>3. round' = [round EXCEPT ![n] = b]
    BY DEF Pull
  <2> HIDE DEF b
  <2> QED
    BY <1>0, <2>1, <2>2, <2>3 DEF TypeOK
<1>3. TypeOK'
  BY <1>0, <1>1, <1>2 DEF TypeOK, leaseVars, links, loopVars, policy, data
<1>4. PeerInv'
  BY <1>0, <1>1, <1>2 DEF PeerInv, TypeOK, leaseVars, links, loopVars, policy, data
<1>5. StampInv'
  BY <1>0, <1>1, <1>2 DEF StampInv, TypeOK, leaseVars, links, loopVars, policy, data
<1>6. VerifiedInv'
  BY <1>0, <1>1, <1>2 DEF VerifiedInv, TypeOK, leaseVars, links, loopVars, policy, data
<1> QED
  BY <1>3, <1>4, <1>5, <1>6 DEF FailoverInv

\* A pulled bundle passes the epoch fence.
LEMMA VerifyKeeps ==
  ASSUME FailoverInv, NEW n \in Node, Verify(n)
  PROVE  FailoverInv'
<1>0. TypeOK /\ PeerInv /\ StampInv /\ VerifiedInv
  BY DEF FailoverInv
<1>1. UNCHANGED <<leaseVars, links, role, loopVars, addrs, policy, late, data, disk>>
  BY DEF Verify
<1>2. /\ round' \in [Node -> Round] /\ round'[n].at = "verified" /\ round'[n].epoch = round[n].epoch
      /\ round[n].epoch >= token /\ round[n].epoch \in 0..MaxToken
      /\ \A m \in Node \ {n} : round'[m] = round[m]
  <2>1. round[n].epoch \in 0..MaxToken /\ round[n].state \in SUBSET (1..MaxWrites)
    BY <1>0, RoundFacts DEF TypeOK
  <2> DEFINE b == [at |-> "verified", epoch |-> round[n].epoch, state |-> round[n].state]
  <2>2. b \in Round /\ b.at = "verified" /\ b.epoch = round[n].epoch
    BY <2>1, RoundOf
  <2>3. round' = [round EXCEPT ![n] = b] /\ round[n].epoch >= token
    BY DEF Verify, Current
  <2> HIDE DEF b
  <2> QED
    BY <1>0, <2>1, <2>2, <2>3 DEF TypeOK
<1>3. TypeOK'
  BY <1>0, <1>1, <1>2 DEF TypeOK, leaseVars, links, loopVars, addrs, policy, data
<1>4. PeerInv'
  BY <1>0, <1>1, <1>2 DEF PeerInv, TypeOK, leaseVars, links, loopVars, addrs, policy, data
<1>5. StampInv'
  BY <1>0, <1>1, <1>2 DEF StampInv, TypeOK, leaseVars, links, loopVars, addrs, policy, data
<1>6. VerifiedInv'
  BY <1>0, <1>1, <1>2, StampTypes DEF VerifiedInv, StampInv, data
<1> QED
  BY <1>3, <1>4, <1>5, <1>6 DEF FailoverInv

\* A verified bundle is imported.
LEMMA ApplyKeeps ==
  ASSUME FailoverInv, NEW n \in Node, Apply(n)
  PROVE  FailoverInv'
<1>0. TypeOK /\ PeerInv /\ StampInv /\ VerifiedInv
  BY DEF FailoverInv
<1>1. TypeOK'
  BY <1>0, RoundFacts, FailoverAssumption DEF TypeOK, Apply, Import, RoundOver,
     leaseVars, links, loopVars, addrs
<1>2. PeerInv'
  BY <1>0, RoundFacts, FailoverAssumption DEF PeerInv, TypeOK, Apply, Import, RoundOver,
     leaseVars, links, loopVars, addrs
<1>3. StampInv'
  BY <1>0, RoundFacts, FailoverAssumption DEF StampInv, TypeOK, Apply, Import,
     RoundOver, leaseVars, links, loopVars, addrs
<1>4. VerifiedInv'
  BY <1>0, RoundFacts, FailoverAssumption DEF VerifiedInv, TypeOK, Apply, Import,
     RoundOver, leaseVars, links, loopVars, addrs
<1> QED
  BY <1>1, <1>2, <1>3, <1>4 DEF FailoverInv

\* A round ends in a contained panic.
LEMMA RoundPanicsKeeps ==
  ASSUME FailoverInv, NEW n \in Node, RoundPanics(n)
  PROVE  FailoverInv'
<1>0. TypeOK /\ PeerInv /\ StampInv /\ VerifiedInv
  BY DEF FailoverInv
<1>1. UNCHANGED <<leaseVars, links, role, loopVars, addrs, policy, late, disk>>
  BY DEF RoundPanics
<1>2. TypeOK'
  BY <1>0, <1>1, PanicsFacts DEF TypeOK, leaseVars, links, loopVars, addrs, policy
<1>3. PeerInv'
  BY <1>0, <1>1 DEF PeerInv, loopVars, addrs
<1>4. StampInv'
  BY SMTT(30), <1>0, <1>1, PanicsFacts, RoundFacts, StampTypes DEF StampInv, TypeOK, leaseVars
<1>5. VerifiedInv'
  BY <1>0, <1>1, PanicsFacts, RoundFacts DEF VerifiedInv, TypeOK
<1> QED
  BY <1>2, <1>3, <1>4, <1>5 DEF FailoverInv

\* The bundle of a stopped loop is imported.
LEMMA LateApplyKeeps ==
  ASSUME FailoverInv, NEW n \in Node, LateApply(n)
  PROVE  FailoverInv'
<1>0. TypeOK /\ PeerInv /\ StampInv /\ VerifiedInv
  BY DEF FailoverInv
<1>1. TypeOK'
  BY <1>0, RoundFacts DEF TypeOK, LateApply, Import, leaseVars, links, loopVars, addrs
<1>2. PeerInv'
  BY <1>0, RoundFacts DEF PeerInv, TypeOK, LateApply, Import, leaseVars, links,
     loopVars, addrs
<1>3. StampInv'
  BY <1>0, RoundFacts DEF StampInv, TypeOK, LateApply, Import, leaseVars, links,
     loopVars, addrs
<1>4. VerifiedInv'
  BY <1>0, RoundFacts DEF VerifiedInv, TypeOK, LateApply, Import, leaseVars, links,
     loopVars, addrs
<1> QED
  BY <1>1, <1>2, <1>3, <1>4 DEF FailoverInv

\* A failed round; the promotion it may attempt is refused or fails.
LEMMA SyncFailsKeeps ==
  ASSUME FailoverInv, NEW n \in Node, SyncFails(n)
  PROVE  FailoverInv'
<1>0. TypeOK /\ PeerInv /\ StampInv /\ VerifiedInv
  BY DEF FailoverInv
<1>1. /\ round' = [round EXCEPT ![n] = NoRound] /\ round' \in [Node -> Round] /\ NoRound.epoch = 0 /\ NoRound.at = "idle"
      /\ writes' = writes /\ state' \in [Node -> SUBSET (1..MaxWrites)] /\ imported' \in [Node -> 0..MaxToken]
      /\ \/ imported' = imported
         \/ round[n].at = "verified" /\ imported' = [imported EXCEPT ![n] = round[n].epoch]
      /\ fails' \in [Node -> 0..MaxFail]
      /\ UNCHANGED <<role, loopVars, addrs, disk, links, synced, cooling, late>>
  <2>1. RoundFails(n) /\ fails' = [fails EXCEPT ![n] = Streak(n)]
    BY DEF SyncFails
  <2>2. UNCHANGED <<role, loopVars, addrs, disk, links, synced, cooling, late>>
    BY DEF SyncFails, HookFailed
  <2>3. fails' \in [Node -> 0..MaxFail]
    BY <1>0, <2>1, StreakType DEF TypeOK
  <2> QED
    BY <1>0, <2>1, <2>2, <2>3, FailsFacts, RoundFacts
<1>2. /\ owner' \in MaybeNode /\ token' \in 0..MaxToken /\ epoch' \in [Node -> 0..MaxToken]
      /\ token' >= token /\ \A m \in Node : epoch'[m] <= token'
  <2>1. CASE UNCHANGED leaseVars
    BY <1>0, <2>1 DEF leaseVars, TypeOK, StampInv
  <2>2. CASE Free(n) /\ Take(n)
    BY <1>0, <2>2, TakeFacts DEF TypeOK, StampInv
  <2> QED
    BY <2>1, <2>2 DEF SyncFails, MayAutoPromote, HookFailed
<1>3. TypeOK'
  BY <1>0, <1>1, <1>2 DEF TypeOK, leaseVars, links, loopVars, addrs
<1>4. PeerInv'
  BY <1>0, <1>1, <1>2 DEF PeerInv, TypeOK, leaseVars, links, loopVars, addrs
<1>5. StampInv'
  BY <1>0, <1>1, <1>2, StampTypes DEF StampInv, TypeOK
<1>6. VerifiedInv'
  BY <1>0, <1>1, <1>2 DEF VerifiedInv, TypeOK, leaseVars, links, loopVars, addrs
<1> QED
  BY <1>3, <1>4, <1>5, <1>6 DEF FailoverInv

\* A failed round at the threshold that promotes its node.
LEMMA AutoPromoteKeeps ==
  ASSUME FailoverInv, NEW n \in Node, AutoPromote(n)
  PROVE  FailoverInv'
<1>0. TypeOK /\ PeerInv /\ StampInv /\ VerifiedInv
  BY DEF FailoverInv
<1>1. /\ round' = [round EXCEPT ![n] = NoRound] /\ round' \in [Node -> Round] /\ NoRound.epoch = 0 /\ NoRound.at = "idle"
      /\ writes' = writes /\ state' \in [Node -> SUBSET (1..MaxWrites)] /\ imported' \in [Node -> 0..MaxToken]
      /\ \/ imported' = imported
         \/ round[n].at = "verified" /\ imported' = [imported EXCEPT ![n] = round[n].epoch]
      /\ fails' \in [Node -> 0..MaxFail]
      /\ UNCHANGED <<links, synced, cooling, late>>
  <2>1. RoundFails(n) /\ fails' = [fails EXCEPT ![n] = MaxFail] /\ UNCHANGED <<links, synced, cooling, late>>
    BY DEF AutoPromote
  <2>2. MaxFail \in 0..MaxFail
    BY FailoverAssumption
  <2>3. fails' \in [Node -> 0..MaxFail]
    BY <1>0, <2>1, <2>2 DEF TypeOK
  <2> QED
    BY <1>0, <2>1, <2>3, FailsFacts, RoundFacts
<1>2. /\ owner' = n /\ token' = token + 1 /\ token' \in 0..MaxToken
      /\ epoch' = [epoch EXCEPT ![n] = token + 1] /\ epoch' \in [Node -> 0..MaxToken]
      /\ role' = [role EXCEPT ![n] = "leader"] /\ role' \in [Node -> {"down", "none", "leader", "standby"}]
      /\ syncing' = syncing \ {n} /\ serving' \subseteq Node /\ disk' \in [Node -> Config]
      /\ UNCHANGED <<recovering, hook, addrs>> /\ peer[n] \in Node
  <2>1. peer[n] \in Node
    BY <1>0 DEF AutoPromote, PeerInv
  <2> QED
    BY <1>0, <2>1, PromotedFacts DEF AutoPromote, MayAutoPromote
<1>3. TypeOK'
  BY <1>0, <1>1, <1>2 DEF TypeOK, links, addrs
<1>4. PeerInv'
  BY <1>0, <1>1, <1>2 DEF PeerInv, TypeOK, links, addrs
<1>5. StampInv'
  BY <1>0, <1>1, <1>2, StampTypes DEF StampInv, TypeOK
<1>6. VerifiedInv'
  BY <1>0, <1>1, <1>2 DEF VerifiedInv, TypeOK, links
<1> QED
  BY <1>3, <1>4, <1>5, <1>6 DEF FailoverInv

\* An operator promotes a standby; a verified round outlives its loop.
LEMMA PromoteManuallyKeeps ==
  ASSUME FailoverInv, NEW n \in Node, PromoteManually(n)
  PROVE  FailoverInv'
<1>0. TypeOK /\ PeerInv /\ StampInv /\ VerifiedInv
  BY DEF FailoverInv
<1>1. /\ owner' = n /\ token' = token + 1 /\ token' \in 0..MaxToken
      /\ epoch' = [epoch EXCEPT ![n] = token + 1] /\ epoch' \in [Node -> 0..MaxToken]
      /\ role' \in [Node -> {"down", "none", "leader", "standby"}]
      /\ \A m \in Node \ {n} : role'[m] = role[m]
      /\ role'[n] \in {"leader", "standby"} /\ peer[n] \in Node
      /\ syncing' \subseteq syncing /\ serving' \subseteq Node /\ disk' \in [Node -> Config]
      /\ UNCHANGED <<recovering, hook, addrs, links, policy, data>>
  <2>1. peer[n] \in Node /\ Free(n) /\ role[n] = "standby" /\ UNCHANGED <<links, policy, data>>
    BY <1>0 DEF PromoteManually, PeerInv
  <2>2. CASE Promoted(n)
    BY <1>0, <2>1, <2>2, PromotedFacts DEF TypeOK
  <2>3. CASE HookFailed(n)
    BY <1>0, <2>1, <2>3, TakeFacts DEF TypeOK, HookFailed, loopVars
  <2> QED
    BY <2>2, <2>3 DEF PromoteManually
<1>2. /\ round' \in [Node -> Round] /\ late' \in [Node -> Round]
      /\ \A m \in Node : /\ late'[m] = late[m] \/ late'[m] = round[m]
                         /\ \/ round'[m] = round[m] /\ late'[m] = late[m]
                            \/ round'[m] = NoRound
  <2>1. CASE UNCHANGED rounds
    BY <1>0, <2>1 DEF TypeOK, rounds
  <2>2. CASE /\ round' = [round EXCEPT ![n] = NoRound]
             /\ late' = [late EXCEPT ![n] = IF round[n].at = "verified" THEN round[n] ELSE late[n]]
    <3> DEFINE b == IF round[n].at = "verified" THEN round[n] ELSE late[n]
    <3>1. b \in Round /\ (b = round[n] \/ b = late[n]) /\ late' = [late EXCEPT ![n] = b]
      BY <1>0, <2>2 DEF TypeOK
    <3> HIDE DEF b
    <3> QED
      BY <1>0, <2>2, <3>1, RoundFacts DEF TypeOK
  <2> QED
    BY <2>1, <2>2 DEF PromoteManually, RoundOver
<1>3. TypeOK'
  BY <1>0, <1>1, <1>2, RoundFacts DEF TypeOK, links, addrs, policy, rounds, data
<1>4. PeerInv'
  BY <1>0, <1>1, <1>2, RoundFacts DEF PeerInv, TypeOK, links, addrs, policy, rounds, data
<1>5. StampInv'
  <2>1. token \in Nat /\ token' = token + 1 /\ imported' = imported /\ epoch \in [Node -> 0..MaxToken]
    BY <1>0, <1>1, FailoverAssumption DEF TypeOK, data
  <2> SUFFICES ASSUME NEW m \in Node
               PROVE  /\ epoch'[m] <= token' /\ round'[m].epoch <= token'
                      /\ late'[m].epoch <= token' /\ imported'[m] <= token'
    BY DEF StampInv
  <2>2. /\ epoch[m] \in Int /\ round[m].epoch \in Int /\ late[m].epoch \in Int /\ imported[m] \in Int
        /\ epoch[m] <= token /\ round[m].epoch <= token /\ late[m].epoch <= token /\ imported[m] <= token
    BY <1>0, StampTypes DEF StampInv
  <2>3. epoch'[m] = epoch[m] \/ epoch'[m] = token + 1
    BY <1>1, <2>1
  <2>4. round'[m].epoch = 0 \/ round'[m].epoch = round[m].epoch
    BY <1>2, RoundFacts
  <2>5. late'[m].epoch = late[m].epoch \/ late'[m].epoch = round[m].epoch
    BY <1>2
  <2> QED
    BY <2>1, <2>2, <2>3, <2>4, <2>5
<1>6. VerifiedInv'
  BY <1>0, <1>1, <1>2, RoundFacts DEF VerifiedInv, TypeOK, links, policy, rounds, data
<1> QED
  BY <1>3, <1>4, <1>5, <1>6 DEF FailoverInv

-----------------------------------------------------------------------------
(* The theorems.                                                           *)

\* The invariant holds where HA has just been enabled.
LEMMA FailoverInit ==
  ASSUME Init
  PROVE  FailoverInv
<1>0. /\ NoRound \in Round /\ NoRound.at = "idle" /\ NoRound.epoch = 0
      /\ First \in Node /\ 1 \in 0..MaxToken /\ 0 \in 0..MaxToken /\ 0 \in 0..MaxFail
      /\ 0 \in 0..MaxWrites
  BY RoundFacts, FailoverAssumption
<1>1. TypeOK
  <2>1. disk \in [Node -> Config]
    BY <1>0, ConfigFacts DEF Init
  <2> QED
    BY <1>0, <2>1 DEF Init, TypeOK
<1>2. PeerInv
  BY <1>0 DEF Init, PeerInv
<1>3. StampInv
  BY <1>0 DEF Init, StampInv
<1>4. VerifiedInv
  BY <1>0 DEF Init, VerifiedInv
<1> QED
  BY <1>1, <1>2, <1>3, <1>4 DEF FailoverInv

\* A step that changes nothing preserves the invariant.
LEMMA StutterKeeps ==
  ASSUME FailoverInv, UNCHANGED vars
  PROVE  FailoverInv'
BY DEF FailoverInv, TypeOK, PeerInv, StampInv, VerifiedInv, vars

\* Every step preserves the invariant.
LEMMA FailoverNext ==
  ASSUME FailoverInv, [Next]_vars
  PROVE  FailoverInv'
<1>1. CASE UNCHANGED vars
  BY <1>1, StutterKeeps
<1>2. CASE Expire \/ ToggleLink
  BY <1>2, ExpireKeeps, ToggleLinkKeeps
<1>3. ASSUME NEW n \in Node, Environment(n) \/ CoolDown(n) \/ Boot(n)
      PROVE  FailoverInv'
  BY <1>3, LoseEtcdKeeps, RegainEtcdKeeps, GoStaleKeeps, CrashKeeps, CoolDownKeeps,
     BootKeeps
  DEF Environment
<1>4. ASSUME NEW n \in Node, Lead(n)
      PROVE  FailoverInv'
  BY <1>4, ResumeGrantedKeeps, ResumeForeignKeeps, ResumeGiveUpKeeps, SelfFenceKeeps,
     RecoverGrantedKeeps, RecoverForeignKeeps DEF Lead
<1>5. ASSUME NEW n \in Node, Standby(n)
      PROVE  FailoverInv'
  BY <1>5, PullKeeps, VerifyKeeps, ApplyKeeps, SyncFailsKeeps, RoundPanicsKeeps,
     AutoPromoteKeeps, LateApplyKeeps DEF Standby
<1>6. ASSUME NEW n \in Node, ClusterWrite(n) \/ PromoteManually(n)
      PROVE  FailoverInv'
  BY <1>6, ClusterWriteKeeps, PromoteManuallyKeeps
<1> QED
  BY <1>1, <1>2, <1>3, <1>4, <1>5, <1>6 DEF Next

\* The invariant holds throughout.
LEMMA FailoverInvariant == Spec => []FailoverInv
<1>1. Init => FailoverInv
  BY FailoverInit
<1>2. FailoverInv /\ [Next]_vars => FailoverInv'
  BY FailoverNext
<1> QED
  BY <1>1, <1>2, PTL DEF Spec

\* Every variable keeps its type; in particular ha_config.json always names a
\* role and a peer to start from, whichever of promote, selfFence, recovery and
\* HASync wrote it last.
THEOREM FailoverTypeCorrect == Spec => []TypeOK
<1>1. FailoverInv => TypeOK
  BY DEF FailoverInv
<1> QED
  BY <1>1, FailoverInvariant, PTL

\* Only Apply, a failed or panicked round and LateApply import; the last one ends
\* a late round and the others import a bundle that passed the fence.
LEMMA ImportStep ==
  ASSUME FailoverInv, [Next]_vars, NEW n \in Node, late'[n] = late[n]
  PROVE  imported'[n] >= imported[n]
<1>0. /\ TypeOK /\ VerifiedInv /\ imported \in [Node -> 0..MaxToken]
      /\ imported[n] \in Int /\ round[n].epoch \in Int
      /\ round[n].at = "verified" => round[n].epoch >= imported[n]
  BY StampTypes DEF FailoverInv, TypeOK, VerifiedInv
<1>1. CASE imported' = imported
  BY <1>0, <1>1
<1>2. CASE \E m \in Node : round[m].at = "verified" /\ imported' = [imported EXCEPT ![m] = round[m].epoch]
  BY <1>0, <1>2
<1>3. ASSUME NEW m \in Node, LateApply(m)
      PROVE  imported'[n] >= imported[n]
  <2>1. CASE m = n
    BY <1>0, <1>3, <2>1, RoundFacts DEF LateApply, TypeOK
  <2>2. CASE m # n
    BY <1>0, <1>3, <2>2 DEF LateApply, Import
  <2> QED
    BY <2>1, <2>2
<1>4. ASSUME NEW m \in Node, RoundFails(m)
      PROVE  \/ imported' = imported
             \/ round[m].at = "verified" /\ imported' = [imported EXCEPT ![m] = round[m].epoch]
  BY <1>0, <1>4, FailsFacts
<1>5. CASE UNCHANGED vars \/ Expire \/ ToggleLink
  BY <1>5, <1>1 DEF vars, Expire, ToggleLink, data
<1>6. ASSUME NEW m \in Node, Environment(m) \/ CoolDown(m) \/ Boot(m) \/ Lead(m)
                             \/ ClusterWrite(m) \/ PromoteManually(m)
      PROVE  imported' = imported
  BY <1>6 DEF Environment, LoseEtcd, RegainEtcd, GoStale, Crash, CoolDown, Boot, Lead,
     ResumeGranted, ResumeForeign, ResumeGiveUp, SelfFence, RecoverGranted, RecoverForeign,
     ClusterWrite, PromoteManually, data
<1>7. ASSUME NEW m \in Node, Pull(m) \/ Verify(m)
      PROVE  imported' = imported
  BY <1>7 DEF Pull, Verify, data
<1>9. ASSUME NEW m \in Node, RoundPanics(m)
      PROVE  imported'[n] >= imported[n]
  BY <1>0, <1>9, <1>1, <1>2, PanicsFacts
<1>8. ASSUME NEW m \in Node, Apply(m) \/ SyncFails(m) \/ AutoPromote(m)
      PROVE  imported'[n] >= imported[n]
  BY <1>8, <1>1, <1>2, <1>4 DEF Apply, SyncFails, AutoPromote, Import
<1> QED
  BY <1>1, <1>3, <1>5, <1>6, <1>7, <1>8, <1>9 DEF Next, Standby

\* A sync loop never replaces an imported state by one stamped with an older
\* epoch, across any number of restarts, failovers, zombies and failed rounds.
THEOREM ImportsNeverGoBack == Spec => ImportsAdvance
<1>1. FailoverInv /\ [Next]_vars
        => [\A n \in Node : late'[n] = late[n] => imported'[n] >= imported[n]]_vars
  BY ImportStep
<1> QED
  BY <1>1, FailoverInvariant, PTL DEF Spec, ImportsAdvance
=============================================================================
