# Culvert: a TLA+ verification of its control plane

Culvert is a secure web gateway: a proxy data plane, and a Control Plane (CP)
that owns configuration, node enrolment and the cluster CA and distributes
them to Data Planes (DP). CPs run as a two-node HA pair. This project models
the parts of the program in which several processes, goroutines, external
services and persisted files must agree: who leads and who may write, what the
standby holds, which configuration a Data Plane enforces, which policy is in
force, which certificate is a node's, and what is left of all that after
crashes, partitions and late answers.

Files: `HALease`, `HAFailover`, `ConfigSync` (the pair and its Data Plane),
`HALoops`, `ConnLimit`, `SaaSFeed`, `PolicyDraft`, `NodeIdentity` (parts of one
node), `MaintUpgrade` and `MaintOps` (the maintenance agent on a host),
`FencedLease` (the abstract specification of the lease), `HALeaseProofs`,
`HAFailoverProofs`, `ConfigSyncProofs`, `LoopsConnProofs`, `FeedDraftProofs`,
`NodeIdentityProofs`, `MaintUpgradeProofs` and `MaintOpsProofs` (theorems),
`MCConfigSync`, `MCServices` and `MCMaint` (instances), one `.cfg` per run, and
`PROJECT.json` (runs, mutants, source map, findings, hazards, theorems).

## 1. Inventory

### 1.1 Components

| Component | Source | State it keeps | Operations |
|---|---|---|---|
| Fencing lease backend | `internal/halease` | etcd key: holder, create revision (the epoch), TTL | Acquire (Grant + Txn), Renew (KeepAliveOnce + Get), Read, expiry |
| HA leadership | `ha.go`, `ha_lease.go`, `ha_lease_recovery.go` | role, lease epoch and confirmation time, promote guard and context, three loops, `ha_config.json` | enable, promote, keepalive, self-fence, resume, recovery, boot |
| Write fence | `ha_fencing.go` | none of its own: role, epoch, window | `haIssuanceAllowed`, `verifyBundleEpoch`, DP epoch ratchet |
| Standby replication | `ha.go`, `controlplane_server.go` | sync loop, failure streak, peer and failback address | HASync, verify, import |
| Failover policy | `ha_failover.go` | last sync, last self-fence | automatic promotion, failback resync, resume budgets |
| Cluster start-up | `cluster_startup.go`, `main.go` | command line, gRPC server | `loadCluster`, `enableControlPlane` |
| Legacy HA (no lease) | `ha.go` | term | flag-gated promotion |
| Config distribution | `controlplane_snapshot.go`, `_delta.go`, `_client.go` | config version and its floor file, published snapshot, delta ring; on the DP version, blocklist, fingerprint, last-seen epoch, last-good file | publish, GetConfigDelta, GetConfig, apply, ratchet, failover |
| HA goroutines and shutdown | `ha*.go`, `main_shutdown.go` | three stop channels, the promote guard, the stop latch | start and stop of loops, promote, self-fence, resync, recovery, Stop |
| Connection limiter | `internal/connlimit` | per-IP counters in sharded maps | Acquire, Release, Enable, Disable |
| Signed SaaS feed | `saas_feed_*.go` | two floor records, activation record, generations, live view, ETag | refresh, activate, rebuild for overrides, recover |
| Policy draft | `policy_draft.go`, `policy_mutation.go`, `policy.go` | running and candidate rulebase with versions, draft base, three files | edit, stage, commit, revert, rollback, mode |
| Node identity | `enrollment.go`, `controlplane_server.go`, `dp_enrollment.go` | tokens, registered serial and status, CRL; cert and key files on the DP | Enroll, RenewCert, heartbeat, revoke, expiry |
| Maintenance agent | `cmd/culvert-maint` | operation table, maintenance lock, keys, read-only slots; the journal on disk; the pinned tag and the running image of Docker | upgrade, inline and standalone rollback, data rollback, restore, shutdown, crash and restart, reconcile decision |
| Everything else | see `PROJECT.json` | | not modelled |

### 1.2 How they interact

* A CP process calls the lease backend over the network; the backend starts a
  lease's TTL when it serves a call, the client starts its validity window
  when it handles the answer.
* The standby pulls HASync bundles from the address it was given. The leader
  learns the standby's address from the request and persists it: it is where
  the leader will resync from should it lose the lease.
* The lease is asked by six paths: enable, automatic and manual promotion,
  resume, recovery, keepalive. They share `HAState` under one mutex but make
  their RPCs, and several of their file writes, outside it.
* On boot, the persisted role (or `--ha-join`) chooses the path, and the gRPC
  server starts before a resuming leader has decided its role.
* Nothing is released on shutdown: a stopped leader's key runs out.
* A DP polls its CP for configuration and reports heartbeats on a second
  goroutine; both read and raise the last-seen epoch. The CP's admin handlers
  publish on their own goroutines.
* A rollback or import writes the running policy past the locks that drafts,
  commits and edits share.
* The maintenance agent is a separate process on the host. It drives Docker by
  commands, one state-changing operation at a time, and writes ahead to its
  journal what a restart would have to know.
* The signed feed's coordinator serialises activations; override edits,
  refreshes and start-up call into it from elsewhere.

### 1.3 What is hard, and what correct means

* *Concurrency and time*: windows measured by two clocks, an acquire that
  commits although the caller saw an error, rounds that outlive their loop.
  Correct: one writer, an epoch that only grows, a write window inside the
  key's life.
* *Crashes*: restart within the TTL, restart with stale files or flags.
  Correct: what was decided is what is persisted; leadership comes back.
* *Partial failure*: a contained panic, a promotion hook that fails after the
  lease was taken, an import that stops half-way. Correct: a grant always has
  its keepalive, a standby never stops monitoring.
* *Liveness*: the gates that keep a stale node from leading must not keep
  everybody from leading. Correct: after faults stop, there is a writer; a DP
  of a settled leader gets its configuration; a signed feed version arrives;
  Stop returns.
* *Several stores that must move together*: blocklist and rest of a
  configuration, two floor replicas and an activation record, rules and `.meta`
  and draft file, CP registration and DP certificate. Correct: every cut between
  two writes leaves something a restart can read, and no counter or token
  vouches for content it was not issued for.

The `hazards` list in `PROJECT.json` gives each of these at its line, with the
properties that cover it or a note on why none does yet.

## 2. Modules

### 2.1 HALease

Leadership under the lease at the grain of single backend requests. The
correspondence of state:

| Variable | Code |
|---|---|
| `key`, `rev` | the etcd key with its remaining TTL, and the last revision |
| `role` | `HAState.role`; `"none"` is the empty role, `"down"` no process |
| `keepalive`, `recovering` | non-nil `leaseStopCh`, `leaseRecoveryCh` |
| `promoted`, `pcSet` | the once-guard and `pc.set` |
| `standbyAddr` | the recorded failback target |
| `lease` | `leaseEpoch` and the age of `leaseConfirmedAt` |
| `call` | the Acquire call or promotion a process is in, how far it got, and its age |
| `renew` | the keepalive round under way: its Renew call, the epoch it read at its start, whether its loop was stopped meanwhile |
| `fencing` | what a `selfFence` that released the lock has still to do: re-arm the guard, resync |
| `overtaken` | history: a promotion began on the node before a `selfFence` had ended |
| `disk`, `resumeSave` | `ha_config.json`, and the save ResumeAsLeader still owes |

A lease call has the steps `Send`, `EtcdGrant` and `EtcdTxn` (or
`EtcdKeepAlive` and `EtcdVerify`), and an outcome action of the caller. A
caller may fail at any point (`Failed`), with or without the backend having
committed, and with or without the best-effort revoke. `Tick` advances time:
`key.left` falls, the ages of windows and answers rise up to TTL, beyond which
nothing tells them apart. An expired key disappears now or later. Steps the
code performs after an unlock are separate where another actor can come in
between: `PromoteCommit`/`PromoteSave`, `AssumeLeader`/`ResumeSave`, and the
three parts of `selfFence` (`Demote` under the lock, `Rearm`, `Resync`). A
keepalive round and an Acquire of the same process overlap, so a promotion can
come between any two of these, and a round can end after a promotion has
installed another grant. A round reads its window at its start: `OlderGrant`
says that it may then fence on the window of the grant before.

Not followed: a second Acquire or a second Renew of one process at the same
time (the tail of a fence and the fence of a newer loop are merged into one
`fencing`); the backend client's own copy of lease ID and epoch, for which
`HoldsKey` stands; and the save of `StartAsStandby`, which follows its unlock,
is part of it.

The retry budgets of `acquireLeaseForResume` (45 s and 5 s) and the back-off of
the recovery loop are abstracted to "asked again or given up at any time".
`Promote` may be attempted at any moment, which is `PromoteManually`.

### 2.2 FencedLease

What the lease promises: one owner, a token that grows with every grant, and
write authority wielded only under the current token and always given up
before the lease changes hands. `HALease!Fence` instantiates it with the key's
holder as owner, `rev` as token, and as `wield` the epoch of a node whose write
sinks are open.

### 2.3 HAFailover

Replication and failover on top of the lease, which is used through what
`FencedLease` promises: an acquire is one step. A sync round has the steps
`Pull` (HASync on the peer, which records the caller), `Verify`
(`verifyBundleEpoch`) and `Apply`, and fails at any of them. The cluster state
of a node is the set of the writes it contains. Times are reduced to what the
policy asks: `synced` is never/fresh/stale, `cooling` the re-promotion
cooldown. `hook` is the `onPromote` of the promote context: the one of a booted
standby starts the Control Plane, the one of a resyncing ex-leader does
nothing. A round whose loop was stopped by a manual promotion is kept in
`late`; one per node is tracked, and a round not yet verified at that point is
dropped, as its bundle is older than the grant. `imported` is a history
variable: the epoch of the last import.

A round that panics after the import leaves the imported state behind
(`RoundPanics`). `Flaky` are the nodes that can lose the lease backend.

Differences to `HALease`: a process is either granted or not (no ambiguous
commit), `selfFence` is one step and happens when the key is lost or etcd is out
of reach, and the resume save is part of the resume. `HALease` and `HALoops`
cover those.

### 2.4 ConfigSync

Configuration distribution to one DP. A configuration is its blocklist plus
the identity of the snapshot its other settings came from (`dp.hosts`,
`dp.rest`); a fingerprint is the set of hosts it was computed from.

| Variable | Code |
|---|---|
| `holder`, `token` | the lease, as `FencedLease` promises it |
| `cp` | per CP: role, epoch, `ConfigStore.version` (`ver`) and snapshot, the live blocklist, the delta ring, publishes in flight, the replicated version and epoch, the remainder cache |
| `saved` | the role in `ha_config.json` |
| `dp`, `poll`, `beat` | the DP process, its config poll, its heartbeat loop |
| `disk` | `dp_last_seen_epoch.json` and the last-good snapshot |
| `left`, `top` | the scenario, with its remaining events; the highest version so far |
| `coherent` | auxiliary: no clock was set back, and every ring's deltas have composed so far |

A publish has three steps: `Build` (`CurrentConfigSnapshot`), `Commit` (Update
under its lock) and `Record` (the ring, after the lock). A poll has the steps
of `fetchAndApply`: the delta call (`PollStart`, `DeltaRemainder`), its
application, or the full call (`FullReply`) and its application; the heartbeat
raises the epoch between any two of them (`Beat`, `BeatSave`).

`ApplyHosts` and `Toggle` say in closed form what `Blocklist.ApplyDelta` does
over a whole chain: the last entry that names a host decides whether it is
blocked, and the fingerprint toggles with every entry that names it. That the
code's entry-by-entry application comes to the same is the assumption
`ChainsFold` of `MCConfigSync`, which TLC evaluates for all chains of up to three
entries over two hosts. `coherent` is read by the properties and guards no step;
section 3.3 says how it is lost and what the code does then. The cache of
marshalled snapshots (`controlplane_server.go:238`) is not a variable: it is
keyed on the version, and a seed, which is the clock's or above, keeps versions
apart, so that one stands for one snapshot unless a clock is set back
(`Scenario`'s clock fault; nothing is promised of the lists then).

### 2.5 The parts of one node

`MCServices` puts five modules that share no state into one run: a behaviour
picks one (`part`) and leaves the others' variables alone.

* `HALoops`: goroutines at the grain of `HAState`'s critical sections, which
  `HALease` and `HAFailover` take as single steps. `thr` is a goroutine with
  its position and whether its stop channel is closed, `ch` the three channel
  fields, `stop` the progress of `Stop`. A recovery loop drops its own handle
  as it returns (`Handles`). `Promote` tests the closed channel together with
  the compare-and-swap of the guard, which the code does right before it.
* `ConnLimit`: one client IP. Counters are objects that callers keep after the
  map has dropped them; `Release` has the three steps of the code.
* `SaaSFeed`: `job` is the activation coordinator with its stage, `file` the
  three records, `gen` the generation directories. Every write can fail with
  the old or the new content, or be cut by a crash.
* `PolicyDraft`: `run` and `cand` are the two stores, `write` the operation
  under the coordinator lock, cut at its file writes; `rolling` is a rollback,
  which takes no lock; `tails` are the steps after the unlock. The writes of
  `.meta` and the removal of the draft file may fail, and nobody looks
  (`Ignored`).
* `NodeIdentity`: one node ID, claimed by several hosts. `registry` is the
  `ClusterStore`, `rpc` a call between verification, change, save and reply. A
  call may be refused after its token is consumed (`SignRefused`), and a host
  may fail to install what it got, or refuse it for its epoch (`InstallFails`).

History variables (`overtaken`, `cut`, `outside`, `odd`, `barred`, `crossed`,
`cutoff`, `minted`, `peak`) record what the properties speak about and guard no
step, but for one: `HALoops` does not follow a behaviour into a further
promotion after an overtaken one.

### 2.6 The maintenance agent

`MaintUpgrade` has one action per stage of the upgrade, rollback and restore
flows; `docker tag` and `docker compose up`, one stage in the code, are two
actions, as a crash can come between them. A failing `docker tag` may have moved
the tag (it was killed, or its answer was lost), which the comment at
`rollback_stages.go:40` leaves out; a stage that panics ends its operation
without recovery stages (`StagePanics`).

| Variable | Code |
|---|---|
| `docker` | the pinned tag, the image the proxy container runs, the registry digests known of each image |
| `journal` | the record of each operation under `reconcile/` |
| `op` | the operation in flight: its stage, `upgradeApplyAccumulator`, the context's deadline (`late`) |
| `retire` | operations that have released the lock and whose record is still to be removed |
| `hist`, `gated`, `mover` | history: outcomes, images that passed a gate, the operation that advanced the tag |
| `luck` | what the scenario still allows to go wrong |

An image has one config digest and two registry digests (manifest list and
platform), the distinction on which the journal's identifiers and the decision
function turn. `Verdict` is `reconcileDecision` over the record and what a boot
can read of Docker; the program computes verdicts nowhere yet, and the
properties are about what it would decide. What a boot reads is therefore an
assumption (`BootCaptures`): the registry digests of the running image may be
missing, the tag's are read in full. Were they missing too, `reconcileDecision`
would answer "noop" with the prior live (`reconcile_decision.go:160`). The
attempt bound of the decision is disabled, as nothing counts attempts.

`MaintOps` takes what an operation does as given and models who may begin one:
`mgr` is `ops.Manager`, `handler` a request between `HasLiveIdempotent`,
`BeginIdempotent`, the building of its stages and the start of its goroutine,
`opSem` the read-only slots, `server` the stages of `Serve`'s shutdown. `MCMaint`
puts the two into one run the way `MCServices` does (`side`). A
critical section of `Manager.mu` is one step. State-changing operations are
journaled ones; backup, cleanup and restore share the lock but have no record,
so `NoSilentCut` says nothing of them. A listener that fails drains without
waiting for its handlers (`ListenerFails`). `Boot` is a start that serves: one
that finds its journal unreadable refuses, which is to stay down.

### 2.7 Mutants

Operators commented `Fault:`, `Faults:` or `Mutant:` state a plausible defect
next to the definition they would replace. They are not used by the
specification; each shows that one property notices the defect.

## 3. Runs

Passing:

| Run | Checks | States | Shows |
|---|---|---|---|
| `lease` | `TypeOK`, `AtMostOneWriter`, `GrantAttended`, `FenceInv`, `EpochsAdvance`, `ImplementsFence` | 3.5 million | no split brain, monotonic fencing epochs, no grant left unattended on a leader, also while promotions and fences overlap, and the refinement of `FencedLease`, with delays within the margin |
| `failover` | `TypeOK`, `ImportsAdvance`, `LeadershipReturnsUnlessStranded` | 435 thousand | crashes, partitions, staleness, failing `onPromote`, a leader without etcd: a sync loop never imports an older epoch than the last one, and after any of it, a grant wasted by a failing `onPromote` included, leadership comes back unless the pair has no candidate |
| `failover_live` | `LeadershipReturns`, `ReplicaCatchesUp` | 260 thousand | with etcd up, leadership returns after any crashes and partitions, and the standby converges |
| `config_sync` | `TypeOK`, `LastGoodWhole`, `DriftCovered`, `InstallsFenced`, `ConfigArrives` | 841 thousand | publishes that overlap, lost calls, refused profiles, a crash and a hand-over: while the rings are coherent what is saved is one snapshot, and what half-applied deltas left behind is named, and so settled, by every chain to come; a later lease's configuration is never replaced by an earlier one's, and a settled leader's arrives |
| `services` | `ServicesTypeOK` and the properties below | 1.3 million | five parts of a node |
| `maint` | `AgentTypeOK`, `TagGuarded`, `DanglingTagSeen`, `OutcomeHonest`, `LockAttended`, `KeyedOnce`, `SlotsAccounted`, `NoSilentCut` | 4.7 million | an unfinished upgrade that moved the tag always has its record, whatever fails or crashes, and the verdict never overlooks a tag left at an ungated image; what is reported is what runs; one state-changing operation at a time, always with somebody to end it; a key buys one execution within its TTL, also when the table is reaped or full; no slot leaks; a patient shutdown cuts no operation off, and one cut off otherwise has its record |

The properties of `services` by part:

| Part | Properties | Shows |
|---|---|---|
| `HALoops` | `OnlyLeaderRenews`, `PromoteGuardFree`, `StopReturns` | whatever promotions, fences, recoveries and Stop interleave, no standby renews the lease, the promote guard comes free and Stop returns; one race is excepted (3.3) |
| `ConnLimit` | `CountsOnlyLive`, `CountedUnlessCut` | no count outlives its connection, and counts are exact but for one order of steps (3.3) |
| `SaaSFeed` | `FloorProvesServed`, `NoFeedRollback`, `OverridesSettle`, `FeedArrives` | two crashes, or a failing write with a damaged record and a crash, neither roll the feed back nor lose an override nor stall it |
| `PolicyDraft` | `TokensHonest`, `NoClobber`, `AckedDurable` | version tokens, the staleness test of a commit and the files stay right through failing writes, undone edits, retirements and rollbacks, with the exceptions of 3.3 |
| `NodeIdentity` | `TokenOnce`, `RevocationHolds`, `RegisteredIsHeld` | a token buys one certificate, an acknowledged revocation survives restarts and late saves, and the registered certificate is one a host holds, with the exceptions of 3.3 |

Expected violations, each a statement of the repository the code does not
meet (quoted in `findings`):

| Run | Statement | What happens |
|---|---|---|
| `lease_lag` | split brain is "structurally impossible" | the window is stamped when the answer is handled; the operation timeout (5 s) exceeds the write margin (1 s) |
| `lease_boot` | only the lease holder accepts cluster writes | the gRPC server runs with an empty role, for which the gate is open |
| `lease_demotion` | a demotion is persisted | the last save of ResumeAsLeader overwrites it |
| `failover_repromote` | a promotion after a self-fence is legitimate | `enableControlPlane` refuses the node each time, after the lease was taken |
| `config_versions` | a promoted CP publishes above what DPs have seen | on a failback the ex-leader's counter, never seeded again, is behind the version its successor published |
| `maint_late` | after the end of an operation nothing is left to reconcile | the deadline that cuts `compose up` fails the inline rollback too, at its first command; the record goes, tag and stack stay at the ungated image. The run starts from a stack whose image has a reference to go back to |

### 3.1 Bounds

All runs use the pair the code supports, two nodes. They are not symmetric:
one carries `--ha-join`, or is the one HA was enabled on.

* `TTL = 3`, `Margin = 1`: a window of two units, so that an age can be inside
  the window, between window and key, or past both. `MaxLag = 1` is the largest
  delay for which the window cannot outlast the key (`MaxLag <= Margin`);
  `lease_lag` takes 2.
* `MaxRev = 4` grants in `lease`, so that a promotion that overtakes a fence can
  itself be followed by a hand-over (3 in the violations, which need fewer).
* `MaxToken = 3`. In `failover` and `failover_live` the first grant is there at
  the start, so two losses of leadership are followed by a new grant: one that a
  failing `onPromote` wastes, and one that must then give the pair a writer.
  Liveness excuses a behaviour only where the bound itself stands in the way:
  all grants used up and the key free (`Exhausted`).
* `Flaky = {n1}` in `failover`: the first leader can lose etcd and self-fence,
  the standby cannot. With both flaky the graph has 4.7 million states, too
  many for liveness; outages of both are in `failover_repromote`, and in the
  proof of `ImportsAdvance`. In `failover_live` nobody is.
* `MaxFail = 2` for the code's 3: one counted failure below the threshold. The
  specification asks for at least 2, as the first round of a loop never
  promotes.
* `MaxWrites`: 1 where the content matters (`failover_live`), else 0.
* `Faults` selects further faults of `HAFailover`: `"hook"`, `"age"`. Crashes,
  restarts, partitions of the pair and import errors always happen.

* `ConfigSync`: one host (in or out of the blocklist), a ring of two entries so
  that it is trimmed, three publishes. The scenarios of `MCConfigSync` separate
  what multiplies: a node that crashes once and whose profiles may be refused;
  one that regains its lease as well; two publishes in flight with lost calls; a
  pair whose second node overtakes the first at its start; a pair that hands
  leadership over. Lists are empty in the two scenarios with a second grant,
  which are about epochs and arrival. Three grants for the failback.
* `HALoops`: five goroutine slots (three loops, and two that have been told to
  stop), one concurrent operator request.
* `ConnLimit`: three connections are needed for one Release to hold a counter
  that two others drop and replace; limits 1 and 2.
* `SaaSFeed`: three versions, `Attempts = 3` as in the code; scenarios with two
  crashes, with three override edits, and with one fault of each kind.
* `PolicyDraft`: two contents, versions up to 3 at the start of an operation (an
  operation adds at most three); a rollback, a crash and a failing write in
  pairs.
* `NodeIdentity`: two hosts, two tokens, two certificates; a crash, a failing
  save or a lost reply.
* `MaintUpgrade`: the seed and two further images (interchangeable, hence the
  symmetry), two operations: an upgrade after a cut one, a rollback after an
  upgrade. The scenarios of `MCMaint` pair a crash with one other fault, or take
  two failing commands; three kinds of fault in one behaviour come only as a
  crash, a failing journal write and a lost record.
* `MaintOps`: two handlers (symmetric), one slot, a table of one entry and a key
  that lives one unit, so that each limit is reached; three operations while
  time passes, two around a restart with a failing journal.

### 3.2 Fairness

`FairSpec` assumes weak fairness of what the program's own tickers and the
lease service do: expiry, boot (a supervisor restarts the process), the end of
the cooldown, resume and recovery, pull, verification, counting a failed
round and automatic promotion. `Apply` is strongly fair: a panic or an error
may always come instead of the import, and an import that is tried for ever
succeeds at some time. Nothing is assumed of faults, of an operator
(`PromoteManually`) or of client writes. The liveness properties have
`<>[]Healthy` as hypothesis: etcd reachable, pair connected, nobody down.

`ConfigSync!FairSpec`: the poll loop's own steps are weakly fair (a ticker
drives them); the answers of the CP are strongly fair, as a call that may be
lost is repeated for ever; so is an apply that the IdP registry may refuse.
Publishes, leadership, heartbeats and crashes are not fair. `ConfigArrives` has
`<>[]Settled` as hypothesis.

`ServicesFairness`, each for its part: goroutines of `HALoops` are scheduled and
their calls, which have time limits, return; `Stop` goes on once begun;
`SaaSFeed`'s coordinator goes on and a stopped process is restarted; a refresh
of the newest version that can happen again and again does (the scheduler
repeats it). `FeedArrives` is asked of the scenarios without failing writes,
damage, or more edits than an activation retries.

### 3.3 Seen while modelling, without a run

* `promote` saves a record without `StandbyAddr`, and the resume save writes
  the boot-time one, so the failback target a leader knows may not survive its
  restart, against the comment of `RecordStandbyAddr` (`ha.go:205`).
* A passive self-fenced ex-leader has persisted role standby; the recovery
  runbook's "Recovery is a restart" (`docs/operator/ha-lease-recovery.md:232`)
  brings it up as a standby of its own address, which then needs a manual
  promotion.
* `loadCluster` tests `--ha-join` before the persisted role. A promoted node
  restarted with that flag (as `docker-compose.ha.yml` does) is a standby
  again; with `JoinNodes = {n2}` and no faults, `LeadershipReturns` fails.
* **HALoops.** `selfFence` unlocks before `enterStandbyResync`. If an operator's
  promotion begins in between (`overtaken`), a 19-step behaviour ends in a
  standby that renews the lease for ever, and a 23-step one in an orphaned sync
  loop that `Stop` waits for without end, against its comment (`ha.go:1011`).
  `HALease` has the race too. It costs no safety: `AtMostOneWriter`, the fence
  and the first half of `GrantAttended` hold through it. The second half and
  `OnlyLeaderRenews`, `StopReturns` except it, each where a promotion has
  overtaken a fence, and nowhere else.
* **ConnLimit.** A Release that waits for the lock while its counter is dropped
  and replaced removes its successor's entry: a connection goes uncounted, in
  10 steps, against "every admitted connection is counted exactly once"
  (`connlimit.go:184`). `CountedUnlessCut` excepts it.
* **SaaSFeed.** If the floor was advanced and the activation then failed, the
  version is refused until a restart or a newer one. A rebuild for overrides
  that finds the activation record unreadable swaps in the embedded baseline. A
  write that errors after taking effect, followed by a rebuild, takes the
  generation live. `activateLocked` consults neither `FailClosed` nor the
  activation record's copy of the floor; `RepairRequired` has no reader.
* **ConfigSync.** A Data Plane can save, and go on enforcing, a blocklist that
  no Control Plane published, with its fingerprint check satisfied. A former
  leader that resyncs replaces its snapshot by its successor's
  (`seedReplicatedSnapshot`, `ha.go:829`) and keeps its version counter and its
  delta ring; its next publish is diffed against the imported list and put behind
  its own deltas, which it does not follow from (`coherent` becomes false). With
  the Data Plane at k-1: the former leader publishes k, which adds host h,
  imports a snapshot without h, and publishes k+1, also without h. The chain it
  serves is then "add h" and "nothing", for a target without h. The Data Plane
  applies it, sees the drift and asks for a full snapshot; that call is lost; on
  the next poll the same chain toggles h out of the fingerprint again, which now
  matches, while h stays blocked. The mixture is saved as last-good. It takes
  one grant, four publishes and one lost call. `internal/blocklist/delta.go:31`
  says that "any of which forces a full resync rather than silently persisting
  divergent state", `:112` that the fingerprint and the list "agree ONLY when
  each token is applied at most once" and claims that for one call;
  `controlplane_client.go:292` says that "a first-poll delta can never silently
  persist divergent state". The same end can come of a clock that was set back,
  as versions may then be issued twice. `LastGoodWhole`, `DriftCovered` and
  `ConfigArrives` are therefore about coherent rings, and `ImportsAloneBreakRings`
  (section 4) proves that nothing else breaks them.
* **ConfigSync, otherwise.** A snapshot is built before Update's lock, so a later commit of
  an earlier build publishes older content under a newer version, until the
  next publish. The snapshot published at boot is stamped with epoch 0, and the
  last one before a re-acquired lease with the old epoch: a DP that has seen a
  later epoch refuses it, from the CP or from its last-good file. GetConfig
  answers "unchanged" to a DP that idle-drift detection sent there. A refused
  IdP profile or epoch leaves a mixture in force until the next full apply
  (`Torn`). A DP on a fenced ex-leader that still answers does not fail over.
* **PolicyDraft.** A reloaded draft restarts at version 1, so tokens of before
  the restart may match it. A crash between the rules and `.meta` pairs new
  rules with an old version. The removal of a retired draft's file, after the
  unlock, can delete the file of a draft opened since ("swept"). A rollback
  between a commit's base check and its activation is overwritten; a failing
  edit's undo overwrites a rollback as well, and a rollback's save may make
  durable an edit that is then undone ("raced"). A rollback's own failing save
  is not reported ("unsaved"). A draft reverted just before a crash may return.
* **NodeIdentity.** A renewal verified before a revocation and served after it
  registers a serial that is not on the CRL; a heartbeat in the same position
  sets the status back to connected (`crossed`). A lost RenewCert reply, a crash
  between the two files, a failing install, or a failed save followed by a
  restart locks the node out until its certificate expires or it is revoked
  (`cutoff`). Two tokens let two hosts enroll at once, the loser being locked out. A connection opened
  before its certificate expired still passes `verifyNode`, against "at no
  moment can both a live cert and a token claim the same node ID"
  (`controlplane_server.go`, `admitEnrollment`). A heartbeat also undoes
  `SetNodeDraining`.
* **HAFailover.** Nothing looks at role or fence between `verifyBundleEpoch` and
  the import, so a manual promotion in between is followed by an import of the
  old leader's state (`ha.go:745`). After an etcd outage in which the leader
  self-fenced and the standby restarted (its last sync is in memory only),
  neither is fresh and both stand by: this is the `Stranded` of
  `LeadershipReturnsUnlessStranded`.
* **Maintenance agent.** A standalone image rollback advances the tag with its
  record still at "admitted", which `journal.go:39` calls a safe boundary; the
  verdict sees the tag all the same (`DanglingTagSeen`). The prior's config digest
  alone makes a prior "known", so that a verdict to roll back may name nothing to
  pull (`reconcile_decision.go:140`). A key that expires between the duplicate
  check and the admission lets one read-only operation run without a slot
  (`handlers_d16b.go:226`). The records of interrupted operations stay on disk after
  a boot, so that one can ask, after a later upgrade was gated, to roll back to
  what was before. A crash between Finish and the removal of the record makes a
  succeeded operation an interrupted one. "Already current" compares what runs
  with the target and leaves a tag that stands elsewhere. A crash inside the
  inline rollback, after the tag went back and before the restart, is judged
  "adopt" for the image that had just failed its gate.
* **Upstream breaker** (not modelled): its comment gives it a mutex, the code
  uses separate atomics; half-open admits every caller.
* A resuming leader takes the lease left by the other node's failed promotion
  for a live foreign holder and gives up for good; with `Faults = {"hook"}`,
  `LeadershipReturns` fails. `promote`'s comment calls this a bounded stall.

## 4. Proofs

TLAPS proves the theorems below for every value of the constants: any set of
nodes, hosts, connections, images or handlers, any TTL, margin, ring size,
retention or table size, and any number of crashes, failing writes and lost
calls. The runs check the same properties on the instances of 3.1, and TLC
checked every inductive invariant on such an instance before it was proved.

| Module | Theorem | Statement |
|---|---|---|
| `HALeaseProofs` | `TypeCorrect` | `Spec => []TypeOK` |
| | `LoopsFollowRole` | `Spec => []LoopInv` |
| | `GrantIsAttended` | `Spec => []GrantAttended` |
| | `FenceHolds` (1) | `Spec => []FenceInv` |
| | `WritersAreFenced` (1) | `Spec => []WriterHoldsFence` |
| | `NoSplitBrain` (1) | `Spec => []AtMostOneWriter` |
| | `EpochsOnlyAdvance` (1) | `Spec => EpochsAdvance` |
| | `RefinesFencedLease` (1) | `Spec => ImplementsFence` |
| `HAFailoverProofs` | `FailoverTypeCorrect` | `Spec => []TypeOK` |
| | `ImportsNeverGoBack` | `Spec => ImportsAdvance` |
| `ConfigSyncProofs` | `ConfigTypeCorrect` | `Spec => []TypeOK` |
| | `LeaderNeverRefused` | `Spec => []LeaderAccepted` |
| | `InstallsNeverGoBack` | `Spec => InstallsFenced` |
| | `LastGoodStaysWhole` | `Spec => []LastGoodWhole` |
| | `DriftStaysCovered` | `Spec => []DriftCovered` |
| | `ImportsAloneBreakRings` (2) | `[]RingsCoherent` |
| | `WholeWithoutImports` (2) | `[]("clock" \notin left.faults => disk.good.hosts = disk.good.snap.hosts)` |
| `LoopsConnProofs` | `LoopsTypeCorrect` | `LoopsSpec => []LoopsTypeOK` |
| | `StandbyNeverRenews` | `LoopsSpec => []OnlyLeaderRenews` |
| | `GuardNeverStuck` | `LoopsSpec => []PromoteGuardFree` |
| | `ConnTypeCorrect` | `ConnSpec => []ConnTypeOK` |
| | `NoCountOutlives` | `ConnSpec => []CountsOnlyLive` |
| | `CountIsExact` | `ConnSpec => []CountedUnlessCut` |
| `FeedDraftProofs` | `FeedTypeCorrect` | `FeedSpec => []FeedTypeOK` |
| | `FloorHolds` | `FeedSpec => []FloorProvesServed` |
| | `FeedNeverGoesBack` | `FeedSpec => NoFeedRollback` |
| | `OverridesNeverLost` | `FeedSpec => []OverridesSettle` |
| | `PolicyTypeCorrect` | `PolicySpec => []PolicyTypeOK` |
| | `VersionsHonest` | `PolicySpec => []TokensHonest` |
| | `CommitClobbersNothing` | `PolicySpec => NoClobber` |
| | `AcknowledgedIsSaved` | `PolicySpec => []AckedDurable` |
| `NodeIdentityProofs` | `IdentityTypeCorrect` | `IdentitySpec => []IdentityTypeOK` |
| | `TokenBuysOnce` | `IdentitySpec => []TokenOnce` |
| | `RevocationKept` | `IdentitySpec => []RevocationHolds` |
| | `RegisteredStaysHeld` | `IdentitySpec => []RegisteredIsHeld` |
| | `ServicesTypeCorrect` | `ServicesSpec => []ServicesTypeOK` |
| `MaintUpgradeProofs` | `MaintTypeCorrect` | `MaintSpec => []MaintTypeOK` |
| | `DangerIsRecorded` | `MaintSpec => []TagGuarded` |
| | `DanglingTagNeverIgnored` | `MaintSpec => []DanglingTagSeen` |
| | `ReportIsHonest` | `MaintSpec => []OutcomeHonest` |
| `MaintOpsProofs` | `OpsTypeCorrect` | `OpsSpec => []OpsTypeOK` |
| | `LockNeverStranded` | `OpsSpec => []LockAttended` |
| | `KeyedRequestOnce` | `OpsSpec => []KeyedOnce` |
| | `SlotsNeverLeak` | `OpsSpec => []SlotsAccounted` |
| | `CutsAreRecorded` | `OpsSpec => []NoSilentCut` |
| | `AgentImplementsParts` | `AgentSpec => MaintSpec /\ OpsSpec` |
| | `AgentTypeCorrect` | `AgentSpec => []AgentTypeOK` |

(1) assumes `MaxLag <= Margin`, the exact border: `lease_lag` shows the
violation one unit beyond it.

(2) of the behaviours of `Spec /\ [][~FormerLeaderImports]_vars`: no former
leader that is resynchronising imports its successor's snapshot. Failovers,
imports by a standby, crashes, lost calls and refused profiles all remain.

### 4.1 Assumptions

Each module names what it assumes of its constants, and TLC evaluates that in
every run. Beyond types these are: the TTL that `armHALease` enforces
(`TimeAssumption`); a failure threshold of at least 2 (`FailoverAssumption`); a
ring that holds an entry (`ConfigSyncAssumption`); a positive limit
(`ConnAssumption`: `Enable` replaces others by its default); at least one
attempt (`FeedAssumption`); that connections, hosts and handlers at one time are
finitely many; at least one slot, and a retention no longer than a key's TTL
(`MaintOpsAssumption`, the defaults of `NewManagerWithTTL`). The scenarios are
arbitrary sets of budgets, so that a theorem covers every mix of faults.

### 4.2 Inductive invariants

No property below is inductive as it stands. What each needs:

* **HALease.** `AtMostOneWriter` says nothing of the key or of answers in
  flight. `FenceInv` adds that the key carries the last grant; that a window's
  age plus the key's remaining time is at least the window length, a sum a
  `Tick` preserves; and that an answer in flight which is still in time vouches
  for its key (`key.left + lag = TTL`). When the answer is handled its lag is
  at most `MaxLag <= Margin`, which gives the window's inequality. Two writers
  would both hold the one key. A keepalive round vouches for the epoch it was
  started with (`RenewVouched`), so that one which ends under a newer grant
  confirms nothing it may not. `LoopInv` is the companion about control: which
  call, loops and pending fence steps go with which role (`CallsFit`,
  `LoopsFit`, `TailFits`), and what of that an overtaken fence undoes. For the
  refinement each action maps to one abstract step or a stutter: `EtcdTxn` is `Issue`, the actions that open
  a window are `Gain`, crashes, fences and the end of a window under `Tick` are
  `Lose`, `EtcdExpire` and the revoke are `Release`, for which `FenceInv` shows
  that nobody is writing.
* **HAFailover.** `FailoverInv`. `ha_config.json` always names a peer although a
  booted node has none in memory: a node in a role has a peer, and only a node
  in a role runs a loop that saves (`PeerInv`). No stamp is ahead of the lease
  (`StampInv`), so a bundle that passed the fence is at least as new as all that
  was imported, and as the bundle of a stopped loop (`VerifiedInv`).
* **ConfigSync.** `ConfigInv`. No counter is ahead of the highest version issued
  and every publish is paid for (`VersionInv`); every stamp in a process, a
  reply or a file was granted (`GrantedInv`, `RatchetInv`); what is in force is
  within the ratchet, so an apply that the ratchet admits is no step back. A
  snapshot about to be installed has already raised the ratchet (`InstallInv`).
* **ConfigSync, the lists.** `ListInv`, while the rings are coherent. A version
  stands for one list wherever it is held, in a snapshot, a delta, a reply or a
  file. For that no process may be able to issue a version a second time: the
  counters of two processes are further apart than the publishes that are left,
  and no version that is held lies between a counter and what it can still
  reach, which is what a seed above every version buys (`Apart`, `AllClear`). A delta from a version is held
  once (`BasesApart`), so that the chains that different polls get from a
  version begin alike. Whatever a half-applied chain left behind, a host on which
  list and fingerprint disagree, is named by every chain still to come from the
  Data Plane's version (`LooseCovered`), so the next chain that is applied decides
  that host, and a chain that composes and ends in the announced fingerprint
  leaves the announced list (`ChainSettles`, `ChainVerified`).
  `ImportsAloneBreakRings` has a third invariant, `OwnInv`: the deltas a process
  holds were taken from its own successive lists, which is lost exactly when a
  running Control Plane has its snapshot replaced.
* **Composites.** A step of `ServicesNext` or `AgentNext` is a step of one part
  that leaves the variables of the others alone, so each part's invariant is
  inductive for the whole.
* **HALoops.** One thread at a time is an actor: it promotes, keeps or recovers
  the lease, or fences (`OneActor`). From it follow the role at each of the
  actor's steps and what the stop channels refer to. This holds until a
  promotion overtakes a fence, and after that as long as the guard is taken.
* **ConnLimit.** The counter in the map is compared with the connections that
  still have to take their count back from it: open ones, and handlers inside
  Acquire or Release that hold this counter (`UpperInv`, `LowerInv`,
  `ExactInv`).
* **SaaSFeed.** Each readable floor record is at least what was served and at
  least the activation record, and one is readable (`RecordInv`); a transaction
  past its floor writes has both at its version (`JobInv`); an edit the view may
  lack owes its rebuild (`RevInv`).
* **PolicyDraft.** A version shown is at most its counter, and equal to it only
  with the content shown (`TokenInv`). A candidate begins above and ends below
  the running counter, also while the operation that makes it is in the lock
  (`VersionBounds`, `WriteShape`, `BaseInv`); the files are at most that
  operation behind (`DurableInv`).
* **NodeIdentity.** One invariant for each property: a token from memory to disk
  to the certificate it bought (`TicketInv`), a revocation between its lock and
  its save (`RevokeInv`), a certificate from the signature to the host's two
  files (`SerialInv`).
* **MaintUpgrade.** What an operation has pinned, captured and pulled at each
  stage (`OpInv`, `HostInv`), what its record says of that (`RecordInv`), and
  that nothing but its own removal touches the record of an operation that was
  cut short (`MoverInv`).
* **MaintOps.** Who is responsible for an operation at each moment of its life
  (`OwnInv`), what the cache remembers of a key (`KeyInv`, which needs that
  a keyed operation is kept until its key is too old), and where the slots are (`SlotInv`).

### 4.3 Only model-checked

* Liveness, as fairness is outside the prover's reach: `LeadershipReturns`,
  `LeadershipReturnsUnlessStranded`, `ReplicaCatchesUp`, `ConfigArrives`,
  `StopReturns`, `FeedArrives`.
* What the chains of deltas come to when applied entry by entry (`ChainsFold`):
  the model has the closed form, on which the proofs rest. Induction over the
  entries of a chain is otherwise within reach here: the library's induction
  theorems, which take an operator, cannot be instantiated, but that a nonempty
  set of naturals has a least member can be stated of a set
  (`LeastMember`, `GreatestMember`, from the well-foundedness of the order on
  the naturals), and the arguments over a chain are put as arguments
  about the first or the last entry that names a host.

Every invariant and every action property of the passing runs is stated by a
theorem.

## 5. Not modelled

* Legacy HA without a lease: no fencing is promised there.
* Several DPs with one CP: the CP keeps no per-DP state about configuration, so
  one DP stands for all. Its address list and payload limits.
* Cluster state and configuration of one HASync bundle together: they are in
  `HAFailover` and in `ConfigSync` apart.
* The planned-handoff flag: `RequestPlannedPromotion` has no production caller.
* Cluster CA rotation and import; draining; garbage collection of tokens and
  CRL entries.
* The config-version archive, and the stores other than policy that a rollback
  restores.
* Signature, manifest and artifact checks of the feed (bytes, not state), and
  the generation collector, which nothing calls.
* A node identity shared by two CP hosts, clock steps other than the one of
  `ConfigSync`, and an etcd that loses committed data.
* Of the maintenance agent: authentication, validation of references, backup and
  cleanup commands, audit and transcript files, a corrupt record (the agent does
  not start).
* Policy evaluation, proxying, TLS inspection, scanning, the MCP gateway, UI,
  telemetry: mostly string processing, third-party protocols and I/O. The MCP
  gateway's execution core (durable attempts, kill generation, recovery) has
  state worth a module of its own; it is not begun. These parts make up most
  of the repository's lines; see `PROJECT.json` for the reason of each.

## 6. Plan

1. `HALease`, `FencedLease`, `HAFailover`, `ConfigSync`, `HALoops`, `ConnLimit`,
   `SaaSFeed`, `PolicyDraft`, `NodeIdentity`, `MaintUpgrade`, `MaintOps`:
   modelled and model-checked.
2. Theorems for the safety properties of every module: done; liveness stays
   with TLC.
3. Next: one abstract lease above `HAFailover` and `ConfigSync` too. It is not
   `FencedLease` as it stands: in both the key may expire under an owner that
   still takes itself for the leader (they leave the write window to `HALease`),
   so authority would have to be mapped to the leader's epoch being current.
   A run of its own for the divergence of 3.3, and the MCP gateway's execution
   core.
