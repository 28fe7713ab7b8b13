----------------------------- MODULE ConfigSync -----------------------------
(***************************************************************************)
(* Configuration distribution from a Control-Plane pair to a Data Plane:   *)
(* publishing (ConfigStore.Update and the blocklist delta ring), the two   *)
(* fetch paths (GetConfigDelta, GetConfig), the Data Plane's apply with    *)
(* its epoch ratchet, fingerprint check and last-good file, and the        *)
(* leadership changes that move the version counter and the published      *)
(* snapshot.                                                               *)
(*                                                                         *)
(* Abstractions.  A configuration is its blocklist plus the identity of    *)
(* the snapshot the rest came from.  A fingerprint is the set of hosts it  *)
(* was computed from (the XOR of per-host hashes, taken as collision       *)
(* free).  The lease is the one of FencedLease: a holder and a token per   *)
(* grant.  The wall clock of a seed reads above every version any process  *)
(* can reach (it counts seconds, publishes are slower), unless the clock   *)
(* fault is on.  A lost call may move the connection to any Control Plane: *)
(* the address list is not modelled.  Hosts blocked by hand on the Data    *)
(* Plane, payload size limits, pre-delta servers and the cache of the      *)
(* marshaled snapshot are left out: that cache is keyed on the version,    *)
(* and a version stands for one snapshot unless the clock fault is on.     *)
(***************************************************************************)
EXTENDS Integers, Sequences, FiniteSets, SequencesExt

CONSTANTS
  CP,          \* the Control Planes
  Nobody,      \* no lease holder
  First,       \* the Control Plane HA was enabled on
  Hosts,       \* hosts a blocklist may name
  RingSize,    \* maxDeltaRingEntries
  MaxIssued,   \* bound on published snapshots
  MaxToken,    \* bound on lease grants
  Scenarios    \* what a behaviour may hold: the Control Planes installed, the
               \* hosts lists are drawn from, how many publishes, publishes in
               \* flight on one node, lease grants and crashes, and which faults:
               \* "clock" (a seed reads a clock that was set back), "idp" (the
               \* IdP registry refuses profiles), "net" (calls are lost)

Scenario == [cps : SUBSET CP, hosts : SUBSET Hosts, issues : 0..MaxIssued,
             handlers : Nat, grants : 0..MaxToken, crashes : Nat,
             faults : SUBSET {"clock", "idp", "net"}]

ASSUME ConfigSyncAssumption ==
  /\ Nobody \notin CP /\ First \in CP
  /\ RingSize \in Nat \ {0} /\ MaxIssued \in Nat /\ MaxToken \in Nat
  /\ Scenarios \subseteq Scenario

VARIABLES
  holder, token,   \* the fencing lease
  cp,              \* the Control-Plane processes
  saved,           \* the role ha_config.json restores
  top,             \* the highest version published so far
  coherent,        \* auxiliary: whether no seed may read a clock that was set
                   \* back and every ring's deltas have composed so far
  left,            \* the scenario, with the publishes and crashes left
  dp,              \* the Data-Plane process
  poll,            \* its config poll under way
  beat,            \* an epoch the heartbeat loop has observed, not yet saved
  disk             \* its files: the last-seen epoch and the last-good config

lease == <<holder, token>>
dpVars == <<dp, poll, beat, disk>>
vars == <<holder, token, cp, saved, left, top, coherent, dp, poll, beat, disk>>

-----------------------------------------------------------------------------
(* State.                                                                  *)

MaxVer == (MaxIssued + 1) * (MaxIssued + 1)
Version == 0..MaxVer
Epoch == 0..MaxToken

Snapshot == [ver : Version, epoch : Epoch, hosts : SUBSET Hosts]
NoSnap == [ver |-> 0, epoch |-> 0, hosts |-> {}]
\* The rest of the configuration in force when it comes from no one snapshot.
Torn == [ver |-> -1, epoch |-> 0, hosts |-> {}]

Delta == [base : Version, ver : Version, added : SUBSET Hosts,
          removed : SUBSET Hosts, fp : SUBSET Hosts, resync : BOOLEAN]

\* A publish in flight: built by CurrentConfigSnapshot, or committed and not
\* yet in the ring.
Built == [at : {"built"}, epoch : Epoch, hosts : SUBSET Hosts]
Committed == [at : {"committed"}, delta : Delta]

\* A Control-Plane process: its configStore and delta ring, and what the
\* handlers in flight hold.
ControlPlane ==
  [role : {"off", "boot", "leader", "standby", "resync"}, epoch : Epoch,
   ver : Version, live : SUBSET Hosts, snap : Snapshot, ring : Seq(Delta),
   pubs : SUBSET (Built \cup Committed), repl : Version, rem : Snapshot, seen : Epoch]

Serving(c) == cp[c].role \in {"boot", "leader", "resync"}

ControlTypeOK ==
  /\ holder \in CP \cup {Nobody} /\ token \in Epoch
  /\ cp \in [CP -> ControlPlane]
  /\ \A c \in CP : /\ Len(cp[c].ring) <= RingSize
                   /\ IsFiniteSet(cp[c].pubs) /\ Cardinality(cp[c].pubs) <= left.handlers
  /\ saved \in [CP -> {"leader", "standby", "absent"}]
  /\ top \in Version
  /\ left \in Scenario

DataTypeOK ==
  /\ dp.up \in BOOLEAN /\ dp.conn \in CP /\ dp.ver \in Version
  /\ dp.seen \in Epoch /\ dp.under \in Epoch
  /\ dp.rest \in Snapshot \cup {Torn}
  /\ poll.at \in {"idle", "chain", "delta", "full", "install"}
  /\ poll.epoch \in Epoch /\ poll.cur \in Version /\ poll.snap \in Snapshot
  /\ beat \in Epoch
  /\ disk.seen \in Epoch /\ disk.good.snap \in Snapshot

\* The chain under way, and the lists chains were applied to.
ListTypeOK ==
  /\ poll.chain \in Seq(Delta)
  /\ dp.hosts \subseteq Hosts /\ dp.fp \subseteq Hosts /\ disk.good.hosts \subseteq Hosts

TypeOK == ControlTypeOK /\ DataTypeOK /\ ListTypeOK /\ coherent \in BOOLEAN

NoPoll == [at |-> "idle", epoch |-> 0, cur |-> 0, chain |-> <<>>, snap |-> NoSnap]

Off == [role |-> "off", epoch |-> 0, ver |-> 0, live |-> {}, snap |-> NoSnap,
        ring |-> <<>>, pubs |-> {}, repl |-> 0, rem |-> NoSnap, seen |-> 0]

Init ==
  /\ holder = Nobody /\ token = 0
  /\ cp = [c \in CP |-> Off]
  /\ top = 0
  /\ left \in Scenarios
  /\ coherent = ("clock" \notin left.faults)
  /\ saved = [c \in CP |-> CASE c \notin left.cps -> "absent"
                             [] c = First -> "leader"
                             [] OTHER -> "standby"]
  /\ dp = [up |-> TRUE, conn |-> First, ver |-> 0, seen |-> 0, hosts |-> {},
           fp |-> {}, rest |-> NoSnap, under |-> 0]
  /\ poll = NoPoll /\ beat = 0
  /\ disk = [seen |-> 0, good |-> [snap |-> NoSnap, hosts |-> {}]]

-----------------------------------------------------------------------------
(* Publishing.                                                             *)

Bigger(a, b) == IF a > b THEN a ELSE b

\* The seed of armVersionPersistence.  The version counter and its floor file
\* are one field here: Update saves every version it assigns.
Clock == IF "clock" \in left.faults THEN {0, top + MaxIssued} ELSE {top + MaxIssued}
Arm(c, now) == Bigger(cp[c].ver, Bigger(now, cp[c].repl))

\* The delta from version base with list old to version base + 1 with list
\* new; there is no list to compare with before the first publish.
DeltaOf(base, snap, new) ==
  [base |-> base, ver |-> base + 1, fp |-> new,
   added |-> IF snap = NoSnap THEN {} ELSE new \ snap.hosts,
   removed |-> IF snap = NoSnap THEN {} ELSE snap.hosts \ new,
   resync |-> snap = NoSnap]

\* Mutant: the ring is never trimmed.
RecordedUntrimmed(ring, d) ==
  Append(IF ring # <<>> /\ d.base # Last(ring).ver THEN <<>> ELSE ring, d)

\* blocklistDeltaRing.record: a gap empties the ring, the oldest entry goes.
Recorded(ring, d) ==
  LET kept == IF ring # <<>> /\ d.base # Last(ring).ver THEN <<>> ELSE ring
      all == Append(kept, d)
  IN IF Len(all) > RingSize THEN Tail(all) ELSE all

\* Whether every delta of a chain was taken from the list its predecessor led
\* to.  A Control Plane that imported its peer's snapshot (Sync) takes its next
\* delta from that list and still puts it behind its own.
Composes(chain) ==
  \A i \in 2..Len(chain) :
    chain[i].fp = (chain[i - 1].fp \ chain[i].removed) \cup chain[i].added
Track(ring) == coherent' = (coherent /\ Composes(ring))

\* The version counter moves on to v.
Spend(what) == left[what] > 0 /\ left' = [left EXCEPT ![what] = @ - 1]
Issue(v) == Spend("issues") /\ top' = Bigger(top, v)

\* enableControlPlane: seed the counter, publish the live configuration.
Enabled(c, now, e) ==
  LET base == Arm(c, now)
      s == [ver |-> base + 1, epoch |-> e, hosts |-> cp[c].live]
      d == DeltaOf(base, cp[c].snap, cp[c].live)
  IN [cp[c] EXCEPT !.ver = base + 1, !.snap = s, !.ring = Recorded(@, d), !.epoch = e]

\* An admin handler, or a feed, changes the live configuration (the blocklist,
\* or only the rest of it) and builds the snapshot to publish: the live state
\* and the epoch of this moment.
Build(c) ==
  /\ Serving(c) /\ Cardinality(cp[c].pubs) < left.handlers /\ left.issues > 0
  /\ \E hosts \in SUBSET left.hosts :
       cp' = [cp EXCEPT ![c].live = hosts, ![c].pubs =
                @ \cup {[at |-> "built", epoch |-> cp[c].epoch, hosts |-> hosts]}]
  /\ UNCHANGED <<lease, saved, left, top, coherent, dpVars>>

\* ConfigStore.Update under its lock.
Commit(c) ==
  \E p \in cp[c].pubs :
    /\ p.at = "built"
    /\ LET v == cp[c].ver + 1
           s == [ver |-> v, epoch |-> p.epoch, hosts |-> p.hosts]
           d == DeltaOf(cp[c].ver, cp[c].snap, p.hosts)
       IN /\ Issue(v)
          /\ cp' = [cp EXCEPT ![c].ver = v, ![c].snap = s, ![c].pubs =
                      (@ \ {p}) \cup {[at |-> "committed", delta |-> d]}]
    /\ UNCHANGED <<lease, saved, coherent, dpVars>>

\* ConfigStore.Update after its lock: the delta enters the ring.
Record(c) ==
  \E p \in cp[c].pubs :
    /\ p.at = "committed"
    /\ cp' = [cp EXCEPT ![c].ring = Recorded(@, p.delta), ![c].pubs = @ \ {p}]
    /\ Track(Recorded(cp[c].ring, p.delta))
    /\ UNCHANGED <<lease, saved, left, top, dpVars>>

-----------------------------------------------------------------------------
(* Control-Plane processes and their roles.                                *)

\* Provider.Acquire, granted: the key is put if it does not exist.
Grant(c) == /\ holder = Nobody /\ token < left.grants
            /\ holder' = c /\ token' = token + 1

\* A restart.  A node saved as leader publishes before it asks for the lease.
Boot(c) ==
  /\ cp[c].role = "off"
  /\ \/ /\ saved[c] = "leader"
        /\ \E now \in Clock :
             /\ Issue(Arm(c, now) + 1)
             /\ cp' = [cp EXCEPT ![c] = [Enabled(c, now, 0) EXCEPT !.role = "boot"]]
             /\ Track(Enabled(c, now, 0).ring)
     \/ /\ saved[c] = "standby"
        /\ cp' = [cp EXCEPT ![c].role = "standby"]
        /\ UNCHANGED <<left, top, coherent>>
  /\ UNCHANGED <<lease, saved, dpVars>>

\* ResumeAsLeader: the lease is free and taken, or another node's.
Resume(c) ==
  /\ cp[c].role = "boot"
  /\ \/ /\ Grant(c)
        /\ cp' = [cp EXCEPT ![c].role = "leader", ![c].epoch = token + 1]
        /\ UNCHANGED saved
     \/ /\ holder \notin {c, Nobody}
        /\ cp' = [cp EXCEPT ![c].role = "resync"]
        /\ saved' = [saved EXCEPT ![c] = "standby"]
        /\ UNCHANGED lease
  /\ UNCHANGED <<left, top, coherent, dpVars>>

\* The promotion of a node that booted as standby enables the Control Plane.
PromoteStandby(c) ==
  /\ cp[c].role = "standby" /\ Grant(c)
  /\ \E now \in Clock :
       /\ Issue(Arm(c, now) + 1)
       /\ cp' = [cp EXCEPT ![c] = [Enabled(c, now, token + 1) EXCEPT !.role = "leader"]]
       /\ Track(Enabled(c, now, token + 1).ring)
  /\ saved' = [saved EXCEPT ![c] = "leader"]
  /\ UNCHANGED dpVars

\* That of a former leader finds the Control Plane enabled and does nothing.
PromoteResync(c) ==
  /\ cp[c].role = "resync" /\ Grant(c)
  /\ cp' = [cp EXCEPT ![c].role = "leader", ![c].epoch = token + 1]
  /\ saved' = [saved EXCEPT ![c] = "leader"]
  /\ UNCHANGED <<left, top, coherent, dpVars>>

\* The lease runs out; its former holder has yet to notice.
Expire ==
  /\ holder # Nobody /\ holder' = Nobody
  /\ UNCHANGED <<token, cp, saved, left, top, coherent, dpVars>>

\* selfFence, then enterStandbyResync: the gRPC server keeps running.
Fence(c) ==
  /\ cp[c].role = "leader" /\ holder # c
  /\ cp' = [cp EXCEPT ![c].role = "resync", ![c].epoch = 0]
  /\ saved' = [saved EXCEPT ![c] = "standby"]
  /\ UNCHANGED <<lease, left, top, coherent, dpVars>>

Crash(c) ==
  /\ cp[c].role # "off" /\ Spend("crashes")
  /\ cp' = [cp EXCEPT ![c] = [Off EXCEPT !.ver = cp[c].ver, !.live = cp[c].live]]
  /\ UNCHANGED <<lease, saved, top, coherent, dpVars>>

\* Mutant: only an unstamped message is refused.
AcceptsStale(seen, e) == e = 0 => seen = 0

\* dpObserveEpoch: whether a message stamped e passes a ratchet at seen.
Accepts(seen, e) == IF e = 0 THEN seen = 0 ELSE e >= seen

\* applyHABundle, for a bundle the puller's epoch fence let through: the
\* leader's version is noted, the snapshot applied and made the baseline of
\* the next delta unless its stamp is refused.
Sync(d, c) ==
  /\ cp[d].role \in {"standby", "resync"} /\ cp[c].role = "leader"
  /\ holder # Nobody => cp[c].epoch >= token
  /\ LET s == cp[c].snap
         noted == [cp[d] EXCEPT !.repl = Bigger(@, s.ver)]
     IN cp' = [cp EXCEPT ![d] =
                IF Accepts(cp[d].seen, s.epoch)
                THEN [noted EXCEPT !.seen = Bigger(@, s.epoch), !.live = s.hosts, !.snap = s]
                ELSE noted]
  /\ UNCHANGED <<lease, saved, left, top, coherent, dpVars>>

-----------------------------------------------------------------------------
(* The Data Plane's config poll: the two calls.                            *)

NewestFPDiffers(c) ==
  LET ring == cp[c].ring
  IN ring # <<>> /\ Last(ring).ver = dp.ver /\ Last(ring).fp # dp.fp

\* Mutant: a ring that lags behind the store is served.
ChainedLagging(ring, base, cur) ==
  /\ ring # <<>> /\ ring[1].base <= base /\ base < Last(ring).ver
  /\ \A i \in DOMAIN ring : ring[i].base >= base => ~ring[i].resync

\* Whether chain(base) is served for version cur, and the entries it returns.
\* The entries of a ring ascend: those not below base are the last ones.
ChainFrom(ring, base) ==
  LET from == CHOOSE i \in 1..(Len(ring) + 1) :
                \A j \in DOMAIN ring : ring[j].base >= base <=> j >= i
  IN SubSeq(ring, from, Len(ring))
Chained(ring, base, cur) ==
  /\ ring # <<>> /\ Last(ring).ver = cur
  /\ ring[1].base <= base /\ base <= cur
  /\ \A i \in DOMAIN ring : ring[i].base >= base => ~ring[i].resync

At(stage) == poll' = [poll EXCEPT !.at = stage]
Done == poll' = NoPoll
FullNext == poll' = [NoPoll EXCEPT !.at = "full"]

\* fetchAndApply: a node with a version asks for a delta.  GetConfigDelta
\* reads the epoch, the version and then the ring; what a publish between the
\* two reads would do, a publish that has yet to enter the ring does as well.
PollStart ==
  /\ dp.up /\ poll.at = "idle" /\ Serving(dp.conn)
  /\ LET c == dp.conn
         cur == cp[c].ver
         served == Chained(cp[c].ring, dp.ver, cur)
     IN \/ dp.ver = 0 /\ At("full")
        \/ dp.ver > 0 /\ dp.ver = cur /\ NewestFPDiffers(c) /\ At("full")
        \/ dp.ver > 0 /\ dp.ver # cur /\ ~served /\ At("full")
        \/ /\ dp.ver > 0 /\ dp.ver # cur /\ served
           /\ poll' = [poll EXCEPT !.at = "chain", !.epoch = cp[c].epoch, !.cur = cur,
                                   !.chain = ChainFrom(cp[c].ring, dp.ver)]
  /\ UNCHANGED <<lease, cp, saved, left, top, coherent, dp, beat, disk>>

\* GetConfigDelta reads the remainder, through its cache.
DeltaRemainder ==
  /\ poll.at = "chain" /\ Serving(dp.conn)
  /\ LET c == dp.conn IN
     \/ /\ cp[c].rem.ver = poll.cur
        /\ poll' = [poll EXCEPT !.at = "delta", !.snap = cp[c].rem]
        /\ UNCHANGED cp
     \/ /\ cp[c].rem.ver # poll.cur /\ cp[c].snap.ver = poll.cur
        /\ poll' = [poll EXCEPT !.at = "delta", !.snap = cp[c].snap]
        /\ cp' = [cp EXCEPT ![c].rem = cp[c].snap]
     \/ /\ cp[c].rem.ver # poll.cur /\ cp[c].snap.ver # poll.cur
        /\ FullNext
        /\ UNCHANGED cp
  /\ UNCHANGED <<lease, saved, left, top, coherent, dp, beat, disk>>

\* A call fails.  A failed delta call falls back to the full one; a failed
\* full call ends the poll or, after three, is retried on another connection.
CallFails ==
  /\ poll.at \in {"chain", "full"}
  /\ "net" \in left.faults \/ ~Serving(dp.conn)
  /\ \/ poll.at # "full" /\ FullNext /\ UNCHANGED dp
     \/ poll.at = "full" /\ Done /\ UNCHANGED dp
     \/ poll.at = "full" /\ \E c \in CP \ {dp.conn} : dp' = [dp EXCEPT !.conn = c] /\ UNCHANGED poll
  /\ UNCHANGED <<lease, cp, saved, left, top, coherent, beat, disk>>

\* A poll that finds no server fails over as well.
Reconnect ==
  /\ dp.up /\ poll.at = "idle" /\ ~Serving(dp.conn)
  /\ \E c \in CP \ {dp.conn} : dp' = [dp EXCEPT !.conn = c]
  /\ UNCHANGED <<lease, cp, saved, left, top, coherent, poll, beat, disk>>

-----------------------------------------------------------------------------
(* The Data Plane's config poll: applying an answer.                       *)

\* dpObserveEpoch saves what it raises.  A message that raises nothing saves
\* nothing, even while another loop has yet to save the epoch it raised.
Ratchet(e) == IF e > dp.seen THEN e ELSE disk.seen

\* The hosts that the entries of a chain after the i-th remove, and those that
\* its entries name.
RemovedAfter(chain, i) == UNION {chain[j].removed : j \in (i + 1)..Len(chain)}
Touched(d) == d.added \cup d.removed
Named(chain) == UNION {Touched(chain[i]) : i \in DOMAIN chain}

\* Blocklist.ApplyDelta over the chain: an entry's hosts are removed, then
\* added, so the last entry that names a host decides; the fingerprint toggles
\* with every entry that names it.
ApplyHosts(hosts, chain) ==
  (hosts \ RemovedAfter(chain, 0))
    \cup UNION {chain[i].added \ RemovedAfter(chain, i) : i \in DOMAIN chain}
Toggle(fp, chain) ==
  LET times(h) == Cardinality({i \in DOMAIN chain : h \in Touched(chain[i])})
      odd == {h \in Named(chain) : times(h) % 2 = 1}
  IN (fp \ odd) \cup (odd \ fp)

\* applyDeltaReply: the fence, the chain, the fingerprint check, the rest, the
\* last-good file and lastVersion.  On drift the rest is left alone; a refused
\* IdP profile leaves it torn; both fall through to a full fetch.  (A crash
\* before the last-good file is written forgets the apply with the process.)
ApplyDelta ==
  /\ poll.at = "delta"
  /\ LET fp == Toggle(dp.fp, poll.chain)
         verified == fp = Last(poll.chain).fp
         moved == [dp EXCEPT !.hosts = ApplyHosts(@, poll.chain), !.fp = fp,
                             !.seen = Bigger(@, poll.epoch)]
         ratchet == [disk EXCEPT !.seen = Ratchet(poll.epoch)]
     IN \/ ~Accepts(dp.seen, poll.epoch) /\ Done /\ UNCHANGED <<dp, disk>>
        \/ /\ Accepts(dp.seen, poll.epoch) /\ ~verified
           /\ dp' = moved /\ disk' = ratchet /\ FullNext
        \/ /\ Accepts(dp.seen, poll.epoch) /\ verified /\ "idp" \in left.faults
           /\ dp' = [moved EXCEPT !.rest = Torn] /\ disk' = ratchet /\ FullNext
        \/ /\ Accepts(dp.seen, poll.epoch) /\ verified
           /\ dp' = [moved EXCEPT !.rest = poll.snap, !.under = poll.epoch, !.ver = poll.cur]
           /\ disk' = [ratchet EXCEPT !.good = [snap |-> poll.snap, hosts |-> moved.hosts]]
           /\ Done
  /\ UNCHANGED <<lease, cp, saved, left, top, coherent, beat>>

\* Mutant: a snapshot stamped with the epoch already seen is refused.
FullReplyStrict ==
  /\ poll.at = "full" /\ Serving(dp.conn)
  /\ LET s == cp[dp.conn].snap
         unchanged == dp.ver > 0 /\ dp.ver >= cp[dp.conn].ver
         passes == Accepts(dp.seen, s.epoch) /\ (s.epoch > 0 => s.epoch # dp.seen)
     IN \/ (unchanged \/ ~passes) /\ Done /\ UNCHANGED <<dp, disk>>
        \/ /\ ~unchanged /\ passes
           /\ dp' = [dp EXCEPT !.seen = Bigger(@, s.epoch)]
           /\ disk' = [disk EXCEPT !.seen = Ratchet(s.epoch)]
           /\ poll' = IF s.ver <= dp.ver THEN NoPoll
                      ELSE [poll EXCEPT !.at = "install", !.snap = s]
  /\ UNCHANGED <<lease, cp, saved, left, top, coherent, beat>>

\* GetConfig answers "unchanged" or with the published snapshot, which then
\* meets fetchAndApply's fence and version check.
FullReply ==
  /\ poll.at = "full" /\ Serving(dp.conn)
  /\ LET c == dp.conn
         s == cp[c].snap
         unchanged == dp.ver > 0 /\ dp.ver >= cp[c].ver
         passes == Accepts(dp.seen, s.epoch)
     IN \/ (unchanged \/ ~passes) /\ Done /\ UNCHANGED <<dp, disk>>
        \/ /\ ~unchanged /\ passes
           /\ dp' = [dp EXCEPT !.seen = Bigger(@, s.epoch)]
           /\ disk' = [disk EXCEPT !.seen = Ratchet(s.epoch)]
           /\ poll' = IF s.ver <= dp.ver THEN NoPoll
                      ELSE [poll EXCEPT !.at = "install", !.snap = s]
  /\ UNCHANGED <<lease, cp, saved, left, top, coherent, beat>>

\* Mutant: a full list does not set the fingerprint anew.
ApplySnapshotKeepsFP ==
  /\ poll.at = "install"
  /\ LET s == poll.snap IN
     \/ /\ "idp" \in left.faults \/ ~Accepts(dp.seen, s.epoch)
        /\ dp' = [dp EXCEPT !.rest = Torn]
        /\ UNCHANGED disk
     \/ /\ Accepts(dp.seen, s.epoch)
        /\ dp' = [dp EXCEPT !.hosts = s.hosts, !.rest = s, !.under = s.epoch, !.ver = s.ver]
        /\ disk' = [disk EXCEPT !.good = [snap |-> s, hosts |-> s.hosts]]
  /\ Done
  /\ UNCHANGED <<lease, cp, saved, left, top, coherent, beat>>

\* External auth and IdP profiles are applied first; then applyConfigSnapshot
\* checks the epoch again, which a heartbeat may have raised, and applies the
\* rest; then the last-good file and lastVersion.
ApplySnapshot ==
  /\ poll.at = "install"
  /\ LET s == poll.snap IN
     \/ /\ "idp" \in left.faults \/ ~Accepts(dp.seen, s.epoch)
        /\ dp' = [dp EXCEPT !.rest = Torn]
        /\ UNCHANGED disk
     \/ /\ Accepts(dp.seen, s.epoch)
        /\ dp' = [dp EXCEPT !.hosts = s.hosts, !.fp = s.hosts, !.rest = s,
                            !.under = s.epoch, !.ver = s.ver]
        /\ disk' = [disk EXCEPT !.good = [snap |-> s, hosts |-> s.hosts]]
  /\ Done
  /\ UNCHANGED <<lease, cp, saved, left, top, coherent, beat>>

-----------------------------------------------------------------------------
(* The heartbeat loop, and the Data-Plane process.                         *)

\* metricsLoop: the reply carries the Control Plane's current epoch.
Beat ==
  /\ dp.up /\ beat = 0 /\ Serving(dp.conn)
  /\ cp[dp.conn].epoch > dp.seen
  /\ dp' = [dp EXCEPT !.seen = cp[dp.conn].epoch]
  /\ beat' = cp[dp.conn].epoch
  /\ UNCHANGED <<lease, cp, saved, left, top, coherent, poll, disk>>

BeatSave ==
  /\ beat # 0 /\ disk' = [disk EXCEPT !.seen = beat] /\ beat' = 0
  /\ UNCHANGED <<lease, cp, saved, left, top, coherent, dp, poll>>

DPCrash ==
  /\ dp.up /\ Spend("crashes")
  /\ dp' = [dp EXCEPT !.up = FALSE] /\ Done /\ beat' = 0
  /\ UNCHANGED <<lease, cp, saved, top, coherent, disk>>

\* startDataPlane: the saved epoch, then the last-good configuration unless
\* its stamp is refused.
DPBoot ==
  /\ ~dp.up
  /\ LET s == disk.good.snap
         h == disk.good.hosts
         fresh == [dp EXCEPT !.up = TRUE, !.ver = 0, !.seen = disk.seen, !.hosts = {},
                             !.fp = {}, !.rest = NoSnap, !.under = 0]
     IN \/ s = NoSnap /\ dp' = fresh /\ UNCHANGED disk
        \/ /\ s # NoSnap /\ ~Accepts(disk.seen, s.epoch)
           /\ dp' = [fresh EXCEPT !.rest = Torn] /\ UNCHANGED disk
        \/ /\ s # NoSnap /\ Accepts(disk.seen, s.epoch)
           /\ dp' = [fresh EXCEPT !.ver = s.ver, !.hosts = h, !.fp = h, !.rest = s,
                       !.seen = Bigger(@, s.epoch), !.under = s.epoch]
           /\ disk' = [disk EXCEPT !.seen = Bigger(@, s.epoch)]
  /\ UNCHANGED <<lease, cp, saved, left, top, coherent, poll, beat>>

-----------------------------------------------------------------------------
Next ==
  \/ \E c \in CP :
       \/ Build(c) \/ Commit(c) \/ Record(c) \/ Boot(c) \/ Resume(c)
       \/ PromoteStandby(c) \/ PromoteResync(c) \/ Fence(c) \/ Crash(c)
       \/ \E d \in CP \ {c} : Sync(d, c)
  \/ Expire
  \/ PollStart \/ DeltaRemainder \/ FullReply \/ CallFails \/ Reconnect
  \/ ApplyDelta \/ ApplySnapshot
  \/ Beat \/ BeatSave \/ DPCrash \/ DPBoot

Spec == Init /\ [][Next]_vars

\* Processes and calls make progress.  A call that is repeated is answered in
\* the end, and so is an IdP profile that is offered again.
FairSpec ==
  /\ Spec
  /\ WF_vars(PollStart) /\ WF_vars(ApplyDelta)
  /\ WF_vars(ApplySnapshot)
  /\ SF_vars(DeltaRemainder) /\ SF_vars(FullReply)
  /\ SF_vars(ApplySnapshot /\ dp'.rest # Torn)

-----------------------------------------------------------------------------
(* Properties.                                                             *)

\* While the rings are coherent, the last-good file holds one published
\* snapshot, never the blocklist of one and the rest of another: what the checks
\* between the reads of GetConfigDelta and the fingerprint check of the Data
\* Plane are for, whatever deltas failed half-way before.
LastGoodWhole == coherent => disk.good.hosts = disk.good.snap.hosts

\* Where the Data Plane's blocklist and its fingerprint disagree, after whatever
\* sequence of failed deltas, refused profiles, lost calls and leadership
\* changes, every chain it may yet be served names the host and so settles it:
\* while the rings are coherent, a delta applied twice is never taken for one
\* applied once ("detects ... missed/duplicated deltas", delta.go).
Drift == (dp.hosts \ dp.fp) \cup (dp.fp \ dp.hosts)
DriftCovered ==
  coherent =>
    \A c \in CP : (dp.ver \notin {0, cp[c].ver} /\ Chained(cp[c].ring, dp.ver, cp[c].ver))
                    => Drift \subseteq Named(ChainFrom(cp[c].ring, dp.ver))

\* Within a process, no configuration replaces one that was issued under a
\* later lease: a fenced-out Control Plane reaches the Data Plane in vain,
\* between any two steps of its own poll and heartbeat loops.
InstallsFenced ==
  [][(dp.up /\ dp'.up /\ dp'.rest # dp.rest /\ dp'.rest # Torn)
       => dp'.under >= dp.under]_vars

\* A Data Plane that stays connected to a settled leader, whose snapshot is
\* stamped with its own epoch and not older than the Data Plane's, enforces
\* that snapshot in the end, if the rings were coherent all along.
Leader == cp[dp.conn]
Settled ==
  /\ coherent /\ dp.up /\ holder = dp.conn /\ Leader.role = "leader"
  /\ Leader.epoch = token /\ Leader.pubs = {} /\ dp.ver <= Leader.ver
  /\ Leader.snap.ver = Leader.ver /\ Leader.snap.epoch = token
Enforces == dp.rest = Leader.snap /\ dp.hosts = Leader.snap.hosts
ConfigArrives == <>[]Settled => <>[]Enforces

\* "so a restarted (or HA-promoted) CP never re-issues version numbers at or
\* below what running DPs have already seen" (main.go, enableControlPlane): the
\* lease holder publishes above the version of a Data Plane that follows the
\* lease.
PublishesAboveFleet ==
  [][\A c \in CP : (/\ dp.under > 0 /\ holder' = c /\ cp'[c].epoch = token'
                    /\ cp'[c].ver # cp[c].ver) => cp'[c].ver > dp.ver]_vars

=============================================================================
