-------------------------- MODULE ConfigSyncProofs --------------------------
(***************************************************************************)
(* Proofs about ConfigSync, for every set of Control Planes, ring size,    *)
(* budget of publishes, grants and crashes, and every combination of       *)
(* faults: the types and bounds of what the processes keep, that a Data    *)
(* Plane is never locked out of the lease holder (LeaderAccepted), and     *)
(* that no configuration in force replaces one of a later lease            *)
(* (InstallsFenced), and, while the rings are coherent, that the last-good *)
(* file is one snapshot (LastGoodWhole) and drift is never out of reach of *)
(* the chains to come (DriftCovered).                                      *)
(*                                                                         *)
(* The types alone are not inductive.  A version is within its bound only  *)
(* because every publish is paid for and no counter is ahead of the        *)
(* highest version issued (VersionInv).  An epoch is one of the lease's    *)
(* because every stamp, in a process, a reply or a file, was granted       *)
(* (GrantedInv, RatchetInv).  The ratchet bounds what is in force          *)
(* (dp.under <= dp.seen), so an apply, which is admitted against the       *)
(* ratchet, is also one against what is in force.                          *)
(*                                                                         *)
(* A second invariant, ListInv, is about the blocklists.  While the rings  *)
(* are coherent a version stands for one list wherever it is held, because *)
(* no process can issue it again: the counters are further apart than the  *)
(* publishes left (Apart, AllClear).  A delta from a version is held once  *)
(* (BasesApart), so once a chain has been served, no other list can follow *)
(* that version, and whatever half-applied chains left behind is named by  *)
(* every chain still to come (LooseCovered).  ChainVerified then says what *)
(* the fingerprint check is worth: a chain that composes and is verified   *)
(* leaves its last list.  The inductions over a chain are least-number     *)
(* arguments (LeastMember), on the well-founded order of the naturals.     *)
(*                                                                         *)
(* A third, OwnInv, says how coherence is lost: as long as no former       *)
(* leader imports its successor's snapshot while it keeps its own ring,    *)
(* the rings stay coherent (ImportsAloneBreakRings).                       *)
(***************************************************************************)
EXTENDS ConfigSync, FiniteSetTheorems, WellFoundedInduction, TLAPS

-----------------------------------------------------------------------------
(* The inductive invariant.                                                *)

\* No version a process holds is ahead of the highest one issued, and each
\* publish raised that by at most a seed's distance.
VersionInv ==
  /\ \A c \in CP : cp[c].ver <= top /\ cp[c].repl <= top /\ cp[c].snap.ver <= top
  /\ top <= (MaxIssued - left.issues) * (MaxIssued + 1)

\* Every epoch a Control Plane holds, has published or is about to publish was
\* granted by the lease.
GrantedInv ==
  \A c \in CP :
    /\ cp[c].epoch <= token /\ cp[c].seen <= token
    /\ cp[c].snap.epoch <= token /\ cp[c].rem.epoch <= token
    /\ \A p \in cp[c].pubs : p.at = "built" => p.epoch <= token

\* The Data Plane's records have their fields, of their types.
DataShape ==
  /\ dp = [up |-> dp.up, conn |-> dp.conn, ver |-> dp.ver, seen |-> dp.seen,
           hosts |-> dp.hosts, fp |-> dp.fp, rest |-> dp.rest, under |-> dp.under]
  /\ poll = [at |-> poll.at, epoch |-> poll.epoch, cur |-> poll.cur,
             chain |-> poll.chain, snap |-> poll.snap]
  /\ disk = [seen |-> disk.seen, good |-> [snap |-> disk.good.snap, hosts |-> disk.good.hosts]]
  /\ DataTypeOK

\* Every epoch the Data Plane has seen was granted, and what is in force is
\* within the ratchet.
RatchetInv ==
  /\ dp.seen <= token /\ dp.under <= dp.seen /\ beat <= token
  /\ poll.epoch <= token /\ poll.snap.epoch <= token
  /\ disk.seen <= token /\ disk.good.snap.epoch <= token

\* A snapshot about to be installed has already raised the ratchet, and a
\* process that is down has no poll under way.
Ready(d, q) ==
  /\ q.at = "install" => q.snap.epoch <= d.seen
  /\ ~d.up => q.at = "idle"

InstallInv == Ready(dp, poll)

ConfigInv == ControlTypeOK /\ VersionInv /\ GrantedInv /\ DataShape /\ RatchetInv /\ InstallInv

-----------------------------------------------------------------------------
(* The records.                                                            *)

\* Versions and epochs are numbers below their bounds.
LEMMA NumberFacts ==
  /\ MaxIssued \in Nat /\ MaxToken \in Nat /\ MaxVer \in Nat
  /\ \A v : v \in Version <=> v \in Nat /\ v <= MaxVer
  /\ \A e : e \in Epoch <=> e \in Nat /\ e <= MaxToken
<1>1. MaxIssued \in Nat /\ MaxToken \in Nat
  BY ConfigSyncAssumption
<1>2. MaxVer \in Nat
  BY <1>1 DEF MaxVer
<1> QED
  BY <1>1, <1>2 DEF Version, Epoch

\* The fields of a snapshot.
LEMMA SnapFacts ==
  /\ \A s \in Snapshot : s.ver \in Version /\ s.epoch \in Epoch /\ s.hosts \in SUBSET Hosts
  /\ NoSnap \in Snapshot /\ NoSnap.ver = 0 /\ NoSnap.epoch = 0
BY NumberFacts DEF Snapshot, NoSnap

\* A snapshot made of its parts.
LEMMA SnapOf ==
  ASSUME NEW v \in Version, NEW e \in Epoch, NEW h \in SUBSET Hosts
  PROVE  LET s == [ver |-> v, epoch |-> e, hosts |-> h]
         IN s \in Snapshot /\ s.ver = v /\ s.epoch = e /\ s.hosts = h
BY DEF Snapshot

\* The difference of two lists is a delta.
LEMMA DeltaType ==
  ASSUME NEW base \in Version, base + 1 \in Version, NEW s \in Snapshot, NEW new \in SUBSET Hosts
  PROVE  DeltaOf(base, s, new) \in Delta
<1> DEFINE add == IF s = NoSnap THEN {} ELSE new \ s.hosts
<1> DEFINE rem == IF s = NoSnap THEN {} ELSE s.hosts \ new
<1>1. add \in SUBSET Hosts /\ rem \in SUBSET Hosts
  BY SnapFacts
<1>2. (s = NoSnap) \in BOOLEAN
  OBVIOUS
<1>3. DeltaOf(base, s, new) = [base |-> base, ver |-> base + 1, fp |-> new, added |-> add,
                               removed |-> rem, resync |-> s = NoSnap]
  BY DEF DeltaOf
<1> HIDE DEF add, rem
<1> QED
  BY <1>1, <1>2, <1>3 DEF Delta

\* The ring keeps its size: an entry that does not fit pushes the oldest out.
LEMMA RingFacts ==
  ASSUME NEW ring \in Seq(Delta), Len(ring) <= RingSize, NEW d \in Delta
  PROVE  Recorded(ring, d) \in Seq(Delta) /\ Len(Recorded(ring, d)) <= RingSize
<1> DEFINE kept == IF ring # <<>> /\ d.base # Last(ring).ver THEN <<>> ELSE ring
<1> DEFINE all == Append(kept, d)
<1>0. RingSize \in Nat /\ RingSize >= 1
  BY ConfigSyncAssumption
<1>1. kept \in Seq(Delta) /\ Len(kept) <= RingSize /\ Len(kept) \in Nat
  BY <1>0
<1> HIDE DEF kept
<1>2. all \in Seq(Delta) /\ Len(all) = Len(kept) + 1 /\ all # <<>>
  BY <1>1
<1> HIDE DEF all
<1>3. Tail(all) \in Seq(Delta) /\ Len(Tail(all)) = Len(all) - 1
  BY <1>2
<1>4. Recorded(ring, d) = IF Len(all) > RingSize THEN Tail(all) ELSE all
  BY DEF Recorded, all, kept
<1> QED
  BY <1>0, <1>1, <1>2, <1>3, <1>4

\* The fields of a Control-Plane process.
LEMMA ControlFields ==
  ASSUME NEW r \in ControlPlane
  PROVE  /\ r.role \in {"off", "boot", "leader", "standby", "resync"} /\ r.epoch \in Epoch
         /\ r.ver \in Version /\ r.live \in SUBSET Hosts /\ r.snap \in Snapshot
         /\ r.ring \in Seq(Delta) /\ r.pubs \in SUBSET (Built \cup Committed)
         /\ r.repl \in Version /\ r.rem \in Snapshot /\ r.seen \in Epoch
BY DEF ControlPlane

\* The fields of the scenario.
LEMMA ScenarioFields ==
  ASSUME NEW l \in Scenario
  PROVE  /\ l.issues \in 0..MaxIssued /\ l.handlers \in Nat /\ l.grants \in 0..MaxToken
         /\ l.crashes \in Nat
BY DEF Scenario

-----------------------------------------------------------------------------
(* Budgets: what a publish, a crash and a grant may do to the counters.    *)

\* A publish no further than a seed ahead of all earlier ones stays within the
\* versions a behaviour can reach.
LEMMA IssueFacts ==
  ASSUME ConfigInv, NEW v \in Nat, v <= top + MaxIssued + 1, Issue(v)
  PROVE  /\ left' \in Scenario /\ left'.handlers = left.handlers
         /\ top' \in Version /\ top <= top' /\ v <= top' /\ v \in Version
         /\ top' <= (MaxIssued - left'.issues) * (MaxIssued + 1)
<1>1. /\ left \in Scenario /\ left["issues"] > 0
      /\ left' = [left EXCEPT !["issues"] = left["issues"] - 1]
      /\ top' = Bigger(top, v) /\ top \in Version /\ left.issues \in 0..MaxIssued
      /\ top <= (MaxIssued - left.issues) * (MaxIssued + 1)
  BY ScenarioFields DEF ConfigInv, ControlTypeOK, VersionInv, Issue, Spend
<1>a. left["issues"] - 1 \in 0..MaxIssued
  BY <1>1, NumberFacts
<1>2. left' \in Scenario /\ left'.handlers = left.handlers /\ left'.issues = left.issues - 1
  BY <1>1, <1>a DEF Scenario
<1>3. top \in Nat /\ top' \in Nat /\ top <= top' /\ v <= top' /\ top' <= top + MaxIssued + 1
  BY <1>1, NumberFacts DEF Bigger
<1> DEFINE i == left.issues
<1>4. i \in Nat /\ i - 1 \in Nat /\ i <= MaxIssued /\ MaxIssued \in Nat
  BY <1>1, NumberFacts
<1>5. (MaxIssued - (i - 1)) * (MaxIssued + 1) = (MaxIssued - i) * (MaxIssued + 1) + (MaxIssued + 1)
  BY <1>4
<1>6. top' <= (MaxIssued - left'.issues) * (MaxIssued + 1)
  BY <1>1, <1>2, <1>3, <1>4, <1>5
<1>7. (MaxIssued - (i - 1)) * (MaxIssued + 1) <= (MaxIssued + 1) * (MaxIssued + 1)
  BY <1>4
<1>8. top' <= MaxVer
  BY <1>2, <1>3, <1>4, <1>6, <1>7 DEF MaxVer
<1> QED
  BY <1>2, <1>3, <1>6, <1>8, NumberFacts

\* A crash is taken from its own budget.
LEMMA CrashBudget ==
  ASSUME ConfigInv, Spend("crashes")
  PROVE  left' \in Scenario /\ left'.handlers = left.handlers /\ left'.issues = left.issues
<1>1. left \in Scenario /\ left["crashes"] > 0 /\ left["crashes"] \in Nat
      /\ left' = [left EXCEPT !["crashes"] = left["crashes"] - 1]
  BY ScenarioFields DEF ConfigInv, ControlTypeOK, Spend
<1> QED
  BY <1>1 DEF Scenario

\* A grant is the next token, to a node.
LEMMA GrantFacts ==
  ASSUME ConfigInv, NEW c \in CP, Grant(c)
  PROVE  holder' \in CP \cup {Nobody} /\ token' = token + 1 /\ token' \in Epoch /\ token \in Nat
<1>1. left.grants \in 0..MaxToken /\ token \in Epoch /\ token < left.grants
  BY ScenarioFields DEF ConfigInv, ControlTypeOK, Grant
<1> QED
  BY <1>1, NumberFacts DEF Grant

-----------------------------------------------------------------------------
(* A step of one Control Plane.                                            *)

\* What a step of the Control Plane c must leave for the invariant: a
\* well-formed process r whose ring, handlers, versions and stamps are in bounds.
Fits(r) ==
  /\ r \in ControlPlane
  /\ Len(r.ring) <= RingSize /\ IsFiniteSet(r.pubs) /\ Cardinality(r.pubs) <= left.handlers
  /\ r.ver <= top' /\ r.repl <= top' /\ r.snap.ver <= top'
  /\ r.epoch <= token' /\ r.seen <= token' /\ r.snap.epoch <= token' /\ r.rem.epoch <= token'
  /\ \A p \in r.pubs : p.at = "built" => p.epoch <= token'

\* The lease, the saved roles and the budgets only move forward.
Frame ==
  /\ holder' \in CP \cup {Nobody} /\ token' \in Epoch /\ token <= token'
  /\ saved' \in [CP -> {"leader", "standby", "absent"}]
  /\ left' \in Scenario /\ left'.handlers = left.handlers
  /\ top' \in Version /\ top <= top'
  /\ top' <= (MaxIssued - left'.issues) * (MaxIssued + 1)

\* The Data Plane does not notice a step of the Control Planes.
LEMMA DataSame ==
  ASSUME ConfigInv, UNCHANGED dpVars, token' \in Epoch, token <= token'
  PROVE  DataShape' /\ RatchetInv' /\ InstallInv'
<1>1. dp' = dp /\ poll' = poll /\ beat' = beat /\ disk' = disk
  BY DEF dpVars
<1>2. DataShape'
  BY <1>1 DEF ConfigInv, DataShape, DataTypeOK
<1>3. /\ token \in Nat /\ token' \in Nat /\ dp.seen \in Nat /\ beat \in Nat /\ poll.epoch \in Nat
      /\ poll.snap.epoch \in Nat /\ disk.seen \in Nat /\ disk.good.snap.epoch \in Nat
  BY NumberFacts, SnapFacts DEF ConfigInv, ControlTypeOK, DataShape, DataTypeOK
<1>4. RatchetInv'
  BY <1>1, <1>3 DEF ConfigInv, RatchetInv
<1>5. InstallInv'
  BY <1>1 DEF ConfigInv, InstallInv, Ready
<1> QED
  BY <1>2, <1>4, <1>5

\* A Control Plane replaced by one that fits preserves its part of the invariant.
LEMMA ControlMoves ==
  ASSUME ConfigInv, NEW c \in CP, NEW r, Fits(r), Frame, cp' = [cp EXCEPT ![c] = r]
  PROVE  ControlTypeOK' /\ VersionInv' /\ GrantedInv'
<1>0. /\ cp \in [CP -> ControlPlane] /\ r \in ControlPlane
      /\ token \in Nat /\ token' \in Nat /\ token <= token'
      /\ top \in Nat /\ top' \in Nat /\ top <= top'
  BY NumberFacts DEF ConfigInv, ControlTypeOK, Fits, Frame
<1>1. cp' \in [CP -> ControlPlane] /\ cp'[c] = r /\ \A d \in CP : d # c => cp'[d] = cp[d]
  BY <1>0
<1>2. \A d \in CP : /\ Len(cp[d].ring) <= RingSize /\ IsFiniteSet(cp[d].pubs)
                    /\ Cardinality(cp[d].pubs) <= left.handlers
  BY DEF ConfigInv, ControlTypeOK
<1>3. \A d \in CP : /\ Len(cp'[d].ring) <= RingSize /\ IsFiniteSet(cp'[d].pubs)
                    /\ Cardinality(cp'[d].pubs) <= left'.handlers
  BY <1>1, <1>2 DEF Fits, Frame
<1>4. ControlTypeOK'
  BY <1>1, <1>3 DEF ControlTypeOK, Frame
<1>5. ASSUME NEW d \in CP
      PROVE  cp'[d].ver <= top' /\ cp'[d].repl <= top' /\ cp'[d].snap.ver <= top'
  <2>1. CASE d = c
    BY <2>1, <1>1 DEF Fits
  <2>2. CASE d # c
    <3>1. cp[d].ver \in Nat /\ cp[d].repl \in Nat /\ cp[d].snap.ver \in Nat
      BY <1>0, ControlFields, SnapFacts, NumberFacts
    <3>2. cp[d].ver <= top /\ cp[d].repl <= top /\ cp[d].snap.ver <= top
      BY DEF ConfigInv, VersionInv
    <3> QED
      BY <2>2, <3>1, <3>2, <1>0, <1>1
  <2> QED
    BY <2>1, <2>2
<1>6. VersionInv'
  BY <1>5 DEF VersionInv, Frame
<1>7. ASSUME NEW d \in CP
      PROVE  /\ cp'[d].epoch <= token' /\ cp'[d].seen <= token'
             /\ cp'[d].snap.epoch <= token' /\ cp'[d].rem.epoch <= token'
             /\ \A p \in cp'[d].pubs : p.at = "built" => p.epoch <= token'
  <2>1. CASE d = c
    BY <2>1, <1>1 DEF Fits
  <2>2. CASE d # c
    <3>1. /\ cp[d].epoch \in Nat /\ cp[d].seen \in Nat /\ cp[d].snap.epoch \in Nat
          /\ cp[d].rem.epoch \in Nat /\ cp[d].pubs \in SUBSET (Built \cup Committed)
      BY <1>0, ControlFields, SnapFacts, NumberFacts
    <3>2. /\ cp[d].epoch <= token /\ cp[d].seen <= token
          /\ cp[d].snap.epoch <= token /\ cp[d].rem.epoch <= token
          /\ \A p \in cp[d].pubs : p.at = "built" => p.epoch <= token
      BY DEF ConfigInv, GrantedInv
    <3>3. \A p \in cp[d].pubs : p.at = "built" => p.epoch \in Nat
      BY <3>1, NumberFacts DEF Built, Committed
    <3> QED
      BY <2>2, <3>1, <3>2, <3>3, <1>0, <1>1
  <2> QED
    BY <2>1, <2>2
<1>8. GrantedInv'
  BY <1>7 DEF GrantedInv
<1> QED
  BY <1>4, <1>6, <1>8

\* Such a step that does not reach the Data Plane preserves all of it.
LEMMA ControlStep ==
  ASSUME ConfigInv, NEW c \in CP, NEW r, Fits(r), Frame, cp' = [cp EXCEPT ![c] = r],
         UNCHANGED dpVars
  PROVE  ConfigInv'
<1>1. ControlTypeOK' /\ VersionInv' /\ GrantedInv'
  BY ControlMoves
<1>2. DataShape' /\ RatchetInv' /\ InstallInv'
  BY DataSame DEF Frame
<1> QED
  BY <1>1, <1>2 DEF ConfigInv

\* What the invariant says of the parts a step leaves alone.
LEMMA Standing ==
  ASSUME ConfigInv
  PROVE  /\ holder \in CP \cup {Nobody} /\ token \in Epoch /\ token \in Nat
         /\ saved \in [CP -> {"leader", "standby", "absent"}]
         /\ left \in Scenario /\ left.handlers \in Nat /\ left.issues \in 0..MaxIssued
         /\ top \in Version /\ top \in Nat
         /\ top <= (MaxIssued - left.issues) * (MaxIssued + 1)
BY NumberFacts, ScenarioFields DEF ConfigInv, ControlTypeOK, VersionInv

\* What the invariant says of one Control Plane.
LEMMA ControlKnown ==
  ASSUME ConfigInv, NEW c \in CP
  PROVE  /\ cp[c] \in ControlPlane /\ Len(cp[c].ring) <= RingSize
         /\ IsFiniteSet(cp[c].pubs) /\ Cardinality(cp[c].pubs) <= left.handlers
         /\ cp[c].epoch \in Epoch /\ cp[c].seen \in Epoch /\ cp[c].live \in SUBSET Hosts
         /\ cp[c].snap \in Snapshot /\ cp[c].rem \in Snapshot /\ cp[c].ring \in Seq(Delta)
         /\ cp[c].ver \in Version /\ cp[c].repl \in Version
         /\ cp[c].pubs \in SUBSET (Built \cup Committed)
         /\ cp[c].ver \in Nat /\ cp[c].ver <= top /\ cp[c].repl \in Nat /\ cp[c].repl <= top
         /\ cp[c].snap.ver \in Nat /\ cp[c].snap.ver <= top
         /\ cp[c].epoch \in Nat /\ cp[c].epoch <= token /\ cp[c].seen \in Nat /\ cp[c].seen <= token
         /\ cp[c].snap.epoch \in Nat /\ cp[c].snap.epoch <= token
         /\ cp[c].rem.epoch \in Nat /\ cp[c].rem.epoch <= token
         /\ \A p \in cp[c].pubs : p.at = "built" => p.epoch \in Nat /\ p.epoch <= token
<1>1. /\ cp[c] \in ControlPlane /\ Len(cp[c].ring) <= RingSize
      /\ IsFiniteSet(cp[c].pubs) /\ Cardinality(cp[c].pubs) <= left.handlers
  BY DEF ConfigInv, ControlTypeOK
<1>2. /\ cp[c].epoch \in Epoch /\ cp[c].seen \in Epoch /\ cp[c].live \in SUBSET Hosts
      /\ cp[c].snap \in Snapshot /\ cp[c].rem \in Snapshot /\ cp[c].ring \in Seq(Delta)
      /\ cp[c].ver \in Version /\ cp[c].repl \in Version
      /\ cp[c].pubs \in SUBSET (Built \cup Committed)
  BY <1>1, ControlFields
<1>3. /\ cp[c].ver \in Nat /\ cp[c].repl \in Nat /\ cp[c].snap.ver \in Nat
      /\ cp[c].epoch \in Nat /\ cp[c].seen \in Nat /\ cp[c].snap.epoch \in Nat
      /\ cp[c].rem.epoch \in Nat
  BY <1>2, SnapFacts, NumberFacts
<1>4. \A p \in cp[c].pubs : p.at = "built" => p.epoch \in Nat
  BY <1>2, NumberFacts DEF Built, Committed
<1>5. /\ cp[c].ver <= top /\ cp[c].repl <= top /\ cp[c].snap.ver <= top
      /\ cp[c].epoch <= token /\ cp[c].seen <= token
      /\ cp[c].snap.epoch <= token /\ cp[c].rem.epoch <= token
      /\ \A p \in cp[c].pubs : p.at = "built" => p.epoch <= token
  BY DEF ConfigInv, VersionInv, GrantedInv
<1> QED
  BY <1>1, <1>2, <1>3, <1>4, <1>5

\* The lease, the roles and the budgets left alone.
LEMMA FrameSame ==
  ASSUME ConfigInv, UNCHANGED <<lease, saved, left, top>>
  PROVE  Frame
BY Standing DEF Frame, lease

-----------------------------------------------------------------------------
(* Publishing.                                                             *)

\* A handler builds the snapshot it will publish.
LEMMA BuildKeeps ==
  ASSUME ConfigInv, NEW c \in CP, Build(c)
  PROVE  ConfigInv'
<1>1. PICK hosts \in SUBSET Hosts :
        cp' = [cp EXCEPT ![c].live = hosts, ![c].pubs =
                 @ \cup {[at |-> "built", epoch |-> cp[c].epoch, hosts |-> hosts]}]
  <2>1. SUBSET left.hosts \subseteq SUBSET Hosts
    BY Standing DEF Scenario
  <2> QED
    BY <2>1 DEF Build
<1> DEFINE b == [at |-> "built", epoch |-> cp[c].epoch, hosts |-> hosts]
<1> DEFINE r == [cp[c] EXCEPT !.live = hosts, !.pubs = cp[c].pubs \cup {b}]
<1>2. /\ cp[c] \in ControlPlane /\ cp[c].epoch \in Epoch /\ IsFiniteSet(cp[c].pubs)
      /\ cp[c].pubs \in SUBSET (Built \cup Committed)
  BY ControlKnown
<1>3. b \in Built /\ b.epoch = cp[c].epoch
  BY <1>2 DEF Built
<1>4. /\ Cardinality(cp[c].pubs) < left.handlers /\ left.handlers \in Nat
      /\ UNCHANGED <<lease, saved, left, top, dpVars>>
  BY Standing DEF Build
<1> HIDE DEF b
<1>5. /\ IsFiniteSet(cp[c].pubs \cup {b}) /\ Cardinality(cp[c].pubs) \in Nat
      /\ Cardinality(cp[c].pubs \cup {b})
           = IF b \in cp[c].pubs THEN Cardinality(cp[c].pubs) ELSE Cardinality(cp[c].pubs) + 1
  BY <1>2, FS_AddElement, FS_CardinalityType
<1>6. Cardinality(cp[c].pubs \cup {b}) <= left.handlers
  BY <1>4, <1>5
<1>7. /\ r \in ControlPlane /\ r.live = hosts /\ r.pubs = cp[c].pubs \cup {b}
      /\ r.ring = cp[c].ring /\ r.ver = cp[c].ver /\ r.repl = cp[c].repl /\ r.snap = cp[c].snap
      /\ r.epoch = cp[c].epoch /\ r.seen = cp[c].seen /\ r.rem = cp[c].rem
  BY <1>2, <1>3 DEF ControlPlane
<1>8. cp' = [cp EXCEPT ![c] = r]
  BY <1>1 DEF b
<1> HIDE DEF r
<1>9. Fits(r)
  BY <1>3, <1>4, <1>5, <1>6, <1>7, ControlKnown DEF Fits, lease
<1> QED
  BY <1>4, <1>8, <1>9, FrameSame, ControlStep

\* ConfigStore.Update under its lock.
LEMMA CommitKeeps ==
  ASSUME ConfigInv, NEW c \in CP, Commit(c)
  PROVE  ConfigInv'
<1>1. PICK p \in cp[c].pubs :
        /\ p.at = "built" /\ Issue(cp[c].ver + 1) /\ UNCHANGED <<lease, saved, dpVars>>
        /\ cp' = [cp EXCEPT ![c].ver = cp[c].ver + 1,
                    ![c].snap = [ver |-> cp[c].ver + 1, epoch |-> p.epoch, hosts |-> p.hosts],
                    ![c].pubs = (@ \ {p}) \cup
                      {[at |-> "committed", delta |-> DeltaOf(cp[c].ver, cp[c].snap, p.hosts)]}]
  BY DEF Commit
<1> DEFINE v == cp[c].ver + 1
<1> DEFINE s == [ver |-> v, epoch |-> p.epoch, hosts |-> p.hosts]
<1> DEFINE b == [at |-> "committed", delta |-> DeltaOf(cp[c].ver, cp[c].snap, p.hosts)]
<1> DEFINE r == [cp[c] EXCEPT !.ver = v, !.snap = s, !.pubs = (cp[c].pubs \ {p}) \cup {b}]
<1>2. /\ cp[c] \in ControlPlane /\ IsFiniteSet(cp[c].pubs) /\ cp[c].ver \in Nat /\ cp[c].ver <= top
      /\ cp[c].pubs \in SUBSET (Built \cup Committed) /\ cp[c].snap \in Snapshot
      /\ cp[c].ver \in Version /\ p.epoch \in Nat /\ p.epoch <= token
  BY <1>1, ControlKnown
<1>3. p.epoch \in Epoch /\ p.hosts \in SUBSET Hosts
  BY <1>1, <1>2 DEF Built, Committed
<1>4. v \in Nat /\ v <= top + MaxIssued + 1 /\ top \in Nat
  BY <1>2, Standing, NumberFacts
<1>5. /\ left' \in Scenario /\ left'.handlers = left.handlers /\ top' \in Version
      /\ top <= top' /\ v <= top' /\ v \in Version
      /\ top' <= (MaxIssued - left'.issues) * (MaxIssued + 1) /\ top' \in Nat
  BY <1>1, <1>4, IssueFacts, NumberFacts
<1>6. s \in Snapshot /\ s.ver = v /\ s.epoch = p.epoch
  BY <1>3, <1>5, SnapOf
<1>7. DeltaOf(cp[c].ver, cp[c].snap, p.hosts) \in Delta
  BY <1>2, <1>3, <1>5, DeltaType
<1>8. b \in Committed /\ b.at = "committed"
  BY <1>7 DEF Committed
<1> HIDE DEF b
<1>9. /\ IsFiniteSet((cp[c].pubs \ {p}) \cup {b})
      /\ Cardinality((cp[c].pubs \ {p}) \cup {b}) <= Cardinality(cp[c].pubs)
      /\ Cardinality((cp[c].pubs \ {p}) \cup {b}) \in Nat /\ Cardinality(cp[c].pubs) \in Nat
  <2>1. IsFiniteSet(cp[c].pubs \ {p}) /\ Cardinality(cp[c].pubs \ {p}) = Cardinality(cp[c].pubs) - 1
    BY <1>1, <1>2, FS_RemoveElement
  <2>2. /\ IsFiniteSet((cp[c].pubs \ {p}) \cup {b})
        /\ Cardinality((cp[c].pubs \ {p}) \cup {b})
             = IF b \in cp[c].pubs \ {p} THEN Cardinality(cp[c].pubs \ {p})
               ELSE Cardinality(cp[c].pubs \ {p}) + 1
    BY <2>1, FS_AddElement
  <2> QED
    BY <1>2, <2>1, <2>2, FS_CardinalityType
<1>10. v \in Version /\ s \in Snapshot /\ (cp[c].pubs \ {p}) \cup {b} \in SUBSET (Built \cup Committed)
  BY <1>2, <1>5, <1>6, <1>8
<1>11. cp' = [cp EXCEPT ![c] = r]
  BY <1>1 DEF b
<1> HIDE DEF v, s
<1>12. /\ r \in ControlPlane /\ r.ver = v /\ r.snap = s /\ r.pubs = (cp[c].pubs \ {p}) \cup {b}
       /\ r.ring = cp[c].ring /\ r.repl = cp[c].repl /\ r.live = cp[c].live
       /\ r.epoch = cp[c].epoch /\ r.seen = cp[c].seen /\ r.rem = cp[c].rem
  BY <1>2, <1>10 DEF ControlPlane
<1> HIDE DEF r
<1>13. token' = token /\ holder' = holder /\ saved' = saved
  BY <1>1 DEF lease
<1>14. Frame
  BY <1>5, <1>13, Standing DEF Frame
<1>15. Fits(r)
  <2>1. Cardinality(r.pubs) <= left.handlers
    BY <1>9, <1>12, ControlKnown, Standing
  <2>2. r.repl <= top'
    BY <1>5, <1>12, ControlKnown, Standing
  <2>3. \A q \in r.pubs : q.at = "built" => q.epoch <= token'
    BY <1>8, <1>12, <1>13, ControlKnown
  <2> QED
    BY <1>2, <1>5, <1>6, <1>9, <1>12, <1>13, <2>1, <2>2, <2>3, ControlKnown DEF Fits
<1> QED
  BY <1>1, <1>11, <1>14, <1>15, ControlStep

\* ConfigStore.Update after its lock: the delta enters the ring.
LEMMA RecordKeeps ==
  ASSUME ConfigInv, NEW c \in CP, Record(c)
  PROVE  ConfigInv'
<1>1. PICK p \in cp[c].pubs :
        /\ p.at = "committed" /\ UNCHANGED <<lease, saved, left, top, dpVars>>
        /\ cp' = [cp EXCEPT ![c].ring = Recorded(@, p.delta), ![c].pubs = @ \ {p}]
  BY DEF Record
<1> DEFINE ring == Recorded(cp[c].ring, p.delta)
<1> DEFINE r == [cp[c] EXCEPT !.ring = ring, !.pubs = cp[c].pubs \ {p}]
<1>2. /\ cp[c] \in ControlPlane /\ IsFiniteSet(cp[c].pubs) /\ cp[c].ring \in Seq(Delta)
      /\ Len(cp[c].ring) <= RingSize /\ cp[c].pubs \in SUBSET (Built \cup Committed)
      /\ Cardinality(cp[c].pubs) <= left.handlers /\ left.handlers \in Nat
  BY ControlKnown, Standing
<1>3. p.delta \in Delta
  BY <1>1, <1>2 DEF Built, Committed
<1>4. ring \in Seq(Delta) /\ Len(ring) <= RingSize
  BY <1>2, <1>3, RingFacts
<1>5. IsFiniteSet(cp[c].pubs \ {p}) /\ Cardinality(cp[c].pubs \ {p}) <= left.handlers
  BY <1>1, <1>2, FS_RemoveElement, FS_CardinalityType
<1>6. cp' = [cp EXCEPT ![c] = r]
  BY <1>1
<1> HIDE DEF ring
<1>7. /\ r \in ControlPlane /\ r.ring = ring /\ r.pubs = cp[c].pubs \ {p}
      /\ r.ver = cp[c].ver /\ r.repl = cp[c].repl /\ r.snap = cp[c].snap
      /\ r.epoch = cp[c].epoch /\ r.seen = cp[c].seen /\ r.rem = cp[c].rem
  BY <1>2, <1>4 DEF ControlPlane
<1> HIDE DEF r
<1>8. Fits(r)
  BY <1>1, <1>4, <1>5, <1>7, ControlKnown DEF Fits, lease
<1> QED
  BY <1>1, <1>6, <1>8, FrameSame, ControlStep

-----------------------------------------------------------------------------
(* Control-Plane processes and their roles.                                *)

\* The seed is at most MaxIssued ahead of every version published so far.
LEMMA ArmFacts ==
  ASSUME ConfigInv, NEW c \in CP, NEW now \in Clock
  PROVE  Arm(c, now) \in Nat /\ Arm(c, now) + 1 <= top + MaxIssued + 1
<1>1. /\ cp[c].ver \in Nat /\ cp[c].ver <= top /\ cp[c].repl \in Nat /\ cp[c].repl <= top
      /\ top \in Nat /\ MaxIssued \in Nat
  BY ControlKnown, Standing, NumberFacts
<1>2. now = 0 \/ now = top + MaxIssued
  BY DEF Clock
<1> QED
  BY <1>1, <1>2 DEF Arm, Bigger

\* A process whose enableControlPlane has published fits, in either role.
LEMMA EnabledFits ==
  ASSUME ConfigInv, NEW c \in CP, NEW now \in Clock, NEW e \in Epoch, NEW to \in {"boot", "leader"},
         Issue(Arm(c, now) + 1), token' \in Nat, token <= token', e <= token'
  PROVE  /\ Fits([Enabled(c, now, e) EXCEPT !.role = to])
         /\ left' \in Scenario /\ left'.handlers = left.handlers /\ top' \in Version
         /\ top <= top' /\ top' <= (MaxIssued - left'.issues) * (MaxIssued + 1)
<1> DEFINE base == Arm(c, now)
<1> DEFINE s == [ver |-> base + 1, epoch |-> e, hosts |-> cp[c].live]
<1> DEFINE ring == Recorded(cp[c].ring, DeltaOf(base, cp[c].snap, cp[c].live))
<1> DEFINE q == [cp[c] EXCEPT !.ver = base + 1, !.snap = s, !.ring = ring, !.epoch = e]
<1> DEFINE r == [q EXCEPT !.role = to]
<1>1. base \in Nat /\ base + 1 \in Nat /\ base + 1 <= top + MaxIssued + 1
  BY ArmFacts
<1>2. /\ left' \in Scenario /\ left'.handlers = left.handlers /\ top' \in Version
      /\ top <= top' /\ base + 1 <= top' /\ base + 1 \in Version
      /\ top' <= (MaxIssued - left'.issues) * (MaxIssued + 1)
  BY <1>1, IssueFacts
<1>3. base \in Version /\ top' \in Nat /\ top \in Nat /\ token \in Nat
  BY <1>1, <1>2, NumberFacts, Standing
<1>4. /\ cp[c] \in ControlPlane /\ cp[c].live \in SUBSET Hosts /\ cp[c].snap \in Snapshot
      /\ cp[c].ring \in Seq(Delta) /\ Len(cp[c].ring) <= RingSize
  BY ControlKnown
<1>5. s \in Snapshot /\ s.ver = base + 1 /\ s.epoch = e
  BY <1>2, <1>4, SnapOf
<1>6. ring \in Seq(Delta) /\ Len(ring) <= RingSize
  BY <1>2, <1>3, <1>4, DeltaType, RingFacts
<1>7. [Enabled(c, now, e) EXCEPT !.role = to] = r
  BY DEF Enabled
<1> HIDE DEF s, ring, base
<1>8. /\ r \in ControlPlane /\ r.ring = ring /\ r.ver = base + 1 /\ r.snap = s /\ r.epoch = e
      /\ r.pubs = cp[c].pubs /\ r.repl = cp[c].repl /\ r.seen = cp[c].seen /\ r.rem = cp[c].rem
  BY <1>2, <1>4, <1>5, <1>6 DEF ControlPlane
<1> HIDE DEF r
<1>9. cp[c].repl <= top' /\ cp[c].seen <= token' /\ cp[c].rem.epoch <= token'
  BY <1>2, <1>3, ControlKnown
<1>10. \A p \in cp[c].pubs : p.at = "built" => p.epoch <= token'
  BY <1>3, ControlKnown
<1>11. Fits(r)
  BY <1>2, <1>5, <1>6, <1>8, <1>9, <1>10, ControlKnown DEF Fits
<1> QED
  BY <1>2, <1>7, <1>11

\* A process that changes only its role and epoch fits.
LEMMA TurnFits ==
  ASSUME ConfigInv, NEW c \in CP, NEW e \in Epoch, token' \in Nat, token <= token', e <= token',
         NEW to \in {"off", "boot", "leader", "standby", "resync"}, top' = top
  PROVE  Fits([cp[c] EXCEPT !.role = to, !.epoch = e])
<1> DEFINE r == [cp[c] EXCEPT !.role = to, !.epoch = e]
<1>1. cp[c] \in ControlPlane /\ token \in Nat
  BY ControlKnown, Standing
<1>2. /\ r \in ControlPlane /\ r.epoch = e /\ r.ring = cp[c].ring /\ r.ver = cp[c].ver
      /\ r.snap = cp[c].snap /\ r.pubs = cp[c].pubs /\ r.repl = cp[c].repl
      /\ r.seen = cp[c].seen /\ r.rem = cp[c].rem
  BY <1>1 DEF ControlPlane
<1> HIDE DEF r
<1>3. cp[c].seen <= token' /\ cp[c].rem.epoch <= token' /\ cp[c].snap.epoch <= token'
  BY <1>1, ControlKnown
<1>4. \A p \in cp[c].pubs : p.at = "built" => p.epoch <= token'
  BY <1>1, ControlKnown
<1>5. Fits(r)
  BY <1>2, <1>3, <1>4, ControlKnown DEF Fits
<1> QED
  BY <1>5 DEF r

\* A restart publishes as a saved leader, or waits as a standby.
LEMMA BootKeeps ==
  ASSUME ConfigInv, NEW c \in CP, Boot(c)
  PROVE  ConfigInv'
<1>a. UNCHANGED <<lease, saved, dpVars>>
  BY DEF Boot
<1>b. /\ token' = token /\ token \in Nat /\ 0 \in Epoch /\ token' \in Nat /\ token <= token' /\ 0 <= token'
      /\ cp[c] \in ControlPlane /\ cp[c].epoch \in Epoch /\ cp[c].epoch <= token'
  <2>1. token' = token
    BY <1>a DEF lease
  <2>2. token \in Nat /\ 0 \in Epoch
    BY Standing, NumberFacts
  <2>3. cp[c] \in ControlPlane /\ cp[c].epoch \in Epoch /\ cp[c].epoch <= token
    BY ControlKnown
  <2> QED
    BY <2>1, <2>2, <2>3
<1>0. UNCHANGED <<lease, saved, dpVars>> /\ token' = token
  BY <1>a, <1>b
<1>1. CASE \E now \in Clock :
             /\ Issue(Arm(c, now) + 1)
             /\ cp' = [cp EXCEPT ![c] = [Enabled(c, now, 0) EXCEPT !.role = "boot"]]
  <2>1. PICK now \in Clock :
             /\ Issue(Arm(c, now) + 1)
             /\ cp' = [cp EXCEPT ![c] = [Enabled(c, now, 0) EXCEPT !.role = "boot"]]
    BY <1>1
  <2> DEFINE r == [Enabled(c, now, 0) EXCEPT !.role = "boot"]
  <2>2. /\ Fits(r) /\ left' \in Scenario /\ left'.handlers = left.handlers /\ top' \in Version
        /\ top <= top' /\ top' <= (MaxIssued - left'.issues) * (MaxIssued + 1)
    BY <1>b, <2>1, EnabledFits
  <2>3. Frame
    BY <1>0, <2>2, Standing DEF Frame, lease
  <2>4. cp' = [cp EXCEPT ![c] = r]
    BY <2>1
  <2> HIDE DEF r
  <2> QED
    BY <1>0, <2>2, <2>3, <2>4, ControlStep
<1>2. CASE cp' = [cp EXCEPT ![c].role = "standby"] /\ UNCHANGED <<left, top>>
  <2> DEFINE r == [cp[c] EXCEPT !.role = "standby", !.epoch = cp[c].epoch]
  <2>1. [cp[c] EXCEPT !.role = "standby"] = r
    BY <1>b DEF ControlPlane
  <2>2. cp' = [cp EXCEPT ![c] = r]
    BY <1>2, <2>1
  <2>3. Fits(r)
    BY <1>b, <1>2, TurnFits
  <2> HIDE DEF r
  <2> QED
    BY <1>0, <1>2, <2>2, <2>3, FrameSame, ControlStep
<1> QED
  BY <1>1, <1>2 DEF Boot

\* ResumeAsLeader, granted or not.
LEMMA ResumeKeeps ==
  ASSUME ConfigInv, NEW c \in CP, Resume(c)
  PROVE  ConfigInv'
<1>0. /\ UNCHANGED <<left, top, dpVars>> /\ token \in Nat
      /\ cp[c] \in ControlPlane /\ cp[c].epoch \in Epoch /\ cp[c].epoch <= token
  BY Standing, ControlKnown DEF Resume
<1>1. CASE Grant(c) /\ UNCHANGED saved
           /\ cp' = [cp EXCEPT ![c].role = "leader", ![c].epoch = token + 1]
  <2> DEFINE r == [cp[c] EXCEPT !.role = "leader", !.epoch = token + 1]
  <2>1. /\ holder' \in CP \cup {Nobody} /\ token' = token + 1 /\ token' \in Epoch /\ token' \in Nat
        /\ token <= token' /\ token + 1 \in Epoch /\ token + 1 <= token' /\ top' = top
    BY <1>0, <1>1, GrantFacts
  <2>2. cp' = [cp EXCEPT ![c] = r]
    BY <1>1
  <2>3. Fits(r)
    BY <1>0, <2>1, TurnFits
  <2> HIDE DEF r
  <2>4. Frame
    BY <1>0, <1>1, <2>1, Standing DEF Frame
  <2> QED
    BY <1>0, <2>2, <2>3, <2>4, ControlStep
<1>2. CASE /\ cp' = [cp EXCEPT ![c].role = "resync"]
           /\ saved' = [saved EXCEPT ![c] = "standby"] /\ UNCHANGED lease
  <2> DEFINE r == [cp[c] EXCEPT !.role = "resync", !.epoch = cp[c].epoch]
  <2>1. [cp[c] EXCEPT !.role = "resync"] = r
    BY <1>0 DEF ControlPlane
  <2>2. cp' = [cp EXCEPT ![c] = r]
    BY <1>2, <2>1
  <2>3. Fits(r)
    <3>1. token' \in Nat /\ token <= token' /\ cp[c].epoch <= token' /\ top' = top
      BY <1>0, <1>2 DEF lease
    <3> QED
      BY <1>0, <3>1, TurnFits
  <2> HIDE DEF r
  <2>4. Frame
    BY <1>0, <1>2, Standing DEF Frame, lease
  <2> QED
    BY <1>0, <2>2, <2>3, <2>4, ControlStep
<1> QED
  BY <1>1, <1>2 DEF Resume

\* A standby is promoted and publishes.
LEMMA PromoteStandbyKeeps ==
  ASSUME ConfigInv, NEW c \in CP, PromoteStandby(c)
  PROVE  ConfigInv'
<1>1. /\ holder' \in CP \cup {Nobody} /\ token' = token + 1 /\ token' \in Epoch /\ token \in Nat
      /\ token' \in Nat /\ token <= token' /\ token + 1 \in Epoch /\ token + 1 <= token'
      /\ dpVars' = dpVars /\ saved' = [saved EXCEPT ![c] = "leader"]
  BY GrantFacts DEF PromoteStandby
<1>2. PICK now \in Clock :
        /\ Issue(Arm(c, now) + 1)
        /\ cp' = [cp EXCEPT ![c] = [Enabled(c, now, token + 1) EXCEPT !.role = "leader"]]
  BY DEF PromoteStandby
<1> DEFINE r == [Enabled(c, now, token + 1) EXCEPT !.role = "leader"]
<1>3. /\ Fits(r) /\ left' \in Scenario /\ left'.handlers = left.handlers /\ top' \in Version
      /\ top <= top' /\ top' <= (MaxIssued - left'.issues) * (MaxIssued + 1)
  BY <1>1, <1>2, EnabledFits
<1>4. cp' = [cp EXCEPT ![c] = r]
  BY <1>2
<1> HIDE DEF r
<1>5. Frame
  BY <1>1, <1>3, Standing DEF Frame
<1> QED
  BY <1>1, <1>3, <1>4, <1>5, ControlStep

\* A former leader is promoted; it publishes nothing.
LEMMA PromoteResyncKeeps ==
  ASSUME ConfigInv, NEW c \in CP, PromoteResync(c)
  PROVE  ConfigInv'
<1> DEFINE r == [cp[c] EXCEPT !.role = "leader", !.epoch = token + 1]
<1>1. /\ holder' \in CP \cup {Nobody} /\ token' = token + 1 /\ token' \in Epoch /\ token \in Nat
      /\ token' \in Nat /\ token <= token' /\ token + 1 \in Epoch /\ token + 1 <= token'
      /\ left' = left /\ top' = top /\ dpVars' = dpVars
      /\ saved' = [saved EXCEPT ![c] = "leader"]
  BY GrantFacts DEF PromoteResync
<1>2. cp' = [cp EXCEPT ![c] = r]
  BY DEF PromoteResync
<1>3. Fits(r)
  BY <1>1, TurnFits
<1> HIDE DEF r
<1>4. Frame
  BY <1>1, Standing DEF Frame
<1> QED
  BY <1>1, <1>2, <1>3, <1>4, ControlStep

\* A leader that lost its lease steps down and keeps serving.
LEMMA FenceKeeps ==
  ASSUME ConfigInv, NEW c \in CP, Fence(c)
  PROVE  ConfigInv'
<1> DEFINE r == [cp[c] EXCEPT !.role = "resync", !.epoch = 0]
<1>1. /\ UNCHANGED <<lease, left, top, dpVars>> /\ saved' = [saved EXCEPT ![c] = "standby"]
      /\ token' = token /\ token' \in Nat /\ token <= token' /\ 0 \in Epoch /\ 0 <= token'
      /\ top' = top
  BY Standing, NumberFacts DEF Fence, lease
<1>2. cp' = [cp EXCEPT ![c] = r]
  BY DEF Fence
<1>3. Fits(r)
  BY <1>1, TurnFits
<1> HIDE DEF r
<1>4. Frame
  BY <1>1, Standing DEF Frame, lease
<1> QED
  BY <1>1, <1>2, <1>3, <1>4, ControlStep

\* A process dies with everything but its version floor and live configuration.
LEMMA CrashKeeps ==
  ASSUME ConfigInv, NEW c \in CP, Crash(c)
  PROVE  ConfigInv'
<1> DEFINE r == [Off EXCEPT !.ver = cp[c].ver, !.live = cp[c].live]
<1>1. /\ Spend("crashes") /\ UNCHANGED <<lease, saved, top, dpVars>>
      /\ cp' = [cp EXCEPT ![c] = r] /\ token' = token
  BY DEF Crash, lease
<1>2. left' \in Scenario /\ left'.handlers = left.handlers /\ left'.issues = left.issues
  BY <1>1, CrashBudget
<1>3. Frame
  BY <1>1, <1>2, Standing DEF Frame, lease
<1>4. /\ cp[c].ver \in Version /\ cp[c].live \in SUBSET Hosts /\ cp[c].ver <= top
      /\ token \in Nat /\ top \in Nat /\ left.handlers \in Nat /\ 0 \in Version /\ 0 \in Epoch
      /\ RingSize \in Nat /\ NoSnap \in Snapshot /\ NoSnap.ver = 0 /\ NoSnap.epoch = 0
  BY ControlKnown, Standing, NumberFacts, SnapFacts, ConfigSyncAssumption
<1>5. IsFiniteSet({}) /\ Cardinality({}) = 0 /\ <<>> \in Seq(Delta) /\ Len(<<>>) = 0
  BY FS_EmptySet
<1>6. /\ r \in ControlPlane /\ r.ring = <<>> /\ r.pubs = {} /\ r.ver = cp[c].ver /\ r.repl = 0
      /\ r.snap = NoSnap /\ r.rem = NoSnap /\ r.epoch = 0 /\ r.seen = 0
  BY <1>4, <1>5 DEF ControlPlane, Off
<1> HIDE DEF r
<1>7. Fits(r)
  BY <1>1, <1>4, <1>5, <1>6 DEF Fits
<1> QED
  BY <1>1, <1>3, <1>7, ControlStep

\* A standby applies the leader's bundle, or only notes its version.
LEMMA SyncKeeps ==
  ASSUME ConfigInv, NEW c \in CP, NEW d \in CP, Sync(d, c)
  PROVE  ConfigInv'
<1> DEFINE s == cp[c].snap
<1> DEFINE n == Bigger(cp[d].repl, s.ver)
<1> DEFINE m == Bigger(cp[d].seen, s.epoch)
<1> DEFINE noted == [cp[d] EXCEPT !.repl = n]
<1> DEFINE taken == [noted EXCEPT !.seen = m, !.live = s.hosts, !.snap = s]
<1>1. /\ UNCHANGED <<lease, saved, left, top, dpVars>> /\ token' = token /\ top' = top
      /\ cp' = [cp EXCEPT ![d] = noted] \/ cp' = [cp EXCEPT ![d] = taken]
  <2>1. cp' = [cp EXCEPT ![d] =
                 IF Accepts(cp[d].seen, s.epoch)
                 THEN [noted EXCEPT !.seen = Bigger(noted.seen, s.epoch), !.live = s.hosts,
                                    !.snap = s]
                 ELSE noted]
    BY DEF Sync
  <2>2. noted.seen = cp[d].seen
    BY ControlKnown DEF ControlPlane
  <2> QED
    BY <2>1, <2>2 DEF Sync, lease
<1>2. /\ s \in Snapshot /\ s.ver \in Nat /\ s.ver <= top /\ s.epoch \in Nat /\ s.epoch <= token
      /\ s.ver \in Version /\ s.epoch \in Epoch /\ s.hosts \in SUBSET Hosts
  BY ControlKnown, SnapFacts
<1>3. /\ cp[d] \in ControlPlane /\ cp[d].repl \in Nat /\ cp[d].repl <= top /\ cp[d].repl \in Version
      /\ cp[d].seen \in Nat /\ cp[d].seen <= token /\ cp[d].seen \in Epoch
  BY ControlKnown
<1>4. n \in Version /\ n <= top /\ m \in Epoch /\ m <= token
  BY <1>2, <1>3 DEF Bigger
<1> HIDE DEF s, n, m
<1>5. /\ noted \in ControlPlane /\ noted.repl = n /\ noted.ring = cp[d].ring /\ noted.pubs = cp[d].pubs
      /\ noted.ver = cp[d].ver /\ noted.snap = cp[d].snap /\ noted.rem = cp[d].rem
      /\ noted.epoch = cp[d].epoch /\ noted.seen = cp[d].seen
  BY <1>3, <1>4 DEF ControlPlane
<1>6. /\ taken \in ControlPlane /\ taken.repl = n /\ taken.ring = cp[d].ring /\ taken.pubs = cp[d].pubs
      /\ taken.ver = cp[d].ver /\ taken.snap = s /\ taken.rem = cp[d].rem
      /\ taken.epoch = cp[d].epoch /\ taken.seen = m
  BY <1>2, <1>3, <1>4 DEF ControlPlane
<1> HIDE DEF noted, taken
<1>7. Fits(noted)
  BY <1>1, <1>4, <1>5, ControlKnown DEF Fits
<1>8. Fits(taken)
  BY <1>1, <1>2, <1>4, <1>6, ControlKnown DEF Fits
<1> QED
  BY <1>1, <1>7, <1>8, FrameSame, ControlStep

\* Every Control Plane left alone.
LEMMA ControlSame ==
  ASSUME ConfigInv, UNCHANGED <<token, cp, saved, left, top>>, holder' \in CP \cup {Nobody}
  PROVE  ControlTypeOK' /\ VersionInv' /\ GrantedInv'
BY DEF ConfigInv, ControlTypeOK, VersionInv, GrantedInv

\* The lease runs out.
LEMMA ExpireKeeps ==
  ASSUME ConfigInv, Expire
  PROVE  ConfigInv'
<1>1. UNCHANGED <<token, cp, saved, left, top>> /\ holder' \in CP \cup {Nobody} /\ UNCHANGED dpVars
  BY DEF Expire
<1>2. token' \in Epoch /\ token <= token'
  BY <1>1, Standing
<1> QED
  BY <1>1, <1>2, ControlSame, DataSame DEF ConfigInv

-----------------------------------------------------------------------------
(* The Data Plane.                                                         *)

\* A step of the Data Plane has only its own part of the invariant to preserve.
LEMMA DataStep ==
  ASSUME ConfigInv, UNCHANGED <<lease, cp, saved, left, top>>, DataShape', RatchetInv', InstallInv'
  PROVE  ConfigInv'
<1>1. UNCHANGED <<token, cp, saved, left, top>> /\ holder' \in CP \cup {Nobody}
  BY Standing DEF lease
<1> QED
  BY <1>1, ControlSame DEF ConfigInv

\* What the invariant says of the numbers of the Data Plane.
LEMMA DataKnown ==
  ASSUME ConfigInv
  PROVE  /\ token \in Nat /\ dp.seen \in Nat /\ dp.under \in Nat /\ dp.conn \in CP
         /\ dp.seen <= token /\ dp.under <= dp.seen
         /\ beat \in Nat /\ beat <= token /\ poll.epoch \in Nat /\ poll.epoch <= token
         /\ poll.snap.epoch \in Nat /\ poll.snap.epoch <= token /\ poll.snap.epoch \in Epoch
         /\ disk.seen \in Nat /\ disk.seen <= token /\ poll.snap.ver \in Version
         /\ disk.good.snap.epoch \in Nat /\ disk.good.snap.epoch <= token
         /\ disk.good.snap.epoch \in Epoch /\ disk.good.snap.ver \in Version
         /\ NoSnap \in Snapshot /\ NoSnap.epoch = 0 /\ 0 \in Epoch /\ 0 \in Version
BY Standing, NumberFacts, SnapFacts DEF ConfigInv, DataShape, DataTypeOK, RatchetInv

\* What a step of the Data Plane, under an unchanged lease, must leave: a
\* process, a poll and files of the right shape whose stamps were granted.
IsDP(d) ==
  d = [up |-> d.up, conn |-> d.conn, ver |-> d.ver, seen |-> d.seen,
       hosts |-> d.hosts, fp |-> d.fp, rest |-> d.rest, under |-> d.under]

DPFine(d) ==
  /\ IsDP(d)
  /\ d.up \in BOOLEAN /\ d.conn \in CP /\ d.ver \in Version /\ d.rest \in Snapshot \cup {Torn}
  /\ d.seen \in Epoch /\ d.under \in Epoch /\ d.seen <= token /\ d.under <= d.seen

PollFine(q) ==
  /\ q = [at |-> q.at, epoch |-> q.epoch, cur |-> q.cur, chain |-> q.chain, snap |-> q.snap]
  /\ q.at \in {"idle", "chain", "delta", "full", "install"}
  /\ q.epoch \in Epoch /\ q.cur \in Version /\ q.snap \in Snapshot
  /\ q.epoch <= token /\ q.snap.epoch <= token

DiskFine(k) ==
  /\ k = [seen |-> k.seen, good |-> [snap |-> k.good.snap, hosts |-> k.good.hosts]]
  /\ k.seen \in Epoch /\ k.good.snap \in Snapshot
  /\ k.seen <= token /\ k.good.snap.epoch <= token

\* The invariant is that the Data Plane is like that.
LEMMA AllFine ==
  ASSUME ConfigInv
  PROVE  DPFine(dp) /\ PollFine(poll) /\ DiskFine(disk)
BY DEF ConfigInv, DataShape, DataTypeOK, RatchetInv, DPFine, IsDP, PollFine, DiskFine

\* A step that leaves the Data Plane like that preserves the invariant.
LEMMA DataMake ==
  ASSUME ConfigInv, UNCHANGED <<lease, cp, saved, left, top>>, DPFine(dp'), PollFine(poll'),
         DiskFine(disk'), beat' \in Epoch, beat' <= token, Ready(dp', poll')
  PROVE  ConfigInv'
<1>1. token' = token
  BY DEF lease
<1>2. DataShape'
  BY DEF DataShape, DataTypeOK, DPFine, IsDP, PollFine, DiskFine
<1>3. RatchetInv'
  BY <1>1 DEF RatchetInv, DPFine, IsDP, PollFine, DiskFine
<1>4. InstallInv'
  BY DEF InstallInv, Ready
<1> QED
  BY <1>2, <1>3, <1>4, DataStep

\* A poll under way belongs to a running process.
LEMMA PollerUp ==
  ASSUME ConfigInv
  PROVE  dp.up \in BOOLEAN /\ (poll.at # "idle" => dp.up)
BY DEF ConfigInv, InstallInv, Ready, DataShape, DataTypeOK

\* A running process whose poll holds no snapshot to install is ready for it.
LEMMA ReadyFacts ==
  /\ \A d, q : d.up /\ q.at # "install" => Ready(d, q)
  /\ \A d, q : q.at = "idle" => Ready(d, q)
BY DEF Ready

\* The heartbeat loop left alone.
LEMMA BeatSame ==
  ASSUME ConfigInv, beat' = beat
  PROVE  beat' \in Epoch /\ beat' <= token
BY DEF ConfigInv, DataShape, DataTypeOK, RatchetInv

\* A poll that ends or falls back holds no stamp.
LEMMA PollReset ==
  ASSUME ConfigInv, Done \/ FullNext
  PROVE  PollFine(poll') /\ poll'.at \in {"idle", "full"} /\ (Done => poll'.at = "idle")
<1>1. /\ poll'.epoch = 0 /\ poll'.cur = 0 /\ poll'.snap = NoSnap /\ poll'.at \in {"idle", "full"}
      /\ poll' = [at |-> poll'.at, epoch |-> poll'.epoch, cur |-> poll'.cur,
                  chain |-> poll'.chain, snap |-> poll'.snap]
  BY DEF Done, FullNext, NoPoll
<1>2. Done => poll'.at = "idle"
  BY DEF Done, NoPoll
<1> QED
  BY <1>1, <1>2, DataKnown DEF PollFine

\* A poll begins: a delta request that is served, or a full one.
LEMMA PollStartKeeps ==
  ASSUME ConfigInv, PollStart
  PROVE  ConfigInv'
<1>0. UNCHANGED <<lease, cp, saved, left, top>> /\ dp' = dp /\ beat' = beat /\ disk' = disk
  BY DEF PollStart
<1>1. cp[dp.conn].epoch \in Epoch /\ cp[dp.conn].epoch <= token /\ cp[dp.conn].ver \in Version
  BY ControlKnown, DataKnown
<1>2. PollFine(poll') /\ poll'.at # "install"
  <2>1. CASE poll' = [poll EXCEPT !.at = "full"]
    BY <2>1, AllFine DEF PollFine
  <2>2. CASE poll' = [poll EXCEPT !.at = "chain", !.epoch = cp[dp.conn].epoch,
                        !.cur = cp[dp.conn].ver, !.chain = ChainFrom(cp[dp.conn].ring, dp.ver)]
    BY <1>1, <2>2, AllFine DEF PollFine
  <2> QED
    BY <2>1, <2>2 DEF PollStart, At
<1>3. Ready(dp', poll')
  BY <1>0, <1>2, ReadyFacts DEF PollStart
<1> QED
  BY <1>0, <1>2, <1>3, AllFine, BeatSame, DataMake

\* GetConfigDelta reads the remainder, and may cache it.
LEMMA DeltaRemainderKeeps ==
  ASSUME ConfigInv, DeltaRemainder
  PROVE  ConfigInv'
<1> DEFINE c == dp.conn
<1>0. /\ c \in CP /\ UNCHANGED <<lease, saved, left, top>> /\ dp' = dp /\ beat' = beat /\ disk' = disk
      /\ token' = token
  BY DataKnown DEF DeltaRemainder, lease
<1>1. /\ cp[c] \in ControlPlane /\ cp[c].rem \in Snapshot /\ cp[c].rem.epoch <= token
      /\ cp[c].snap \in Snapshot /\ cp[c].snap.epoch <= token
  BY <1>0, ControlKnown
<1>2. PollFine(poll') /\ poll'.at # "install"
  <2>1. CASE poll' = [poll EXCEPT !.at = "delta", !.snap = cp[c].rem]
    BY <1>1, <2>1, AllFine DEF PollFine
  <2>2. CASE poll' = [poll EXCEPT !.at = "delta", !.snap = cp[c].snap]
    BY <1>1, <2>2, AllFine DEF PollFine
  <2>3. CASE FullNext
    BY <2>3, PollReset
  <2> QED
    BY <2>1, <2>2, <2>3 DEF DeltaRemainder
<1>5. dp.up
  BY PollerUp DEF DeltaRemainder
<1>6. Ready(dp', poll')
  BY <1>0, <1>2, <1>5, ReadyFacts
<1>3. CASE cp' = cp
  BY <1>0, <1>2, <1>3, <1>6, AllFine, BeatSame, DataMake
<1>4. CASE cp' = [cp EXCEPT ![c].rem = cp[c].snap]
  <2> DEFINE r == [cp[c] EXCEPT !.rem = cp[c].snap]
  <2>1. cp' = [cp EXCEPT ![c] = r]
    BY <1>4
  <2>2. /\ r \in ControlPlane /\ r.rem = cp[c].snap /\ r.ring = cp[c].ring /\ r.pubs = cp[c].pubs
        /\ r.ver = cp[c].ver /\ r.repl = cp[c].repl /\ r.snap = cp[c].snap
        /\ r.epoch = cp[c].epoch /\ r.seen = cp[c].seen
    BY <1>1 DEF ControlPlane
  <2> HIDE DEF r
  <2>3. Fits(r)
    BY <1>0, <1>1, <2>2, ControlKnown DEF Fits
  <2>4. ControlTypeOK' /\ VersionInv' /\ GrantedInv'
    BY <1>0, <2>1, <2>3, FrameSame, ControlMoves
  <2>5. DPFine(dp') /\ DiskFine(disk') /\ beat' \in Epoch /\ beat' <= token
    BY <1>0, AllFine, BeatSame
  <2>6. DataShape' /\ RatchetInv'
    BY <1>0, <1>2, <2>5 DEF DataShape, DataTypeOK, RatchetInv, DPFine, IsDP, PollFine, DiskFine
  <2>7. InstallInv'
    BY <1>6 DEF InstallInv, Ready
  <2> QED
    BY <2>4, <2>6, <2>7 DEF ConfigInv
<1> QED
  BY <1>3, <1>4 DEF DeltaRemainder

\* A call is lost: the poll falls back, ends or moves to another node.
LEMMA CallFailsKeeps ==
  ASSUME ConfigInv, CallFails
  PROVE  ConfigInv'
<1>0. UNCHANGED <<lease, cp, saved, left, top>> /\ beat' = beat /\ disk' = disk
  BY DEF CallFails
<1>1. DPFine(dp') /\ PollFine(poll') /\ poll'.at # "install" /\ dp'.up
  <2>0. dp.up /\ poll.at \in {"chain", "full"}
    BY PollerUp DEF CallFails
  <2>1. CASE dp' = dp /\ (FullNext \/ Done)
    BY <2>0, <2>1, AllFine, PollReset
  <2>2. CASE poll' = poll /\ \E c \in CP : dp' = [dp EXCEPT !.conn = c]
    BY <2>0, <2>2, AllFine DEF DPFine, IsDP
  <2> QED
    BY <2>1, <2>2 DEF CallFails
<1> QED
  BY <1>0, <1>1, AllFine, BeatSame, ReadyFacts, DataMake

\* A poll that finds no server moves to another node.
LEMMA ReconnectKeeps ==
  ASSUME ConfigInv, Reconnect
  PROVE  ConfigInv'
<1>0. UNCHANGED <<lease, cp, saved, left, top>> /\ poll' = poll /\ beat' = beat /\ disk' = disk
  BY DEF Reconnect
<1>1. DPFine(dp')
  BY AllFine DEF Reconnect, DPFine, IsDP
<1>2. Ready(dp', poll')
  BY <1>0, ReadyFacts DEF Reconnect
<1> QED
  BY <1>0, <1>1, <1>2, AllFine, BeatSame, DataMake

\* A raised ratchet is between what it was and what was granted.
LEMMA RaiseFacts ==
  ASSUME ConfigInv, NEW e \in Epoch, e <= token
  PROVE  /\ Bigger(dp.seen, e) \in Epoch /\ Bigger(dp.seen, e) <= token
         /\ dp.seen <= Bigger(dp.seen, e) /\ e <= Bigger(dp.seen, e)
         /\ Ratchet(e) \in Epoch /\ Ratchet(e) <= token
<1>1. dp.seen \in Epoch /\ dp.seen <= token /\ disk.seen \in Epoch /\ disk.seen <= token
  BY DEF ConfigInv, DataShape, DataTypeOK, RatchetInv
<1> QED
  BY <1>1, NumberFacts DEF Bigger, Ratchet

\* GetConfig answers: nothing new, a refused stamp, or a snapshot to install.
LEMMA FullReplyKeeps ==
  ASSUME ConfigInv, FullReply
  PROVE  ConfigInv'
<1> DEFINE s == cp[dp.conn].snap
<1>0. UNCHANGED <<lease, cp, saved, left, top>> /\ beat' = beat
  BY DEF FullReply
<1>1. s \in Snapshot /\ s.epoch \in Epoch /\ s.epoch <= token
  BY ControlKnown, DataKnown, SnapFacts
<1>2. CASE Done /\ dp' = dp /\ disk' = disk
  BY <1>0, <1>2, AllFine, BeatSame, PollReset, ReadyFacts, DataMake
<1>3. CASE /\ dp' = [dp EXCEPT !.seen = Bigger(dp.seen, s.epoch)]
           /\ disk' = [disk EXCEPT !.seen = Ratchet(s.epoch)]
           /\ poll' = NoPoll \/ poll' = [poll EXCEPT !.at = "install", !.snap = s]
  <2> DEFINE e == Bigger(dp.seen, s.epoch)
  <2> DEFINE k == Ratchet(s.epoch)
  <2>1. e \in Epoch /\ e <= token /\ dp.seen <= e /\ s.epoch <= e /\ k \in Epoch /\ k <= token
    BY <1>1, RaiseFacts
  <2>2. dp' = [dp EXCEPT !.seen = e] /\ disk' = [disk EXCEPT !.seen = k]
    BY <1>3
  <2> HIDE DEF s, e, k
  <2>3. DPFine(dp')
    BY <2>1, <2>2, AllFine, NumberFacts DEF DPFine, IsDP
  <2>4. DiskFine(disk')
    BY <2>1, <2>2, AllFine DEF DiskFine
  <2>5. PollFine(poll')
    BY <1>1, <1>3, AllFine, PollReset DEF PollFine, Done
  <2>6. dp'.seen = e /\ dp'.up
    BY <2>2, AllFine, PollerUp DEF DPFine, IsDP, FullReply
  <2>7. poll'.at = "idle" \/ (poll'.at = "install" /\ poll'.snap = s)
    <3>1. CASE poll' = NoPoll
      BY <3>1 DEF NoPoll
    <3>2. CASE poll' = [poll EXCEPT !.at = "install", !.snap = s]
      BY <3>2, AllFine DEF PollFine
    <3> QED
      BY <1>3, <3>1, <3>2
  <2>8. Ready(dp', poll')
    BY <2>1, <2>6, <2>7 DEF Ready
  <2> QED
    BY <1>0, <2>3, <2>4, <2>5, <2>8, BeatSame, DataMake
<1> QED
  BY <1>2, <1>3 DEF FullReply

\* What a start changes, what a delta moves, and what an apply puts in force.
Started(d) == [d EXCEPT !.up = TRUE]
Moved(d, h, f, e) == [d EXCEPT !.hosts = h, !.fp = f, !.seen = e]
Applied(d, s, e, v) == [d EXCEPT !.rest = s, !.under = e, !.ver = v]

\* A process that starts.
LEMMA StartedFine ==
  ASSUME NEW d, DPFine(d)
  PROVE  DPFine(Started(d)) /\ Started(d).seen = d.seen
<1> DEFINE a == Started(d)
<1>1. a = [d EXCEPT !.up = TRUE]
  BY DEF Started
<1>2. IsDP(d)
  BY DEF DPFine
<1>3. /\ a.conn = d.conn /\ a.ver = d.ver /\ a.seen = d.seen
      /\ a.rest = d.rest /\ a.under = d.under
  BY <1>1, <1>2 DEF IsDP
<1>4. IsDP(a)
  BY <1>1, <1>2 DEF IsDP
<1>5. a.up \in BOOLEAN
  <2>1. a.up = TRUE
    BY <1>1, <1>2 DEF IsDP
  <2> QED
    BY <2>1, Zenon
<1> QED
  BY <1>3, <1>4, <1>5 DEF DPFine

\* The process after a delta: its lists and its ratchet.
LEMMA MovedFine ==
  ASSUME NEW d, DPFine(d), NEW h, NEW f, NEW e \in Epoch, e <= token, d.under <= e
  PROVE  /\ DPFine(Moved(d, h, f, e))
         /\ Moved(d, h, f, e).seen = e /\ Moved(d, h, f, e).up = d.up
<1> DEFINE a == [d EXCEPT !.hosts = h]
<1> DEFINE b == [a EXCEPT !.fp = f]
<1>0. Moved(d, h, f, e) = [b EXCEPT !.seen = e]
  BY DEF Moved
<1>1. DPFine(a) /\ a.up = d.up /\ a.under = d.under
  BY DEF DPFine, IsDP
<1> HIDE DEF a
<1>2. DPFine(b) /\ b.up = d.up /\ b.under = d.under
  BY <1>1 DEF DPFine, IsDP
<1> HIDE DEF b
<1> QED
  BY <1>0, <1>2 DEF DPFine, IsDP

\* The process after an apply: a granted configuration within its ratchet.
LEMMA AppliedFine ==
  ASSUME NEW d, DPFine(d), NEW s \in Snapshot, NEW e \in Epoch, e <= d.seen, NEW v \in Version
  PROVE  /\ DPFine(Applied(d, s, e, v)) /\ Applied(d, s, e, v).up = d.up
         /\ Applied(d, s, e, v).under = e
<1> DEFINE a == [d EXCEPT !.rest = s]
<1> DEFINE b == [a EXCEPT !.under = e]
<1>0. Applied(d, s, e, v) = [b EXCEPT !.ver = v]
  BY DEF Applied
<1>1. DPFine(a) /\ a.up = d.up /\ a.seen = d.seen
  BY DEF DPFine, IsDP
<1> HIDE DEF a
<1>2. DPFine(b) /\ b.up = d.up /\ b.under = e
  BY <1>1 DEF DPFine, IsDP
<1> HIDE DEF b
<1> QED
  BY <1>0, <1>2 DEF DPFine, IsDP

\* applyDeltaReply: refused, drifted, refused a profile, or applied.
LEMMA ApplyDeltaKeeps ==
  ASSUME ConfigInv, ApplyDelta
  PROVE  ConfigInv'
<1> DEFINE h == ApplyHosts(dp.hosts, poll.chain)
<1> DEFINE f == Toggle(dp.fp, poll.chain)
<1> DEFINE e == Bigger(dp.seen, poll.epoch)
<1> DEFINE k == Ratchet(poll.epoch)
<1> DEFINE moved == [dp EXCEPT !.hosts = h, !.fp = f, !.seen = e]
<1> DEFINE ratchet == [disk EXCEPT !.seen = k]
<1>0. UNCHANGED <<lease, cp, saved, left, top>> /\ beat' = beat
  BY DEF ApplyDelta
<1>1. /\ poll.epoch \in Epoch /\ poll.epoch <= token /\ poll.snap \in Snapshot
      /\ poll.snap.epoch <= token /\ poll.cur \in Version
  BY AllFine DEF PollFine
<1>2. /\ e \in Epoch /\ e <= token /\ dp.seen <= e /\ poll.epoch <= e /\ k \in Epoch /\ k <= token
  BY <1>1, RaiseFacts
<1>3. \/ Done /\ dp' = dp /\ disk' = disk
      \/ dp' = moved /\ disk' = ratchet /\ FullNext
      \/ dp' = [moved EXCEPT !.rest = Torn] /\ disk' = ratchet /\ FullNext
      \/ /\ dp' = [moved EXCEPT !.rest = poll.snap, !.under = poll.epoch, !.ver = poll.cur]
         /\ disk' = [ratchet EXCEPT !.good = [snap |-> poll.snap, hosts |-> moved.hosts]]
         /\ Done
  BY DEF ApplyDelta
<1>4. PollFine(poll') /\ poll'.at # "install"
  BY <1>3, PollReset
<1> HIDE DEF h, f, e, k
<1>a. dp.under <= e /\ dp.up
  BY <1>2, DataKnown, NumberFacts, PollerUp DEF ApplyDelta
<1>b. moved = Moved(dp, h, f, e)
  BY DEF Moved
<1>c. DPFine(dp)
  BY AllFine
<1> HIDE DEF moved
<1>5. DPFine(moved) /\ moved.seen = e /\ moved.up = dp.up
  BY <1>2, <1>a, <1>b, <1>c, MovedFine
<1>6. moved.seen = e /\ moved.up
  BY <1>5, <1>a
<1>7. DiskFine(ratchet)
  BY <1>2, AllFine DEF DiskFine
<1> HIDE DEF ratchet
<1>8. DPFine([moved EXCEPT !.rest = Torn])
  BY <1>5 DEF DPFine, IsDP
<1> DEFINE applied == [moved EXCEPT !.rest = poll.snap, !.under = poll.epoch, !.ver = poll.cur]
<1>d. applied = Applied(moved, poll.snap, poll.epoch, poll.cur)
  BY DEF Applied
<1>e. applied = [moved EXCEPT !.rest = poll.snap, !.under = poll.epoch, !.ver = poll.cur]
  OBVIOUS
<1> HIDE DEF applied
<1>9. DPFine(applied) /\ applied.up = moved.up
  BY <1>1, <1>2, <1>5, <1>6, <1>d, AppliedFine
<1>10. DiskFine([ratchet EXCEPT !.good = [snap |-> poll.snap, hosts |-> moved.hosts]])
  BY <1>1, <1>7 DEF DiskFine
<1>11. DPFine(dp') /\ DiskFine(disk')
  BY <1>3, <1>5, <1>7, <1>8, <1>9, <1>10, <1>e, AllFine
<1>12. dp'.up
  BY <1>3, <1>5, <1>6, <1>9, <1>a, <1>e DEF DPFine, IsDP
<1> QED
  BY <1>0, <1>4, <1>11, <1>12, BeatSame, ReadyFacts, DataMake

\* applyConfigSnapshot: refused half-way, or applied and saved.
LEMMA ApplySnapshotKeeps ==
  ASSUME ConfigInv, ApplySnapshot
  PROVE  ConfigInv'
<1> DEFINE s == poll.snap
<1>0. UNCHANGED <<lease, cp, saved, left, top>> /\ beat' = beat /\ Done
  BY DEF ApplySnapshot
<1>1. s \in Snapshot /\ s.epoch \in Epoch /\ s.epoch <= token /\ s.ver \in Version
  BY DataKnown, AllFine DEF PollFine
<1>2. CASE dp' = [dp EXCEPT !.rest = Torn] /\ disk' = disk
  <2>1. DPFine(dp')
    BY <1>2, AllFine DEF DPFine, IsDP
  <2> QED
    BY <1>0, <1>2, <2>1, AllFine, PollReset, BeatSame, ReadyFacts, DataMake
<1>3. CASE /\ Accepts(dp.seen, s.epoch)
           /\ dp' = [dp EXCEPT !.hosts = s.hosts, !.fp = s.hosts, !.rest = s,
                               !.under = s.epoch, !.ver = s.ver]
           /\ disk' = [disk EXCEPT !.good = [snap |-> s, hosts |-> s.hosts]]
  <2>1. s.epoch <= dp.seen
    BY DEF ApplySnapshot, ConfigInv, InstallInv, Ready
  <2> HIDE DEF s
  <2>2. DPFine(dp')
    BY <1>1, <1>3, <2>1, AllFine DEF DPFine, IsDP
  <2>3. DiskFine(disk')
    BY <1>1, <1>3, AllFine DEF DiskFine
  <2> QED
    BY <1>0, <2>2, <2>3, PollReset, BeatSame, ReadyFacts, DataMake
<1> QED
  BY <1>2, <1>3 DEF ApplySnapshot

\* The heartbeat loop observes a higher epoch.
LEMMA BeatKeeps ==
  ASSUME ConfigInv, Beat
  PROVE  ConfigInv'
<1> DEFINE e == cp[dp.conn].epoch
<1>0. /\ UNCHANGED <<lease, cp, saved, left, top>> /\ poll' = poll /\ disk' = disk
      /\ dp.up /\ e > dp.seen /\ dp' = [dp EXCEPT !.seen = e] /\ beat' = e
  BY DEF Beat
<1>1. e \in Epoch /\ e \in Nat /\ e <= token
  BY ControlKnown, DataKnown
<1>2. dp.seen \in Nat /\ dp.under \in Nat /\ dp.under <= dp.seen /\ poll.snap.epoch \in Nat
  BY DataKnown
<1> HIDE DEF e
<1>3. dp.under <= e
  BY <1>0, <1>1, <1>2
<1>4. DPFine(dp') /\ dp'.seen = e /\ dp'.up
  BY <1>0, <1>1, <1>3, AllFine DEF DPFine, IsDP
<1>5. Ready(dp', poll')
  BY <1>0, <1>1, <1>2, <1>4 DEF ConfigInv, InstallInv, Ready
<1> QED
  BY <1>0, <1>1, <1>4, <1>5, AllFine, DataMake

\* The heartbeat loop saves the epoch it observed.
LEMMA BeatSaveKeeps ==
  ASSUME ConfigInv, BeatSave
  PROVE  ConfigInv'
<1>0. /\ UNCHANGED <<lease, cp, saved, left, top>> /\ poll' = poll /\ dp' = dp
      /\ disk' = [disk EXCEPT !.seen = beat] /\ beat' = 0
  BY DEF BeatSave
<1>1. beat \in Epoch /\ beat <= token /\ 0 \in Epoch /\ 0 <= token
  BY DataKnown DEF ConfigInv, DataShape, DataTypeOK
<1>2. DiskFine(disk')
  BY <1>0, <1>1, AllFine DEF DiskFine
<1>3. Ready(dp', poll')
  BY <1>0 DEF ConfigInv, InstallInv, Ready
<1> QED
  BY <1>0, <1>1, <1>2, <1>3, AllFine, DataMake

\* The Data-Plane process dies with its poll.
LEMMA DPCrashKeeps ==
  ASSUME ConfigInv, DPCrash
  PROVE  ConfigInv'
<1>0. /\ Spend("crashes") /\ UNCHANGED <<lease, cp, saved, top, disk>> /\ token' = token
      /\ dp' = [dp EXCEPT !.up = FALSE] /\ Done /\ beat' = 0
  BY DEF DPCrash, lease
<1>1. left' \in Scenario /\ left'.handlers = left.handlers /\ left'.issues = left.issues
  BY <1>0, CrashBudget
<1>2. ControlTypeOK' /\ VersionInv' /\ GrantedInv'
  <2>1. holder' = holder
    BY <1>0 DEF lease
  <2>2. ControlTypeOK'
    BY <1>0, <1>1, <2>1 DEF ConfigInv, ControlTypeOK
  <2>3. VersionInv'
    BY <1>0, <1>1 DEF ConfigInv, VersionInv
  <2>4. GrantedInv'
    BY <1>0 DEF ConfigInv, GrantedInv
  <2> QED
    BY <2>2, <2>3, <2>4
<1>3. DPFine(dp')
  BY <1>0, AllFine DEF DPFine, IsDP
<1>4. PollFine(poll') /\ Ready(dp', poll')
  BY <1>0, PollReset, ReadyFacts
<1>5. DiskFine(disk') /\ beat' \in Epoch /\ beat' <= token
  BY <1>0, AllFine, DataKnown
<1>6. DataShape'
  BY <1>3, <1>4, <1>5 DEF DataShape, DataTypeOK, DPFine, IsDP, PollFine, DiskFine
<1>7. RatchetInv'
  BY <1>0, <1>3, <1>4, <1>5 DEF RatchetInv, DPFine, IsDP, PollFine, DiskFine
<1>8. InstallInv'
  BY <1>4 DEF InstallInv, Ready
<1> QED
  BY <1>2, <1>6, <1>7, <1>8 DEF ConfigInv

\* startDataPlane: nothing saved, a refused stamp, or the last-good file.
LEMMA DPBootKeeps ==
  ASSUME ConfigInv, DPBoot
  PROVE  ConfigInv'
<1> DEFINE s == disk.good.snap
<1> DEFINE h == disk.good.hosts
<1> DEFINE e == Bigger(disk.seen, s.epoch)
<1> DEFINE fresh == [dp EXCEPT !.up = TRUE, !.ver = 0, !.seen = disk.seen, !.hosts = {},
                               !.fp = {}, !.rest = NoSnap, !.under = 0]
<1>0. UNCHANGED <<lease, cp, saved, left, top>> /\ poll' = poll /\ beat' = beat /\ dp.up = FALSE
  BY AllFine DEF DPBoot, DPFine, IsDP
<1>1. /\ s \in Snapshot /\ s.epoch \in Epoch /\ s.epoch \in Nat /\ s.epoch <= token /\ s.ver \in Version
      /\ disk.seen \in Epoch /\ disk.seen \in Nat /\ disk.seen <= token
  BY DataKnown, AllFine DEF DiskFine
<1>2. e \in Epoch /\ e \in Nat /\ e <= token /\ s.epoch <= e
  BY <1>1, NumberFacts DEF Bigger
<1>3. dp.conn \in CP /\ 0 \in Version /\ 0 \in Epoch /\ NoSnap \in Snapshot /\ 0 <= disk.seen
  BY <1>1, DataKnown
<1>4. DPFine(fresh)
  <2> DEFINE a == Started(dp)
  <2> DEFINE b == Applied(a, NoSnap, 0, 0)
  <2>1. fresh = Moved(b, {}, {}, disk.seen)
    BY DEF Moved, Applied, Started
  <2>2. DPFine(a) /\ a.seen = dp.seen
    BY AllFine, StartedFine
  <2>4. 0 <= a.seen
    BY <2>2, AllFine, NumberFacts DEF DPFine
  <2> HIDE DEF a
  <2>3. DPFine(b) /\ b.under = 0
    BY <1>3, <2>2, <2>4, AppliedFine
  <2> HIDE DEF b
  <2> QED
    BY <1>1, <1>3, <2>1, <2>3, MovedFine
<1>5. fresh.seen = disk.seen /\ fresh.up = TRUE
  BY AllFine DEF DPFine, IsDP
<1> DEFINE booted == [fresh EXCEPT !.ver = s.ver, !.hosts = h, !.fp = h, !.rest = s,
                        !.seen = e, !.under = s.epoch]
<1>6. \/ dp' = fresh /\ disk' = disk
      \/ dp' = [fresh EXCEPT !.rest = Torn] /\ disk' = disk
      \/ dp' = booted /\ disk' = [disk EXCEPT !.seen = e]
  BY <1>5 DEF DPBoot
<1> HIDE DEF fresh, s, h, e
<1>7. DPFine([fresh EXCEPT !.rest = Torn]) /\ [fresh EXCEPT !.rest = Torn].up = TRUE
  BY <1>4, <1>5 DEF DPFine, IsDP
<1>8. DPFine(booted) /\ booted.up = TRUE
  <2> DEFINE a == Moved(fresh, h, h, e)
  <2>1. booted = Applied(a, s, s.epoch, s.ver)
    BY DEF Moved, Applied
  <2>2. fresh.under = 0 /\ 0 <= e
    BY <1>2 DEF fresh
  <2>3. DPFine(a) /\ a.seen = e /\ a.up = TRUE
    BY <1>2, <1>4, <1>5, <2>2, MovedFine
  <2> HIDE DEF a, booted
  <2> QED
    BY <1>1, <1>2, <2>1, <2>3, AppliedFine
<1>9. DiskFine([disk EXCEPT !.seen = e])
  BY <1>2, AllFine DEF DiskFine
<1> HIDE DEF booted
<1>10. DPFine(dp') /\ DiskFine(disk') /\ dp'.up = TRUE
  BY <1>4, <1>5, <1>6, <1>7, <1>8, <1>9, AllFine
<1>11. poll'.at = "idle"
  BY <1>0, PollerUp
<1> QED
  BY <1>0, <1>10, <1>11, AllFine, BeatSame, ReadyFacts, DataMake

-----------------------------------------------------------------------------
(* The theorems.                                                           *)

\* The invariant holds before any process has started.
LEMMA ConfigInit ==
  ASSUME Init
  PROVE  ConfigInv
<1>0. /\ 0 \in Version /\ 0 \in Epoch /\ NoSnap \in Snapshot /\ NoSnap.ver = 0 /\ NoSnap.epoch = 0
      /\ First \in CP /\ RingSize \in Nat /\ MaxIssued \in Nat /\ Scenarios \subseteq Scenario
  BY NumberFacts, SnapFacts, ConfigSyncAssumption
<1>1. /\ left \in Scenario /\ left.handlers \in Nat /\ left.issues \in 0..MaxIssued
  BY <1>0, ScenarioFields DEF Init
<1>2. /\ Off \in ControlPlane /\ Off.ring = <<>> /\ Off.pubs = {} /\ Off.ver = 0 /\ Off.repl = 0
      /\ Off.snap = NoSnap /\ Off.rem = NoSnap /\ Off.epoch = 0 /\ Off.seen = 0
  BY <1>0 DEF Off, ControlPlane
<1>3. IsFiniteSet({}) /\ Cardinality({}) = 0 /\ Len(<<>>) = 0
  BY FS_EmptySet
<1>4. /\ holder = Nobody /\ token = 0 /\ cp = [c \in CP |-> Off] /\ top = 0
      /\ dp = [up |-> TRUE, conn |-> First, ver |-> 0, seen |-> 0, hosts |-> {},
               fp |-> {}, rest |-> NoSnap, under |-> 0]
      /\ poll = [at |-> "idle", epoch |-> 0, cur |-> 0, chain |-> <<>>, snap |-> NoSnap] /\ beat = 0
      /\ disk = [seen |-> 0, good |-> [snap |-> NoSnap, hosts |-> {}]]
  BY DEF Init, NoPoll
<1>5. saved \in [CP -> {"leader", "standby", "absent"}]
  BY DEF Init
<1>6. \A c \in CP : cp[c] = Off
  BY <1>4
<1>7. ControlTypeOK
  <2>1. cp \in [CP -> ControlPlane]
    BY <1>2, <1>4
  <2>2. \A c \in CP : /\ Len(cp[c].ring) <= RingSize
                      /\ IsFiniteSet(cp[c].pubs) /\ Cardinality(cp[c].pubs) <= left.handlers
    <3>1. /\ Len(Off.ring) <= RingSize /\ IsFiniteSet(Off.pubs)
          /\ Cardinality(Off.pubs) <= left.handlers
      BY <1>0, <1>1, <1>2, <1>3
    <3> QED
      BY <1>6, <3>1
  <2> QED
    BY <1>0, <1>1, <1>4, <1>5, <2>1, <2>2 DEF ControlTypeOK
<1>8. VersionInv
  <2>1. 0 <= (MaxIssued - left.issues) * (MaxIssued + 1)
    BY <1>0, <1>1
  <2> QED
    BY <1>0, <1>2, <1>4, <1>6, <2>1 DEF VersionInv
<1>9. GrantedInv
  BY <1>0, <1>2, <1>4, <1>6 DEF GrantedInv
<1>10. DataShape
  BY <1>0, <1>4 DEF DataShape, DataTypeOK
<1>11. RatchetInv /\ InstallInv
  BY <1>0, <1>4 DEF RatchetInv, InstallInv, Ready
<1> QED
  BY <1>7, <1>8, <1>9, <1>10, <1>11 DEF ConfigInv

\* Every step preserves the invariant.
LEMMA ConfigNext ==
  ASSUME ConfigInv, [Next]_vars
  PROVE  ConfigInv'
<1>1. CASE UNCHANGED vars
  <2>1. UNCHANGED <<token, cp, saved, left, top>> /\ holder' \in CP \cup {Nobody}
    BY <1>1, Standing DEF vars
  <2>2. UNCHANGED dpVars /\ token' \in Epoch /\ token <= token'
    BY <1>1, Standing DEF vars, dpVars
  <2> QED
    BY <2>1, <2>2, ControlSame, DataSame DEF ConfigInv
<1>2. ASSUME NEW c \in CP,
             \/ Build(c) \/ Commit(c) \/ Record(c) \/ Boot(c) \/ Resume(c)
             \/ PromoteStandby(c) \/ PromoteResync(c) \/ Fence(c) \/ Crash(c)
             \/ \E d \in CP \ {c} : Sync(d, c)
      PROVE  ConfigInv'
  BY <1>2, BuildKeeps, CommitKeeps, RecordKeeps, BootKeeps, ResumeKeeps, PromoteStandbyKeeps,
     PromoteResyncKeeps, FenceKeeps, CrashKeeps, SyncKeeps
<1>3. CASE Expire \/ PollStart \/ DeltaRemainder \/ FullReply \/ CallFails \/ Reconnect
  BY <1>3, ExpireKeeps, PollStartKeeps, DeltaRemainderKeeps, FullReplyKeeps, CallFailsKeeps,
     ReconnectKeeps
<1>4. CASE ApplyDelta \/ ApplySnapshot \/ Beat \/ BeatSave \/ DPCrash \/ DPBoot
  BY <1>4, ApplyDeltaKeeps, ApplySnapshotKeeps, BeatKeeps, BeatSaveKeeps, DPCrashKeeps,
     DPBootKeeps
<1> QED
  BY <1>1, <1>2, <1>3, <1>4 DEF Next

\* The invariant holds throughout.
LEMMA ConfigInvariant == Spec => []ConfigInv
<1>1. Init => ConfigInv
  BY ConfigInit
<1>2. ConfigInv /\ [Next]_vars => ConfigInv'
  BY ConfigNext
<1> QED
  BY <1>1, <1>2, PTL DEF Spec

\* The ratchet never outruns the lease: whatever heartbeats, deltas, snapshots
\* and restarts raised it, a Data Plane that meets the current leader accepts
\* what that leader stamps.
LeaderAccepted ==
  \A c \in CP : holder = c /\ cp[c].epoch = token /\ token > 0
    => Accepts(dp.seen, cp[c].epoch) /\ Accepts(disk.seen, cp[c].epoch)

\* dpObserveEpoch never locks the Data Plane out of the lease holder.
THEOREM LeaderNeverRefused == Spec => []LeaderAccepted
<1>1. ConfigInv => LeaderAccepted
  <2>1. ASSUME ConfigInv
        PROVE  dp.seen \in Nat /\ dp.seen <= token /\ disk.seen \in Nat /\ disk.seen <= token
               /\ token \in Nat
    BY <2>1, DataKnown
  <2> QED
    BY <2>1 DEF LeaderAccepted, Accepts
<1> QED
  BY <1>1, ConfigInvariant, PTL

\* A step that puts another configuration in force in a running process puts
\* one in force that was issued under no earlier lease.
LEMMA InstallStep ==
  ASSUME ConfigInv, [Next]_vars, dp.up, dp'.up, dp'.rest # dp.rest, dp'.rest # Torn
  PROVE  dp'.under >= dp.under
<1>0. /\ dp.seen \in Nat /\ dp.under \in Nat /\ dp.under <= dp.seen /\ poll.epoch \in Nat
      /\ poll.snap.epoch \in Nat
  BY DataKnown
<1>1. CASE ApplyDelta
  <2>1. \/ dp'.rest = dp.rest
        \/ dp'.rest = Torn
        \/ Accepts(dp.seen, poll.epoch) /\ dp'.under = poll.epoch
    BY <1>1, AllFine DEF ApplyDelta, DPFine, IsDP
  <2> QED
    BY <1>0, <2>1 DEF Accepts
<1>2. CASE ApplySnapshot
  <2>1. dp'.rest = Torn \/ (Accepts(dp.seen, poll.snap.epoch) /\ dp'.under = poll.snap.epoch)
    BY <1>2, AllFine DEF ApplySnapshot, DPFine, IsDP
  <2> QED
    BY <1>0, <2>1 DEF Accepts
<1>3. CASE FullReply \/ CallFails \/ Reconnect \/ Beat
  <2>1. dp'.rest = dp.rest
    BY <1>3, AllFine DEF FullReply, CallFails, Reconnect, Beat, DPFine, IsDP
  <2> QED
    BY <2>1
<1>4. CASE UNCHANGED vars \/ Expire \/ PollStart \/ DeltaRemainder \/ BeatSave
  BY <1>4 DEF vars, Expire, PollStart, DeltaRemainder, BeatSave, dpVars
<1>5. CASE DPCrash \/ DPBoot
  BY <1>5, AllFine DEF DPCrash, DPBoot, DPFine, IsDP
<1>6. ASSUME NEW c \in CP,
             \/ Build(c) \/ Commit(c) \/ Record(c) \/ Boot(c) \/ Resume(c)
             \/ PromoteStandby(c) \/ PromoteResync(c) \/ Fence(c) \/ Crash(c)
             \/ \E d \in CP \ {c} : Sync(d, c)
      PROVE  dp' = dp
  BY <1>6 DEF Build, Commit, Record, Boot, Resume, PromoteStandby, PromoteResync, Fence, Crash,
     Sync, dpVars
<1> QED
  BY <1>1, <1>2, <1>3, <1>4, <1>5, <1>6 DEF Next

\* Within a process, no configuration replaces one issued under a later lease,
\* for any number of Control Planes, publishes, failovers and lost calls.
THEOREM InstallsNeverGoBack == Spec => InstallsFenced
<1>1. ConfigInv /\ [Next]_vars
        => [(dp.up /\ dp'.up /\ dp'.rest # dp.rest /\ dp'.rest # Torn)
              => dp'.under >= dp.under]_vars
  BY InstallStep
<1> QED
  BY <1>1, ConfigInvariant, PTL DEF Spec, InstallsFenced

-----------------------------------------------------------------------------
(* Lists and versions: the second invariant.                               *)

\* A delta moves one version on and names the hosts it changes.
WellMade(d) == d.ver = d.base + 1 /\ d.added \subseteq d.fp /\ d.removed \cap d.fp = {}

\* A ring whose deltas are well made and follow one another.
Ascends(ring) ==
  \A i \in DOMAIN ring : WellMade(ring[i]) /\ ring[i].base = ring[1].base + (i - 1)

\* A process r whose deltas are well made and whose counter was seeded before it
\* publishes.
Made(r) ==
  /\ Ascends(r.ring)
  /\ \A p \in r.pubs : p.at = "committed" => WellMade(p.delta)
  /\ r.role \in {"boot", "leader", "resync"} \/ r.pubs # {} => r.ver > 0

\* Process r holds a snapshot or a delta of version v with the list h.
HasList(r, v, h) ==
  \/ r.snap.ver = v /\ r.snap.hosts = h
  \/ r.rem.ver = v /\ r.rem.hosts = h
  \/ \E i \in DOMAIN r.ring : r.ring[i].ver = v /\ r.ring[i].fp = h
  \/ \E p \in r.pubs : p.at = "committed" /\ p.delta.ver = v /\ p.delta.fp = h

\* So do the poll under way and the last-good file.
PollHas(v, h) ==
  \/ poll.snap.ver = v /\ poll.snap.hosts = h
  \/ disk.good.snap.ver = v /\ disk.good.snap.hosts = h
  \/ \E i \in DOMAIN poll.chain : poll.chain[i].ver = v /\ poll.chain[i].fp = h

Known(v, h) == PollHas(v, h) \/ \E c \in CP : HasList(cp[c], v, h)

\* No process can issue version v any more.
Clear(v) ==
  /\ v <= top
  /\ \A c \in CP : cp[c].ver > 0 => v <= cp[c].ver \/ v > cp[c].ver + left.issues

\* A version stands for one list, wherever it is held, and is not issued again.
Issued == Version \ {0}
ListsAgree ==
  \A v \in Issued, g, h \in SUBSET Hosts : Known(v, g) /\ Known(v, h) => g = h
AllClear ==
  /\ Clear(dp.ver)
  /\ \A v \in Issued, h \in SUBSET Hosts : Known(v, h) => Clear(v)
Apart ==
  \A c, d \in CP : (c # d /\ cp[c].ver > 0 /\ cp[d].ver > 0) =>
    cp[c].ver + left.issues < cp[d].ver \/ cp[d].ver + left.issues < cp[c].ver

\* Process r holds a delta from version b, and it holds each once.
HasBase(r, b) ==
  \/ \E i \in DOMAIN r.ring : r.ring[i].base = b
  \/ \E p \in r.pubs : p.at = "committed" /\ p.delta.base = b
Once(r) ==
  \A p \in r.pubs : p.at = "committed" =>
    /\ \A i \in DOMAIN r.ring : r.ring[i].base # p.delta.base
    /\ \A q \in r.pubs : q.at = "committed" /\ q.delta.base = p.delta.base => q = p
BasesApart ==
  /\ \A c \in CP : Once(cp[c])
  /\ \A c, d \in CP : c # d => \A b \in Version : ~(HasBase(cp[c], b) /\ HasBase(cp[d], b))

\* Every chain that process r serves from version v, now or once its publishes
\* in flight are recorded, names h.
Names(ring, v, h) ==
  \A i \in DOMAIN ring : ring[i].base = v =>
    \E j \in DOMAIN ring : j >= i /\ h \in Touched(ring[j])
Covers(r, v, h) ==
  Names(r.ring, v, h) /\ \A p \in r.pubs : p.at = "committed" => p.delta.base # v

\* The hosts whose fingerprint may be off: those where it is, and those of the
\* chain about to be applied.
Chaining == poll.at \in {"chain", "delta"}
Loose == Drift \cup IF Chaining THEN Named(poll.chain) ELSE {}
LooseCovered ==
  \A h \in Loose, c \in CP :
    Covers(cp[c], dp.ver, h) /\ (cp[c].ver = dp.ver => left.issues = 0)

ChainInv ==
  Chaining =>
    /\ poll.chain # <<>> /\ Last(poll.chain).ver = poll.cur
    /\ \A i \in DOMAIN poll.chain : WellMade(poll.chain[i])
    /\ Composes(poll.chain) /\ Drift \subseteq Named(poll.chain)
    /\ poll.at = "delta" => poll.snap.ver = poll.cur

CoherentInv ==
  /\ "clock" \notin left.faults /\ \A c \in CP : Composes(cp[c].ring)
  /\ ListsAgree /\ AllClear /\ Apart /\ BasesApart /\ LooseCovered /\ ChainInv
  /\ disk.good.hosts = disk.good.snap.hosts

ListInv ==
  /\ ListTypeOK /\ coherent \in BOOLEAN /\ \A c \in CP : Made(cp[c])
  /\ coherent => CoherentInv

-----------------------------------------------------------------------------
(* What a chain of deltas does to a list.                                  *)

\* The order of the natural numbers is well-founded.
NatOrder == {ss \in Nat \X Nat : ss[1] < ss[2]}

LEMMA NatOrderFounded == IsWellFoundedOn(NatOrder, Nat)
BY NatLessThanWellFounded DEF OpToRel, NatOrder

\* A set of natural numbers that has a member has a least one.
LEMMA LeastMember ==
  ASSUME NEW T \in SUBSET Nat, T # {}
  PROVE  \E x \in T : \A y \in T : x <= y
<1>1. PICK x \in T : \A y \in T : ~(<<y, x>> \in NatOrder)
  BY NatOrderFounded, WFMin
<1>2. ASSUME NEW y \in T PROVE x <= y
  <2>1. <<y, x>> \notin NatOrder
    BY <1>1
  <2>2. x \in Nat /\ y \in Nat /\ <<y, x>> \in Nat \X Nat
    OBVIOUS
  <2>3. ~(y < x)
    BY <2>1, <2>2 DEF NatOrder
  <2> QED
    BY <2>2, <2>3
<1> QED
  BY <1>2

\* A bounded one has a greatest.
LEMMA GreatestMember ==
  ASSUME NEW n \in Nat, NEW T \in SUBSET (0..n), T # {}
  PROVE  \E x \in T : \A y \in T : y <= x
<1> DEFINE U == {k \in Nat : n - k \in T}
<1>1. PICK t \in T : TRUE
  OBVIOUS
<1>2. n - t \in U
  BY <1>1
<1>3. PICK k \in U : \A y \in U : k <= y
  BY <1>2, LeastMember
<1>4. ASSUME NEW y \in T PROVE y <= n - k
  <2>1. y \in 0..n /\ n - y \in Nat /\ n - (n - y) = y
    OBVIOUS
  <2>2. n - y \in U
    BY <2>1
  <2> QED
    BY <1>3, <2>1, <2>2
<1> QED
  BY <1>3, <1>4

\* The fields of a delta.
LEMMA DeltaFields ==
  ASSUME NEW d \in Delta
  PROVE  /\ d.base \in Version /\ d.ver \in Version /\ d.added \in SUBSET Hosts
         /\ d.removed \in SUBSET Hosts /\ d.fp \in SUBSET Hosts
         /\ d.base \in Nat /\ d.ver \in Nat
BY NumberFacts DEF Delta

\* Hosts that no entry names keep their place in the list and the fingerprint.
LEMMA ChainLeaves ==
  ASSUME NEW chain \in Seq(Delta), NEW hosts, NEW fp, NEW h, h \notin Named(chain)
  PROVE  /\ h \in ApplyHosts(hosts, chain) <=> h \in hosts
         /\ h \in Toggle(fp, chain) <=> h \in fp
<1>1. \A i \in DOMAIN chain : h \notin chain[i].added /\ h \notin chain[i].removed
  BY DEF Named, Touched
<1>2. h \notin RemovedAfter(chain, 0)
  BY <1>1 DEF RemovedAfter
<1>3. h \in ApplyHosts(hosts, chain) <=> h \in hosts
  BY <1>1, <1>2 DEF ApplyHosts
<1>4. h \in Toggle(fp, chain) <=> h \in fp
  BY DEF Toggle
<1> QED
  BY <1>3, <1>4

\* Lists and fingerprints stay within the hosts.
LEMMA ChainTypes ==
  ASSUME NEW chain \in Seq(Delta), NEW hosts \in SUBSET Hosts, NEW fp \in SUBSET Hosts
  PROVE  /\ Named(chain) \subseteq Hosts
         /\ ApplyHosts(hosts, chain) \subseteq Hosts /\ Toggle(fp, chain) \subseteq Hosts
<1>1. \A i \in DOMAIN chain : chain[i].added \subseteq Hosts /\ chain[i].removed \subseteq Hosts
  BY DeltaFields
<1>2. Named(chain) \subseteq Hosts
  BY <1>1 DEF Named, Touched
<1>3. ApplyHosts(hosts, chain) \subseteq Hosts
  BY <1>1 DEF ApplyHosts
<1>4. Toggle(fp, chain) \subseteq Hosts
  BY <1>2 DEF Toggle
<1> QED
  BY <1>2, <1>3, <1>4

\* From the i-th entry to the k-th, a host that none of them removes stays
\* on the list, and one that none of them adds stays off it.
LEMMA ChainCarries ==
  ASSUME NEW chain \in Seq(Delta), Composes(chain), NEW h,
         NEW i \in DOMAIN chain, NEW k \in DOMAIN chain, i <= k
  PROVE  /\ (h \in chain[i].fp /\ \A j \in DOMAIN chain : j > i => h \notin chain[j].removed)
              => h \in chain[k].fp
         /\ (h \notin chain[i].fp /\ \A j \in DOMAIN chain : j > i => h \notin chain[j].added)
              => h \notin chain[k].fp
<1>0. DOMAIN chain = 1..Len(chain) /\ Len(chain) \in Nat
  OBVIOUS
<1>1. ASSUME NEW j \in DOMAIN chain, j > 1
      PROVE  /\ j - 1 \in DOMAIN chain
             /\ chain[j].fp = (chain[j - 1].fp \ chain[j].removed) \cup chain[j].added
  BY <1>0, <1>1 DEF Composes
<1>2. ASSUME h \in chain[i].fp, \A j \in DOMAIN chain : j > i => h \notin chain[j].removed
      PROVE  h \in chain[k].fp
  <2> DEFINE T == {j \in Nat : j \in DOMAIN chain /\ j >= i /\ h \notin chain[j].fp}
  <2>1. SUFFICES ASSUME T # {} PROVE FALSE
    BY <1>0
  <2>2. PICK j \in T : \A y \in T : j <= y
    BY <2>1, LeastMember
  <2>3. j \in DOMAIN chain /\ j > i /\ j > 1 /\ j \in Nat
    BY <1>0, <1>2, <2>2
  <2>4. j - 1 \in DOMAIN chain /\ j - 1 >= i /\ j - 1 \in Nat
    BY <1>0, <1>1, <2>3
  <2>5. h \in chain[j - 1].fp
    BY <2>2, <2>3, <2>4
  <2> QED
    BY <1>1, <1>2, <2>2, <2>3, <2>5
<1>3. ASSUME h \notin chain[i].fp, \A j \in DOMAIN chain : j > i => h \notin chain[j].added
      PROVE  h \notin chain[k].fp
  <2> DEFINE T == {j \in Nat : j \in DOMAIN chain /\ j >= i /\ h \in chain[j].fp}
  <2>1. SUFFICES ASSUME T # {} PROVE FALSE
    BY <1>0
  <2>2. PICK j \in T : \A y \in T : j <= y
    BY <2>1, LeastMember
  <2>3. j \in DOMAIN chain /\ j > i /\ j > 1 /\ j \in Nat
    BY <1>0, <1>3, <2>2
  <2>4. j - 1 \in DOMAIN chain /\ j - 1 >= i /\ j - 1 \in Nat
    BY <1>0, <1>1, <2>3
  <2>5. h \notin chain[j - 1].fp
    BY <2>2, <2>3, <2>4
  <2> QED
    BY <1>1, <1>3, <2>2, <2>3, <2>5
<1> QED
  BY <1>2, <1>3

\* A host that a chain names ends where the chain's last list has it, whatever
\* the list the chain is applied to.
LEMMA ChainSettles ==
  ASSUME NEW chain \in Seq(Delta), chain # <<>>, Composes(chain),
         \A i \in DOMAIN chain : WellMade(chain[i]),
         NEW hosts, NEW h \in Named(chain)
  PROVE  h \in ApplyHosts(hosts, chain) <=> h \in Last(chain).fp
<1>0. /\ DOMAIN chain = 1..Len(chain) /\ Len(chain) \in Nat /\ Len(chain) \in DOMAIN chain
      /\ Last(chain) = chain[Len(chain)]
  BY DEF Last
<1> DEFINE n == Len(chain)
<1>1. ASSUME NEW i \in DOMAIN chain
      PROVE  /\ h \in chain[i].added => h \in chain[i].fp
             /\ h \in chain[i].removed => h \notin chain[i].fp
  BY DEF WellMade
<1>2. ASSUME NEW i \in Nat, i <= n
      PROVE  h \notin RemovedAfter(chain, i)
               <=> \A j \in DOMAIN chain : j > i => h \notin chain[j].removed
  BY <1>0 DEF RemovedAfter
<1>3. PICK i \in DOMAIN chain : h \in chain[i].added \/ h \in chain[i].removed
  BY DEF Named, Touched
<1>4. ASSUME NEW j \in DOMAIN chain, h \in chain[j].added, h \notin RemovedAfter(chain, j)
      PROVE  h \in chain[n].fp
  <2>1. j \in Nat /\ j <= n
    BY <1>0
  <2> QED
    BY <1>0, <1>1, <1>2, <1>4, <2>1, ChainCarries
<1>5. ASSUME h \in ApplyHosts(hosts, chain) PROVE h \in chain[n].fp
  <2>1. CASE \E j \in DOMAIN chain : h \in chain[j].added \ RemovedAfter(chain, j)
    BY <1>4, <2>1
  <2>2. CASE h \in hosts \ RemovedAfter(chain, 0)
    <3>1. \A j \in DOMAIN chain : h \notin chain[j].removed
      BY <1>0, <1>2, <2>2
    <3>2. h \in chain[i].added /\ i \in Nat /\ i <= n
      BY <1>0, <1>3, <3>1
    <3>3. h \notin RemovedAfter(chain, i)
      BY <1>2, <3>1, <3>2
    <3> QED
      BY <1>4, <3>2, <3>3
  <2> QED
    BY <1>5, <2>1, <2>2 DEF ApplyHosts
<1>6. ASSUME h \notin ApplyHosts(hosts, chain) PROVE h \notin chain[n].fp
  <2>1. \A j \in DOMAIN chain : h \in chain[j].added => h \in RemovedAfter(chain, j)
    BY <1>6 DEF ApplyHosts
  <2> DEFINE T == {j \in DOMAIN chain : h \in chain[j].removed}
  <2>2. T # {}
    <3>1. CASE h \in chain[i].removed
      BY <3>1
    <3>2. CASE h \in chain[i].added
      BY <1>0, <1>2, <2>1, <3>2
    <3> QED
      BY <1>3, <3>1, <3>2
  <2>3. T \in SUBSET (0..n)
    BY <1>0
  <2>4. PICK j \in T : \A y \in T : y <= j
    BY <1>0, <2>2, <2>3, GreatestMember
  <2>5. j \in DOMAIN chain /\ h \notin chain[j].fp /\ j \in Nat /\ j <= n
    BY <1>0, <1>1, <2>4
  <2>6. ASSUME NEW k \in DOMAIN chain, k > j, h \in chain[k].added PROVE FALSE
    <3>1. k \in Nat /\ k <= n /\ h \in RemovedAfter(chain, k)
      BY <1>0, <2>1, <2>6
    <3>2. PICK m \in DOMAIN chain : m > k /\ h \in chain[m].removed
      BY <1>2, <3>1
    <3> QED
      BY <1>0, <2>4, <2>5, <2>6, <3>2
  <2> QED
    BY <1>0, <2>5, <2>6, ChainCarries
<1> QED
  BY <1>0, <1>5, <1>6

\* A verified chain that composes leaves the list and the fingerprint equal, if
\* it names every host on which they differed.
LEMMA ChainVerified ==
  ASSUME NEW chain \in Seq(Delta), chain # <<>>, Composes(chain),
         \A i \in DOMAIN chain : WellMade(chain[i]),
         NEW hosts, NEW fp, (hosts \ fp) \cup (fp \ hosts) \subseteq Named(chain),
         Toggle(fp, chain) = Last(chain).fp
  PROVE  ApplyHosts(hosts, chain) = Last(chain).fp
<1>1. ASSUME NEW h PROVE h \in ApplyHosts(hosts, chain) <=> h \in Last(chain).fp
  <2>1. CASE h \in Named(chain)
    BY <2>1, ChainSettles
  <2>2. CASE h \notin Named(chain)
    <3>1. h \in hosts <=> h \in fp
      BY <2>2
    <3> QED
      BY <2>2, <3>1, ChainLeaves
  <2> QED
    BY <2>1, <2>2
<1> QED
  BY <1>1

-----------------------------------------------------------------------------
(* The ring.                                                               *)

\* A recorded ring: what was kept, and the new entry, without the oldest if
\* there is no room.
LEMMA RecordedShape ==
  ASSUME NEW ring \in Seq(Delta), NEW d \in Delta
  PROVE  \E kept \in Seq(Delta), o \in {0, 1} :
           /\ kept = ring \/ kept = <<>>
           /\ kept # <<>> => d.base = Last(kept).ver
           /\ Recorded(ring, d) \in Seq(Delta)
           /\ Len(kept) \in Nat /\ Len(Recorded(ring, d)) = Len(kept) + 1 - o /\ o <= Len(kept)
           /\ \A i \in 1..Len(Recorded(ring, d)) :
                Recorded(ring, d)[i] = IF i + o = Len(kept) + 1 THEN d ELSE kept[i + o]
<1> DEFINE kept == IF ring # <<>> /\ d.base # Last(ring).ver THEN <<>> ELSE ring
<1> DEFINE all == Append(kept, d)
<1>0. RingSize \in Nat /\ RingSize >= 1
  BY ConfigSyncAssumption
<1>1. /\ kept \in Seq(Delta) /\ (kept = ring \/ kept = <<>>) /\ Len(kept) \in Nat
      /\ kept # <<>> => d.base = Last(kept).ver
  OBVIOUS
<1>2. Recorded(ring, d) = IF Len(all) > RingSize THEN Tail(all) ELSE all
  BY DEF Recorded
<1> HIDE DEF kept
<1>3. /\ all \in Seq(Delta) /\ Len(all) = Len(kept) + 1 /\ all # <<>>
      /\ \A i \in 1..Len(all) : all[i] = IF i = Len(kept) + 1 THEN d ELSE kept[i]
  BY <1>1
<1> HIDE DEF all
<1>4. CASE Len(all) > RingSize
  <2>1. /\ Tail(all) \in Seq(Delta) /\ Len(Tail(all)) = Len(all) - 1
        /\ \A i \in 1..(Len(all) - 1) : Tail(all)[i] = all[i + 1]
    BY <1>3
  <2>2. 1 <= Len(kept)
    BY <1>0, <1>1, <1>3, <1>4
  <2>3. ASSUME NEW i \in 1..Len(Tail(all))
        PROVE  Tail(all)[i] = IF i + 1 = Len(kept) + 1 THEN d ELSE kept[i + 1]
    BY <1>1, <1>3, <2>1
  <2>4. Recorded(ring, d) = Tail(all)
    BY <1>2, <1>4
  <2> QED
    BY <1>1, <1>3, <2>1, <2>2, <2>3, <2>4
<1>5. CASE ~(Len(all) > RingSize)
  <2>1. Recorded(ring, d) = all
    BY <1>2, <1>5
  <2>2. ASSUME NEW i \in 1..Len(all)
        PROVE  all[i] = IF i + 0 = Len(kept) + 1 THEN d ELSE kept[i + 0]
    BY <1>1, <1>3
  <2> QED
    BY <1>1, <1>3, <2>1, <2>2
<1> QED
  BY <1>4, <1>5

\* Its entries are the new one and entries of the old ring.
LEMMA RecordedEntries ==
  ASSUME NEW ring \in Seq(Delta), NEW d \in Delta, NEW i \in DOMAIN Recorded(ring, d)
  PROVE  Recorded(ring, d)[i] = d \/ \E j \in DOMAIN ring : Recorded(ring, d)[i] = ring[j]
<1> DEFINE R == Recorded(ring, d)
<1>1. PICK kept \in Seq(Delta), o \in {0, 1} :
        /\ kept = ring \/ kept = <<>>
        /\ R \in Seq(Delta) /\ Len(kept) \in Nat /\ Len(R) = Len(kept) + 1 - o
        /\ \A k \in 1..Len(R) : R[k] = IF k + o = Len(kept) + 1 THEN d ELSE kept[k + o]
  BY RecordedShape
<1> HIDE DEF R
<1>2. i \in 1..Len(R)
  BY <1>1 DEF R
<1>3. CASE i + o = Len(kept) + 1
  BY <1>1, <1>2, <1>3 DEF R
<1>4. CASE i + o # Len(kept) + 1
  <2>1. R[i] = kept[i + o] /\ i + o \in 1..Len(kept)
    BY <1>1, <1>2, <1>4
  <2>2. kept = ring /\ i + o \in DOMAIN ring
    BY <1>1, <2>1
  <2> QED
    BY <2>1, <2>2 DEF R
<1> QED
  BY <1>3, <1>4

\* It ascends.
LEMMA RecordedAscends ==
  ASSUME NEW ring \in Seq(Delta), NEW d \in Delta, Ascends(ring), WellMade(d)
  PROVE  Ascends(Recorded(ring, d))
<1> DEFINE R == Recorded(ring, d)
<1>1. PICK kept \in Seq(Delta), o \in {0, 1} :
        /\ kept = ring \/ kept = <<>>
        /\ kept # <<>> => d.base = Last(kept).ver
        /\ R \in Seq(Delta) /\ Len(kept) \in Nat /\ Len(R) = Len(kept) + 1 - o /\ o <= Len(kept)
        /\ \A k \in 1..Len(R) : R[k] = IF k + o = Len(kept) + 1 THEN d ELSE kept[k + o]
  BY RecordedShape
<1> HIDE DEF R
<1> DEFINE n == Len(kept)
<1> DEFINE b == IF n = 0 THEN d.base ELSE kept[1].base
<1>2. ASSUME NEW k \in 1..n
      PROVE  WellMade(kept[k]) /\ kept[k].base = b + (k - 1) /\ kept[k].base \in Nat
  <2>1. kept = ring /\ k \in DOMAIN ring /\ n # 0
    BY <1>1
  <2>2. kept[k] \in Delta
    BY <1>1
  <2> QED
    BY <2>1, <2>2, DeltaFields DEF Ascends
<1>3. b \in Nat /\ d.base = b + n
  <2>1. CASE n = 0
    BY <2>1, <1>1, DeltaFields
  <2>2. CASE n # 0
    <3>1. n \in 1..n /\ 1 \in 1..n /\ Last(kept) = kept[n] /\ kept # <<>>
      BY <1>1, <2>2 DEF Last
    <3>2. kept[1].base \in Nat /\ kept[n].base = b + (n - 1) /\ WellMade(kept[n])
      BY <1>2, <3>1
    <3> QED
      BY <1>1, <2>2, <3>1, <3>2 DEF WellMade
  <2> QED
    BY <2>1, <2>2
<1>4. ASSUME NEW k \in 1..Len(R) PROVE WellMade(R[k]) /\ R[k].base = b + (k + o - 1)
  <2>1. CASE k + o = n + 1
    BY <1>1, <1>3, <2>1
  <2>2. CASE k + o # n + 1
    <3>1. R[k] = kept[k + o] /\ k + o \in 1..n
      BY <1>1, <2>2
    <3> QED
      BY <1>2, <3>1
  <2> QED
    BY <2>1, <2>2
<1>5. 1 \in 1..Len(R) /\ DOMAIN R = 1..Len(R)
  BY <1>1
<1> HIDE DEF b, n
<1>6. R[1].base = b + o
  BY <1>3, <1>4, <1>5
<1>7. ASSUME NEW k \in DOMAIN R PROVE WellMade(R[k]) /\ R[k].base = R[1].base + (k - 1)
  <2>1. k \in 1..Len(R) /\ k \in Int /\ o \in Int
    BY <1>1, <1>5
  <2>2. WellMade(R[k]) /\ R[k].base = b + (k + o - 1)
    BY <1>4, <2>1
  <2>3. b + (k + o - 1) = (b + o) + (k - 1)
    BY <1>3, <2>1
  <2> QED
    BY <1>6, <2>2, <2>3
<1> QED
  BY <1>7 DEF Ascends, R

\* From a version that the new entry does not start at, it names what the old
\* ring named.
LEMMA RecordedNames ==
  ASSUME NEW ring \in Seq(Delta), NEW d \in Delta, NEW v, NEW h, d.base # v, Names(ring, v, h)
  PROVE  Names(Recorded(ring, d), v, h)
<1> DEFINE R == Recorded(ring, d)
<1>1. PICK kept \in Seq(Delta), o \in {0, 1} :
        /\ kept = ring \/ kept = <<>>
        /\ R \in Seq(Delta) /\ Len(kept) \in Nat /\ Len(R) = Len(kept) + 1 - o /\ o <= Len(kept)
        /\ \A k \in 1..Len(R) : R[k] = IF k + o = Len(kept) + 1 THEN d ELSE kept[k + o]
  BY RecordedShape
<1> HIDE DEF R
<1>2. ASSUME NEW i \in DOMAIN R, R[i].base = v
      PROVE  \E j \in DOMAIN R : j >= i /\ h \in Touched(R[j])
  <2>1. i \in 1..Len(R) /\ DOMAIN R = 1..Len(R)
    BY <1>1
  <2>2. i + o # Len(kept) + 1
    BY <1>1, <1>2, <2>1
  <2>3. R[i] = kept[i + o] /\ i + o \in 1..Len(kept)
    BY <1>1, <2>1, <2>2
  <2>4. kept = ring /\ i + o \in DOMAIN ring
    BY <1>1, <2>3
  <2>5. PICK m \in DOMAIN ring : m >= i + o /\ h \in Touched(ring[m])
    BY <1>2, <2>3, <2>4 DEF Names
  <2>6. m \in 1..Len(kept) /\ m - o \in 1..Len(R) /\ m - o >= i
    BY <1>1, <2>1, <2>4, <2>5
  <2>7. R[m - o] = kept[m]
    BY <1>1, <2>6
  <2> QED
    BY <2>1, <2>4, <2>5, <2>6, <2>7
<1> QED
  BY <1>2 DEF Names, R

\* What is served from a version within an ascending ring: its entries from the
\* one at that version on.
LEMMA ChainShape ==
  ASSUME NEW ring \in Seq(Delta), ring # <<>>, Ascends(ring), NEW v \in Nat,
         ring[1].base <= v, v < Last(ring).ver
  PROVE  \E k \in DOMAIN ring :
           /\ k \in 1..Len(ring) /\ ring[k].base = v
           /\ ChainFrom(ring, v) \in Seq(Delta)
           /\ Len(ChainFrom(ring, v)) = Len(ring) - k + 1
           /\ \A i \in 1..(Len(ring) - k + 1) : ChainFrom(ring, v)[i] = ring[k + i - 1]
<1> DEFINE n == Len(ring)
<1> DEFINE k == v - ring[1].base + 1
<1>0. n \in Nat /\ n >= 1 /\ DOMAIN ring = 1..n /\ Last(ring) = ring[n] /\ 1 \in 1..n /\ n \in 1..n
  BY DEF Last
<1>1. ASSUME NEW i \in 1..n
      PROVE  /\ ring[i].base = ring[1].base + (i - 1) /\ ring[i].ver = ring[i].base + 1
             /\ ring[i].base \in Nat
  <2>1. ring[i] \in Delta
    BY <1>0
  <2> QED
    BY <1>0, <2>1, DeltaFields DEF Ascends, WellMade
<1>2. ring[1].base \in Nat /\ ring[n].ver = ring[1].base + n
  <2>1. ring[1].base \in Nat
    BY <1>0, <1>1
  <2>2. ring[n].ver = ring[n].base + 1 /\ ring[n].base = ring[1].base + (n - 1)
    BY <1>0, <1>1
  <2>3. (ring[1].base + (n - 1)) + 1 = ring[1].base + n
    BY <1>0, <2>1
  <2> QED
    BY <2>1, <2>2, <2>3
<1>3. k \in 1..n
  BY <1>0, <1>2
<1>4. ring[k].base = v
  BY <1>0, <1>1, <1>2, <1>3
<1>5. ASSUME NEW i \in 1..(n + 1)
      PROVE  (\A j \in DOMAIN ring : ring[j].base >= v <=> j >= i) <=> i = k
  <2>1. ASSUME NEW j \in 1..n PROVE ring[j].base >= v <=> j >= k
    BY <1>0, <1>1, <1>2, <2>1
  <2>2. ASSUME \A j \in DOMAIN ring : ring[j].base >= v <=> j >= i PROVE i = k
    <3>1. \A j \in 1..n : j >= i <=> j >= k
      BY <1>0, <2>1, <2>2
    <3>2. k >= i
      BY <1>3, <3>1
    <3>3. i \in 1..n => i >= k
      BY <3>1
    <3> QED
      BY <1>0, <1>3, <3>2, <3>3
  <2> QED
    BY <1>0, <2>1, <2>2
<1> DEFINE from == CHOOSE i \in 1..(n + 1) : \A j \in DOMAIN ring : ring[j].base >= v <=> j >= i
<1>6. from = k
  <2>1. k \in 1..(n + 1)
    BY <1>0, <1>3
  <2>2. \E i \in 1..(n + 1) : \A j \in DOMAIN ring : ring[j].base >= v <=> j >= i
    BY <1>5, <2>1
  <2>3. from \in 1..(n + 1) /\ \A j \in DOMAIN ring : ring[j].base >= v <=> j >= from
    BY <2>2
  <2> QED
    BY <1>5, <2>3
<1>7. ChainFrom(ring, v) = SubSeq(ring, k, n)
  BY <1>6 DEF ChainFrom
<1> HIDE DEF k
<1>8. /\ SubSeq(ring, k, n) \in Seq(Delta) /\ Len(SubSeq(ring, k, n)) = n - k + 1
      /\ \A i \in 1..(n - k + 1) : SubSeq(ring, k, n)[i] = ring[k + i - 1]
  BY <1>0, <1>3
<1> QED
  BY <1>0, <1>3, <1>4, <1>7, <1>8

-----------------------------------------------------------------------------
(* A step of one Control Plane, and the lists.                             *)

\* What a step of the Control Planes leaves alone.
LEMMA PollSame ==
  ASSUME UNCHANGED dpVars
  PROVE  /\ dp' = dp /\ poll' = poll /\ disk' = disk
         /\ ListTypeOK' = ListTypeOK /\ ChainInv' = ChainInv /\ Loose' = Loose
         /\ \A v, h : PollHas(v, h)' = PollHas(v, h)
<1>1. dp' = dp /\ poll' = poll /\ disk' = disk
  BY DEF dpVars
<1>2. Drift' = Drift /\ Chaining' = Chaining
  BY <1>1 DEF Drift, Chaining
<1>3. Loose' = Loose
  BY <1>1, <1>2 DEF Loose
<1>4. ListTypeOK' = ListTypeOK
  BY <1>1 DEF ListTypeOK
<1>5. ChainInv' = ChainInv
  BY <1>1, <1>2 DEF ChainInv
<1>6. \A v, h : PollHas(v, h)' = PollHas(v, h)
  BY <1>1 DEF PollHas
<1> QED
  BY <1>1, <1>3, <1>4, <1>5, <1>6

\* The counters are numbers.
LEMMA CounterFacts ==
  ASSUME ConfigInv
  PROVE  /\ \A c \in CP : cp[c].ver \in Nat /\ cp[c].ver <= top
         /\ top \in Nat /\ left.issues \in Nat /\ dp.ver \in Nat
         /\ Issued \subseteq Nat
<1>1. \A c \in CP : cp[c].ver \in Nat /\ cp[c].ver <= top
  BY ControlKnown
<1>2. top \in Nat /\ left.issues \in Nat
  BY Standing, NumberFacts
<1>3. dp.ver \in Nat
  BY NumberFacts DEF ConfigInv, DataShape, DataTypeOK
<1>4. Issued \subseteq Nat
  BY NumberFacts DEF Issued
<1> QED
  BY <1>1, <1>2, <1>3, <1>4

\* The process a delta starts from held is a version known with the delta's list.
LEMMA BaseKnown ==
  ASSUME ConfigInv, NEW c \in CP, Made(cp[c]), NEW b \in Nat, HasBase(cp[c], b)
  PROVE  b + 1 \in Issued /\ \E h \in SUBSET Hosts : HasList(cp[c], b + 1, h)
<1>1. /\ cp[c].ring \in Seq(Delta) /\ cp[c].pubs \in SUBSET (Built \cup Committed)
  BY ControlKnown
<1>2. PICK d \in Delta :
        /\ d.base = b /\ WellMade(d)
        /\ \/ \E i \in DOMAIN cp[c].ring : cp[c].ring[i] = d
           \/ \E p \in cp[c].pubs : p.at = "committed" /\ p.delta = d
  <2>1. CASE \E i \in DOMAIN cp[c].ring : cp[c].ring[i].base = b
    BY <1>1, <2>1 DEF Made, Ascends
  <2>2. CASE \E p \in cp[c].pubs : p.at = "committed" /\ p.delta.base = b
    <3>1. PICK p \in cp[c].pubs : p.at = "committed" /\ p.delta.base = b
      BY <2>2
    <3>2. p \in Committed /\ p.delta \in Delta
      BY <1>1, <3>1 DEF Built, Committed
    <3> QED
      BY <3>1, <3>2 DEF Made
  <2> QED
    BY <2>1, <2>2 DEF HasBase
<1>3. d.ver = b + 1 /\ d.ver \in Version /\ d.fp \in SUBSET Hosts
  BY <1>2, DeltaFields DEF WellMade
<1>4. HasList(cp[c], b + 1, d.fp)
  BY <1>2, <1>3 DEF HasList
<1> QED
  BY <1>3, <1>4 DEF Issued

\* A step that publishes nothing: the process holds no list and no delta it did
\* not hold before.
LEMMA QuietStep ==
  ASSUME ConfigInv, ListInv, NEW c \in CP, NEW r, cp' = [cp EXCEPT ![c] = r],
         Made(r), r.ver = cp[c].ver, UNCHANGED dpVars,
         top' = top, left'.issues = left.issues, left'.faults = left.faults,
         coherent' \in BOOLEAN, coherent' => coherent /\ Composes(r.ring),
         coherent' => \A v \in Issued, h \in SUBSET Hosts : HasList(r, v, h) => Known(v, h),
         coherent' => \A b \in Version : HasBase(r, b) => HasBase(cp[c], b),
         coherent' => Once(r),
         coherent' => \A h : Covers(cp[c], dp.ver, h) => Covers(r, dp.ver, h)
  PROVE  ListInv'
<1>0. cp \in [CP -> ControlPlane] /\ cp'[c] = r /\ \A d \in CP : d # c => cp'[d] = cp[d]
  BY DEF ConfigInv, ControlTypeOK
<1>1. ListTypeOK' /\ \A d \in CP : Made(cp'[d])
  BY <1>0, PollSame DEF ListInv
<1>2. ASSUME coherent' PROVE CoherentInv'
  <2>0. CoherentInv /\ coherent
    BY <1>2 DEF ListInv
  <2>1. ASSUME NEW v \in Issued, NEW h \in SUBSET Hosts, Known(v, h)' PROVE Known(v, h)
    <3>1. CASE PollHas(v, h)'
      BY <3>1, PollSame DEF Known
    <3>2. CASE \E d \in CP : HasList(cp'[d], v, h)
      BY <1>0, <1>2, <3>2 DEF Known
    <3> QED
      BY <2>1, <3>1, <3>2 DEF Known
  <2>2. \A d \in CP : cp'[d].ver = cp[d].ver
    BY <1>0
  <2>3. \A v : Clear(v) => Clear(v)'
    BY <2>2 DEF Clear
  <2>4. ListsAgree'
    BY <2>0, <2>1 DEF CoherentInv, ListsAgree
  <2>5. AllClear'
    BY <2>0, <2>1, <2>3, PollSame DEF CoherentInv, AllClear
  <2>6. Apart'
    BY <2>0, <2>2 DEF CoherentInv, Apart
  <2>7. BasesApart'
    <3>1. \A d \in CP : Once(cp'[d])
      BY <1>0, <1>2, <2>0 DEF CoherentInv, BasesApart
    <3>2. \A d \in CP, b \in Version : HasBase(cp'[d], b) => HasBase(cp[d], b)
      BY <1>0, <1>2
    <3> QED
      BY <2>0, <3>1, <3>2 DEF CoherentInv, BasesApart
  <2>8. LooseCovered'
    BY <1>0, <1>2, <2>0, <2>2, PollSame DEF CoherentInv, LooseCovered
  <2>9. "clock" \notin left'.faults /\ \A d \in CP : Composes(cp'[d].ring)
    BY <1>0, <1>2, <2>0 DEF CoherentInv
  <2>10. ChainInv' /\ disk'.good.hosts = disk'.good.snap.hosts
    BY <2>0, PollSame DEF CoherentInv
  <2> QED
    BY <2>4, <2>5, <2>6, <2>7, <2>8, <2>9, <2>10 DEF CoherentInv
<1> QED
  BY <1>1, <1>2 DEF ListInv

\* A publish of version v: either the next one of a process that has published,
\* or one of a seed above everything issued so far.
NextVersion(c, v) == (cp[c].ver > 0 /\ v = cp[c].ver + 1) \/ v > top + left.issues

\* Such a version is new, and it is apart from what the others can reach.
LEMMA FreshVersion ==
  ASSUME ConfigInv, CoherentInv, NEW c \in CP, NEW v \in Issued, NextVersion(c, v), left.issues > 0,
         NEW r, cp' = [cp EXCEPT ![c] = r], r.ver = v,
         left'.issues = left.issues - 1, top' = Bigger(top, v)
  PROVE  /\ \A h \in SUBSET Hosts : ~Known(v, h)
         /\ \A w \in Nat : Clear(w) => Clear(w)' /\ w # v
         /\ Clear(v)' /\ Apart'
         /\ v - 1 = dp.ver => cp[c].ver = dp.ver
<1>0. /\ cp'[c] = r /\ \A d \in CP : d # c => cp'[d] = cp[d]
  BY DEF ConfigInv, ControlTypeOK
<1>1. /\ \A d \in CP : cp[d].ver \in Nat /\ cp[d].ver <= top
      /\ top \in Nat /\ left.issues \in Nat /\ dp.ver \in Nat /\ v \in Nat
  BY CounterFacts
<1>2. ASSUME NEW w \in Nat, Clear(w) PROVE w # v
  BY <1>1, <1>2 DEF Clear, NextVersion
<1>3. \A h \in SUBSET Hosts : ~Known(v, h)
  BY <1>1, <1>2 DEF CoherentInv, AllClear
<1>4. top' \in Nat /\ top <= top' /\ v <= top'
  BY <1>1 DEF Bigger
<1>5. ASSUME NEW w \in Nat, Clear(w) PROVE Clear(w)'
  <2>1. w <= top'
    BY <1>1, <1>4, <1>5 DEF Clear
  <2>2. ASSUME NEW d \in CP, cp'[d].ver > 0
        PROVE  w <= cp'[d].ver \/ w > cp'[d].ver + left'.issues
    <3>1. CASE d # c
      BY <1>0, <1>1, <1>5, <2>2, <3>1 DEF Clear
    <3>2. CASE d = c
      BY <1>0, <1>1, <1>5, <2>2, <3>2 DEF Clear, NextVersion
    <3> QED
      BY <3>1, <3>2
  <2> QED
    BY <2>1, <2>2 DEF Clear
<1>6. ASSUME NEW d \in CP, d # c, cp[d].ver > 0
      PROVE  /\ v <= cp[d].ver \/ v > cp[d].ver + left'.issues
             /\ v + left'.issues < cp[d].ver \/ cp[d].ver + left'.issues < v
  <2>1. CASE cp[c].ver > 0 /\ v = cp[c].ver + 1
    <3>1. cp[c].ver + left.issues < cp[d].ver \/ cp[d].ver + left.issues < cp[c].ver
      BY <1>6, <2>1 DEF CoherentInv, Apart
    <3>2. cp[c].ver \in Nat /\ cp[d].ver \in Nat
      BY <1>1
    <3> QED
      BY <1>1, <2>1, <3>1, <3>2
  <2>2. CASE v > top + left.issues
    <3>1. cp[d].ver \in Nat /\ cp[d].ver <= top
      BY <1>1
    <3> QED
      BY <1>1, <2>2, <3>1
  <2> QED
    BY <2>1, <2>2 DEF NextVersion
<1>7. Clear(v)'
  <2>1. ASSUME NEW d \in CP, cp'[d].ver > 0
        PROVE  v <= cp'[d].ver \/ v > cp'[d].ver + left'.issues
    BY <1>0, <1>1, <1>6, <2>1
  <2> QED
    BY <1>4, <2>1 DEF Clear
<1>8. Apart'
  <2>1. ASSUME NEW a \in CP, NEW d \in CP, a # d, cp'[a].ver > 0, cp'[d].ver > 0
        PROVE  cp'[a].ver + left'.issues < cp'[d].ver \/ cp'[d].ver + left'.issues < cp'[a].ver
    <3>1. CASE a = c
      BY <1>0, <1>6, <2>1, <3>1
    <3>2. CASE d = c
      BY <1>0, <1>6, <2>1, <3>2
    <3>3. CASE a # c /\ d # c
      <4>1. cp'[a] = cp[a] /\ cp'[d] = cp[d] /\ cp[a].ver \in Nat /\ cp[d].ver \in Nat
        BY <1>0, <1>1, <3>3
      <4>2. cp[a].ver + left.issues < cp[d].ver \/ cp[d].ver + left.issues < cp[a].ver
        BY <2>1, <4>1 DEF CoherentInv, Apart
      <4> QED
        BY <1>1, <4>1, <4>2
    <3> QED
      BY <3>1, <3>2, <3>3
  <2> QED
    BY <2>1 DEF Apart
<1>9. v - 1 = dp.ver => cp[c].ver = dp.ver
  <2>1. dp.ver <= top
    BY DEF CoherentInv, AllClear, Clear
  <2>2. cp[c].ver \in Nat
    BY <1>1
  <2> QED
    BY <1>1, <2>1, <2>2 DEF NextVersion
<1> QED
  BY <1>2, <1>3, <1>5, <1>7, <1>8, <1>9

\* The process r that c becomes holds at most the list l of version v, and the
\* delta to it, beyond what it held.
Publishes(c, r, v, l) ==
  coherent' =>
    /\ \A w \in Issued, h \in SUBSET Hosts : HasList(r, w, h) => Known(w, h) \/ (w = v /\ h = l)
    /\ \A b \in Version : HasBase(r, b) => HasBase(cp[c], b) \/ b = v - 1
    /\ Once(r)
    /\ \A h : (v - 1 # dp.ver /\ Covers(cp[c], dp.ver, h)) => Covers(r, dp.ver, h)

\* A step that publishes: the process holds one list and one delta more.
LEMMA IssueStep ==
  ASSUME ConfigInv, ListInv, NEW c \in CP, NEW r, cp' = [cp EXCEPT ![c] = r], Made(r),
         NEW v \in Issued, NEW l, r.ver = v, UNCHANGED dpVars,
         left.issues > 0, left'.issues = left.issues - 1, left'.faults = left.faults,
         top' = Bigger(top, v), coherent => NextVersion(c, v),
         coherent' \in BOOLEAN, coherent' => coherent /\ Composes(r.ring), Publishes(c, r, v, l)
  PROVE  ListInv'
<1>0. cp \in [CP -> ControlPlane] /\ cp'[c] = r /\ \A d \in CP : d # c => cp'[d] = cp[d]
  BY DEF ConfigInv, ControlTypeOK
<1>1. ListTypeOK' /\ \A d \in CP : Made(cp'[d])
  BY <1>0, PollSame DEF ListInv
<1>2. ASSUME coherent' PROVE CoherentInv'
  <2>0. CoherentInv /\ coherent
    BY <1>2 DEF ListInv
  <2>1. ASSUME NEW w \in Issued, NEW h \in SUBSET Hosts, Known(w, h)'
        PROVE  Known(w, h) \/ (w = v /\ h = l)
    <3>1. CASE PollHas(w, h)'
      BY <3>1, PollSame DEF Known
    <3>2. CASE \E d \in CP : HasList(cp'[d], w, h)
      BY <1>0, <1>2, <3>2 DEF Known, Publishes
    <3> QED
      BY <2>1, <3>1, <3>2 DEF Known
  <2>2. /\ \A h \in SUBSET Hosts : ~Known(v, h)
        /\ \A w \in Nat : Clear(w) => Clear(w)' /\ w # v
        /\ Clear(v)' /\ Apart'
        /\ v - 1 = dp.ver => cp[c].ver = dp.ver
    BY <2>0, FreshVersion
  <2>3. Issued \subseteq Nat /\ dp.ver \in Nat /\ left.issues \in Nat /\ dp' = dp
    BY CounterFacts, PollSame
  <2>4. ListsAgree'
    BY <2>0, <2>1, <2>2 DEF CoherentInv, ListsAgree
  <2>5. AllClear'
    BY <2>0, <2>1, <2>2, <2>3 DEF CoherentInv, AllClear
  <2>7. BasesApart'
    <3>1. \A d \in CP : Once(cp'[d])
      BY <1>0, <1>2, <2>0 DEF CoherentInv, BasesApart, Publishes
    <3>2. ASSUME NEW d \in CP, d # c, NEW b \in Version, HasBase(cp[d], b), HasBase(r, b)
          PROVE  FALSE
      <4>1. ~HasBase(cp[c], b)
        BY <2>0, <3>2 DEF CoherentInv, BasesApart
      <4>2. b = v - 1 /\ b \in Nat /\ v \in Nat
        BY <1>2, <2>3, <3>2, <4>1, NumberFacts DEF Publishes
      <4>3. b + 1 = v
        BY <4>2
      <4>4. PICK h \in SUBSET Hosts : HasList(cp[d], b + 1, h)
        BY <3>2, <4>2, BaseKnown DEF ListInv
      <4> QED
        BY <2>2, <4>3, <4>4 DEF Known
    <3>3. \A a, d \in CP : a # d => \A b \in Version : ~(HasBase(cp'[a], b) /\ HasBase(cp'[d], b))
      BY <1>0, <2>0, <3>2 DEF CoherentInv, BasesApart
    <3> QED
      BY <3>1, <3>3 DEF BasesApart
  <2>8. LooseCovered'
    <3>1. ASSUME NEW h \in Loose, NEW d \in CP
          PROVE  Covers(cp'[d], dp.ver, h) /\ cp'[d].ver # dp.ver
      <4>1. Covers(cp[d], dp.ver, h) /\ cp[d].ver # dp.ver
        BY <2>0, <3>1 DEF CoherentInv, LooseCovered
      <4>2. v - 1 # dp.ver /\ v # dp.ver
        <5>1. cp[c].ver # dp.ver
          BY <2>0, <3>1 DEF CoherentInv, LooseCovered
        <5>2. v # dp.ver
          BY <2>0, <2>2, <2>3 DEF CoherentInv, AllClear
        <5> QED
          BY <2>2, <5>1, <5>2
      <4> QED
        BY <1>0, <1>2, <4>1, <4>2 DEF Publishes
    <3> QED
      BY <2>3, <3>1, PollSame DEF LooseCovered
  <2>9. "clock" \notin left'.faults /\ \A d \in CP : Composes(cp'[d].ring)
    BY <1>0, <1>2, <2>0 DEF CoherentInv
  <2>10. ChainInv' /\ disk'.good.hosts = disk'.good.snap.hosts
    BY <2>0, PollSame DEF CoherentInv
  <2> QED
    BY <2>2, <2>4, <2>5, <2>7, <2>8, <2>9, <2>10 DEF CoherentInv
<1> QED
  BY <1>1, <1>2 DEF ListInv

\* What is served, held and in flight is the same.
SameLists(q, r) ==
  /\ q.ring = r.ring /\ q.snap = r.snap /\ q.rem = r.rem
  /\ \A p : p.at = "committed" => (p \in q.pubs <=> p \in r.pubs)

\* Such a process covers, and holds, the same.
LEMMA SameListsFacts ==
  ASSUME NEW q, NEW r, SameLists(q, r)
  PROVE  /\ \A v, h : HasList(q, v, h) => HasList(r, v, h)
         /\ \A b : HasBase(q, b) => HasBase(r, b)
         /\ Once(r) => Once(q)
         /\ \A v, h : Covers(r, v, h) => Covers(q, v, h)
<1>1. \A v, h : HasList(q, v, h) => HasList(r, v, h)
  BY DEF SameLists, HasList
<1>2. \A b : HasBase(q, b) => HasBase(r, b)
  BY DEF SameLists, HasBase
<1>3. Once(r) => Once(q)
  BY DEF SameLists, Once
<1>4. \A v, h : Covers(r, v, h) => Covers(q, v, h)
  BY DEF SameLists, Covers
<1> QED
  BY <1>1, <1>2, <1>3, <1>4

\* A step that changes nothing of what a process holds.
LEMMA IdleStep ==
  ASSUME ConfigInv, ListInv, NEW c \in CP, NEW r, cp' = [cp EXCEPT ![c] = r],
         Made(r), r.ver = cp[c].ver, SameLists(r, cp[c]), UNCHANGED dpVars,
         top' = top, left'.issues = left.issues, left'.faults = left.faults, coherent' = coherent
  PROVE  ListInv'
<1>1. coherent' \in BOOLEAN
  BY Zenon DEF ListInv
<1>2. ASSUME coherent'
      PROVE  /\ coherent /\ Composes(r.ring)
             /\ \A v \in Issued, h \in SUBSET Hosts : HasList(r, v, h) => Known(v, h)
             /\ \A b \in Version : HasBase(r, b) => HasBase(cp[c], b)
             /\ Once(r) /\ \A h : Covers(cp[c], dp.ver, h) => Covers(r, dp.ver, h)
  <2>1. coherent /\ CoherentInv
    BY <1>2 DEF ListInv
  <2>2. Composes(cp[c].ring) /\ Once(cp[c])
    BY <2>1 DEF CoherentInv, BasesApart
  <2>3. Composes(r.ring)
    BY <2>2 DEF SameLists
  <2>4. \A v \in Issued, h \in SUBSET Hosts : HasList(r, v, h) => Known(v, h)
    BY SameListsFacts DEF Known
  <2> QED
    BY <2>1, <2>2, <2>3, <2>4, SameListsFacts
<1> QED
  BY <1>1, <1>2, QuietStep

\* A handler builds what it will publish.
LEMMA BuildLists ==
  ASSUME ConfigInv, ListInv, NEW c \in CP, Build(c)
  PROVE  ListInv'
<1>1. PICK hosts \in SUBSET left.hosts :
        cp' = [cp EXCEPT ![c].live = hosts, ![c].pubs =
                 @ \cup {[at |-> "built", epoch |-> cp[c].epoch, hosts |-> hosts]}]
  BY DEF Build
<1> DEFINE b == [at |-> "built", epoch |-> cp[c].epoch, hosts |-> hosts]
<1> DEFINE r == [cp[c] EXCEPT !.live = hosts, !.pubs = cp[c].pubs \cup {b}]
<1>2. cp[c] \in ControlPlane /\ Made(cp[c])
  BY ControlKnown DEF ListInv
<1>3. b.at = "built"
  OBVIOUS
<1>4. cp' = [cp EXCEPT ![c] = r]
  BY <1>1
<1> HIDE DEF b
<1>5. /\ r.pubs = cp[c].pubs \cup {b} /\ r.ring = cp[c].ring /\ r.ver = cp[c].ver
      /\ r.snap = cp[c].snap /\ r.rem = cp[c].rem /\ r.role = cp[c].role
  BY <1>2 DEF ControlPlane
<1> HIDE DEF r
<1>6. Made(r)
  BY <1>2, <1>3, <1>5 DEF Made, Build, Serving
<1>7. SameLists(r, cp[c])
  BY <1>3, <1>5 DEF SameLists
<1>8. UNCHANGED <<left, top, coherent>> /\ UNCHANGED dpVars
  BY DEF Build
<1> QED
  BY <1>4, <1>5, <1>6, <1>7, <1>8, IdleStep

\* A process that changes its role and epoch, to serve only if it did.
LEMMA TurnLists ==
  ASSUME ConfigInv, ListInv, NEW c \in CP, NEW to, NEW e,
         cp' = [cp EXCEPT ![c] = [cp[c] EXCEPT !.role = to, !.epoch = e]],
         to = "standby" \/ Serving(c), UNCHANGED dpVars, top' = top, left' = left, coherent' = coherent
  PROVE  ListInv'
<1> DEFINE r == [cp[c] EXCEPT !.role = to, !.epoch = e]
<1>1. cp[c] \in ControlPlane /\ Made(cp[c])
  BY ControlKnown DEF ListInv
<1>2. /\ r.pubs = cp[c].pubs /\ r.ring = cp[c].ring /\ r.ver = cp[c].ver
      /\ r.snap = cp[c].snap /\ r.rem = cp[c].rem /\ r.role = to
  BY <1>1 DEF ControlPlane
<1>3. cp' = [cp EXCEPT ![c] = r]
  OBVIOUS
<1> HIDE DEF r
<1>4. Made(r)
  BY <1>1, <1>2 DEF Made, Serving
<1>5. SameLists(r, cp[c])
  BY <1>2 DEF SameLists
<1> QED
  BY <1>2, <1>3, <1>4, <1>5, IdleStep

\* ResumeAsLeader, granted or not.
LEMMA ResumeLists ==
  ASSUME ConfigInv, ListInv, NEW c \in CP, Resume(c)
  PROVE  ListInv'
<1>1. cp[c] \in ControlPlane
  BY ControlKnown
<1>2. [cp[c] EXCEPT !.role = "resync"] = [cp[c] EXCEPT !.role = "resync", !.epoch = cp[c].epoch]
  BY <1>1 DEF ControlPlane
<1>3. \/ cp' = [cp EXCEPT ![c] = [cp[c] EXCEPT !.role = "leader", !.epoch = token + 1]]
      \/ cp' = [cp EXCEPT ![c] = [cp[c] EXCEPT !.role = "resync", !.epoch = cp[c].epoch]]
  BY <1>2 DEF Resume
<1>4. Serving(c) /\ UNCHANGED <<left, top, coherent>> /\ UNCHANGED dpVars
  BY DEF Resume, Serving
<1> QED
  BY <1>3, <1>4, TurnLists

\* A former leader is promoted.
LEMMA PromoteResyncLists ==
  ASSUME ConfigInv, ListInv, NEW c \in CP, PromoteResync(c)
  PROVE  ListInv'
<1>1. cp' = [cp EXCEPT ![c] = [cp[c] EXCEPT !.role = "leader", !.epoch = token + 1]]
  BY DEF PromoteResync
<1>2. Serving(c) /\ UNCHANGED <<left, top, coherent>> /\ UNCHANGED dpVars
  BY DEF PromoteResync, Serving
<1> QED
  BY <1>1, <1>2, TurnLists

\* A leader steps down.
LEMMA FenceLists ==
  ASSUME ConfigInv, ListInv, NEW c \in CP, Fence(c)
  PROVE  ListInv'
<1>1. cp' = [cp EXCEPT ![c] = [cp[c] EXCEPT !.role = "resync", !.epoch = 0]]
  BY DEF Fence
<1>2. Serving(c) /\ UNCHANGED <<left, top, coherent>> /\ UNCHANGED dpVars
  BY DEF Fence, Serving
<1> QED
  BY <1>1, <1>2, TurnLists

\* A process dies with its ring and its handlers.
LEMMA CrashLists ==
  ASSUME ConfigInv, ListInv, NEW c \in CP, Crash(c)
  PROVE  ListInv'
<1> DEFINE r == [Off EXCEPT !.ver = cp[c].ver, !.live = cp[c].live]
<1>1. Spend("crashes") /\ UNCHANGED <<top, coherent>> /\ UNCHANGED dpVars /\ cp' = [cp EXCEPT ![c] = r]
  BY DEF Crash
<1>2. left'.issues = left.issues /\ left'.faults = left.faults
  <2>1. left \in Scenario /\ left' = [left EXCEPT !["crashes"] = left["crashes"] - 1]
    BY <1>1, Standing DEF Spend
  <2> QED
    BY <2>1 DEF Scenario
<1>3. /\ r.ring = <<>> /\ r.pubs = {} /\ r.ver = cp[c].ver /\ r.role = "off"
      /\ r.snap.ver = 0 /\ r.rem.ver = 0
  BY DEF Off, NoSnap
<1> HIDE DEF r
<1>4. DOMAIN r.ring = {} /\ Len(r.ring) = 0
  BY <1>3
<1>5. Made(r) /\ Composes(r.ring) /\ Once(r)
  BY <1>3, <1>4 DEF Made, Ascends, Composes, Once
<1>6. \A v \in Issued : \A h : ~HasList(r, v, h)
  BY <1>3, <1>4 DEF HasList, Issued
<1>7. \A b : ~HasBase(r, b)
  BY <1>3, <1>4 DEF HasBase
<1>8. \A h : Covers(r, dp.ver, h)
  BY <1>3, <1>4 DEF Covers, Names
<1>9. coherent' \in BOOLEAN /\ (coherent' => coherent)
  BY <1>1, Zenon DEF ListInv
<1> QED
  BY <1>1, <1>2, <1>3, <1>5, <1>6, <1>7, <1>8, <1>9, QuietStep

\* A standby takes over the leader's snapshot.
LEMMA SyncLists ==
  ASSUME ConfigInv, ListInv, NEW c \in CP, NEW d \in CP, Sync(d, c)
  PROVE  ListInv'
<1> DEFINE s == cp[c].snap
<1> DEFINE n == Bigger(cp[d].repl, s.ver)
<1> DEFINE noted == [cp[d] EXCEPT !.repl = n]
<1> DEFINE m == Bigger(noted.seen, s.epoch)
<1> DEFINE taken == [noted EXCEPT !.seen = m, !.live = s.hosts, !.snap = s]
<1>1. /\ UNCHANGED <<left, top, coherent>> /\ UNCHANGED dpVars
      /\ cp' = [cp EXCEPT ![d] = noted] \/ cp' = [cp EXCEPT ![d] = taken]
  BY DEF Sync
<1>2. cp[d] \in ControlPlane /\ Made(cp[d])
  BY ControlKnown DEF ListInv
<1> HIDE DEF n, m, s
<1>3. /\ noted.pubs = cp[d].pubs /\ noted.ring = cp[d].ring /\ noted.ver = cp[d].ver
      /\ noted.snap = cp[d].snap /\ noted.rem = cp[d].rem /\ noted.role = cp[d].role
  BY <1>2 DEF ControlPlane
<1>4. /\ taken.pubs = cp[d].pubs /\ taken.ring = cp[d].ring /\ taken.ver = cp[d].ver
      /\ taken.snap = s /\ taken.rem = cp[d].rem /\ taken.role = cp[d].role
  BY <1>2 DEF ControlPlane
<1> HIDE DEF noted, taken
<1>5. Made(noted) /\ SameLists(noted, cp[d]) /\ Made(taken)
  BY <1>2, <1>3, <1>4 DEF Made, SameLists
<1>6. CASE cp' = [cp EXCEPT ![d] = noted]
  BY <1>1, <1>3, <1>5, <1>6, IdleStep
<1>7. CASE cp' = [cp EXCEPT ![d] = taken]
  <2>1. \A v, h : HasList(taken, v, h) => HasList(cp[d], v, h) \/ HasList(cp[c], v, h)
    BY <1>4 DEF HasList, s
  <2>2. \A v, h : HasList(taken, v, h) => Known(v, h)
    BY <2>1 DEF Known
  <2>3. \A b : HasBase(taken, b) => HasBase(cp[d], b)
    BY <1>4 DEF HasBase
  <2>4. Once(cp[d]) => Once(taken)
    BY <1>4 DEF Once
  <2>5. \A h : Covers(cp[d], dp.ver, h) => Covers(taken, dp.ver, h)
    BY <1>4 DEF Covers
  <2>6. coherent' \in BOOLEAN /\ (coherent' => coherent)
    BY <1>1, Zenon DEF ListInv
  <2>7. coherent' => Once(taken) /\ Composes(taken.ring)
    BY <1>4, <2>4, <2>6 DEF ListInv, CoherentInv, BasesApart
  <2> QED
    BY <1>1, <1>4, <1>5, <1>7, <2>2, <2>3, <2>5, <2>6, <2>7, QuietStep
<1> QED
  BY <1>1, <1>6, <1>7

\* The delta of two lists names what it changes.
LEMMA DeltaMade ==
  ASSUME NEW base \in Nat, NEW s, NEW new
  PROVE  /\ WellMade(DeltaOf(base, s, new)) /\ DeltaOf(base, s, new).base = base
         /\ DeltaOf(base, s, new).ver = base + 1 /\ DeltaOf(base, s, new).fp = new
<1> DEFINE add == IF s = NoSnap THEN {} ELSE new \ s.hosts
<1> DEFINE rem == IF s = NoSnap THEN {} ELSE s.hosts \ new
<1> DEFINE d == DeltaOf(base, s, new)
<1>1. /\ d.base = base /\ d.ver = base + 1 /\ d.fp = new /\ d.added = add /\ d.removed = rem
  BY DEF DeltaOf
<1>2. add \subseteq new /\ rem \cap new = {}
  OBVIOUS
<1> HIDE DEF d, add, rem
<1>3. WellMade(d)
  BY <1>1, <1>2 DEF WellMade
<1> QED
  BY <1>1, <1>3 DEF d

\* What a publish spends.
LEMMA IssueSpends ==
  ASSUME ConfigInv, NEW v, Issue(v)
  PROVE  /\ left.issues > 0 /\ left'.issues = left.issues - 1 /\ left'.faults = left.faults
         /\ top' = Bigger(top, v)
<1>1. left \in Scenario /\ left["issues"] > 0 /\ left' = [left EXCEPT !["issues"] = left["issues"] - 1]
  BY Standing DEF Issue, Spend
<1>2. left'.issues = left.issues - 1 /\ left'.faults = left.faults
  BY <1>1 DEF Scenario
<1> QED
  BY <1>1, <1>2 DEF Issue

\* No process holds a delta to a version that is new.
LEMMA FreshBase ==
  ASSUME ConfigInv, ListInv, coherent, NEW c \in CP, NEW v \in Issued, NextVersion(c, v),
         Issue(v), NEW r, cp' = [cp EXCEPT ![c] = r], r.ver = v
  PROVE  ~HasBase(cp[c], v - 1)
<1>1. \A h \in SUBSET Hosts : ~Known(v, h)
  BY IssueSpends, FreshVersion DEF ListInv
<1>2. SUFFICES ASSUME HasBase(cp[c], v - 1) PROVE FALSE
  OBVIOUS
<1>3. v - 1 \in Nat /\ (v - 1) + 1 = v
  BY NumberFacts DEF Issued
<1>4. PICK h \in SUBSET Hosts : HasList(cp[c], (v - 1) + 1, h)
  BY <1>2, <1>3, BaseKnown DEF ListInv
<1> QED
  BY <1>1, <1>3, <1>4 DEF Known

\* ConfigStore.Update under its lock.
LEMMA CommitLists ==
  ASSUME ConfigInv, ListInv, NEW c \in CP, Commit(c)
  PROVE  ListInv'
<1>1. PICK p \in cp[c].pubs :
        /\ p.at = "built" /\ Issue(cp[c].ver + 1) /\ UNCHANGED <<lease, saved, coherent, dpVars>>
        /\ cp' = [cp EXCEPT ![c].ver = cp[c].ver + 1,
                    ![c].snap = [ver |-> cp[c].ver + 1, epoch |-> p.epoch, hosts |-> p.hosts],
                    ![c].pubs = (@ \ {p}) \cup
                      {[at |-> "committed", delta |-> DeltaOf(cp[c].ver, cp[c].snap, p.hosts)]}]
  BY DEF Commit
<1> DEFINE v == cp[c].ver + 1
<1> DEFINE l == p.hosts
<1> DEFINE s == [ver |-> v, epoch |-> p.epoch, hosts |-> l]
<1> DEFINE d == DeltaOf(cp[c].ver, cp[c].snap, l)
<1> DEFINE b == [at |-> "committed", delta |-> d]
<1> DEFINE r == [cp[c] EXCEPT !.ver = v, !.snap = s, !.pubs = (cp[c].pubs \ {p}) \cup {b}]
<1>2. /\ cp[c] \in ControlPlane /\ cp[c].ver \in Nat /\ cp[c].ver <= top /\ Made(cp[c])
  BY ControlKnown DEF ListInv
<1>3. cp[c].ver > 0
  BY <1>1, <1>2 DEF Made
<1>4. v \in Nat /\ v <= top + MaxIssued + 1
  BY <1>2, Standing, NumberFacts
<1>5. v \in Issued /\ v - 1 = cp[c].ver /\ NextVersion(c, v)
  <2>1. v \in Version
    BY <1>1, <1>4, IssueFacts
  <2> QED
    BY <1>2, <1>3, <2>1 DEF Issued, NextVersion
<1>6. cp' = [cp EXCEPT ![c] = r]
  BY <1>1
<1>7. WellMade(d) /\ d.base = cp[c].ver /\ d.ver = v /\ d.fp = l
  BY <1>2, DeltaMade
<1>8. s.ver = v /\ s.hosts = l /\ b.at = "committed" /\ b.delta = d
  OBVIOUS
<1>i. Issue(v)
  BY <1>1
<1> HIDE DEF s, b, d, v, l
<1>9. /\ r.ver = v /\ r.snap = s /\ r.pubs = (cp[c].pubs \ {p}) \cup {b}
      /\ r.ring = cp[c].ring /\ r.rem = cp[c].rem
  BY <1>2 DEF ControlPlane
<1> HIDE DEF r
<1>10. Made(r)
  BY <1>2, <1>4, <1>5, <1>3, <1>7, <1>8, <1>9 DEF Made, v
<1>11. coherent' = coherent /\ coherent' \in BOOLEAN
  BY <1>1, Zenon DEF ListInv
<1>12. \A w, h : HasList(r, w, h) => HasList(cp[c], w, h) \/ (w = v /\ h = l)
  BY <1>7, <1>8, <1>9 DEF HasList
<1>13. \A w \in Issued, h \in SUBSET Hosts : HasList(r, w, h) => Known(w, h) \/ (w = v /\ h = l)
  BY <1>12 DEF Known
<1>14. \A x : HasBase(r, x) => HasBase(cp[c], x) \/ x = v - 1
  BY <1>5, <1>7, <1>8, <1>9 DEF HasBase
<1>15. ASSUME coherent PROVE Once(r) /\ Composes(r.ring)
  <2>1. Once(cp[c]) /\ Composes(cp[c].ring)
    BY <1>15 DEF ListInv, CoherentInv, BasesApart
  <2>2. ~HasBase(cp[c], v - 1)
    BY <1>5, <1>6, <1>9, <1>15, <1>i, FreshBase
  <2>3. /\ \A i \in DOMAIN cp[c].ring : cp[c].ring[i].base # d.base
        /\ \A q \in cp[c].pubs : q.at = "committed" => q.delta.base # d.base
    BY <1>5, <1>7, <2>2 DEF HasBase
  <2>4. Once(r)
    BY <1>8, <1>9, <2>1, <2>3 DEF Once
  <2> QED
    BY <1>9, <2>1, <2>4
<1>16. \A h : (v - 1 # dp.ver /\ Covers(cp[c], dp.ver, h)) => Covers(r, dp.ver, h)
  BY <1>5, <1>7, <1>8, <1>9 DEF Covers
<1>17. /\ left.issues > 0 /\ left'.issues = left.issues - 1 /\ left'.faults = left.faults
       /\ top' = Bigger(top, v) /\ UNCHANGED dpVars
  BY <1>1, <1>i, IssueSpends
<1>18. Publishes(c, r, v, l)
  BY <1>11, <1>13, <1>14, <1>15, <1>16 DEF Publishes
<1>19. (coherent' => coherent /\ Composes(r.ring)) /\ (coherent => NextVersion(c, v))
  BY <1>5, <1>11, <1>15
<1> QED
  BY <1>5, <1>6, <1>9, <1>10, <1>11, <1>17, <1>18, <1>19, IssueStep

\* ConfigStore.Update after its lock.
LEMMA RecordLists ==
  ASSUME ConfigInv, ListInv, NEW c \in CP, Record(c)
  PROVE  ListInv'
<1>1. PICK p \in cp[c].pubs :
        /\ p.at = "committed" /\ UNCHANGED <<lease, saved, left, top, dpVars>>
        /\ cp' = [cp EXCEPT ![c].ring = Recorded(@, p.delta), ![c].pubs = @ \ {p}]
        /\ Track(Recorded(cp[c].ring, p.delta))
  BY DEF Record
<1> DEFINE ring == Recorded(cp[c].ring, p.delta)
<1> DEFINE r == [cp[c] EXCEPT !.ring = ring, !.pubs = cp[c].pubs \ {p}]
<1>2. /\ cp[c] \in ControlPlane /\ cp[c].ring \in Seq(Delta) /\ Made(cp[c])
      /\ cp[c].pubs \in SUBSET (Built \cup Committed)
  BY ControlKnown DEF ListInv
<1>3. p.delta \in Delta /\ WellMade(p.delta)
  BY <1>1, <1>2 DEF Built, Committed, Made
<1>4. \A i \in DOMAIN ring : ring[i] = p.delta \/ \E j \in DOMAIN cp[c].ring : ring[i] = cp[c].ring[j]
  BY <1>2, <1>3, RecordedEntries
<1>5. Ascends(ring)
  BY <1>2, <1>3, RecordedAscends DEF Made
<1>6. \A v, h : p.delta.base # v /\ Names(cp[c].ring, v, h) => Names(ring, v, h)
  BY <1>2, <1>3, RecordedNames
<1>7. cp' = [cp EXCEPT ![c] = r]
  BY <1>1
<1>8. coherent' \in BOOLEAN /\ (coherent' => coherent /\ Composes(ring))
  BY <1>1 DEF Track
<1> HIDE DEF ring
<1>9. /\ r.ring = ring /\ r.pubs = cp[c].pubs \ {p} /\ r.ver = cp[c].ver /\ r.snap = cp[c].snap
      /\ r.rem = cp[c].rem /\ r.role = cp[c].role
  BY <1>2 DEF ControlPlane
<1> HIDE DEF r
<1>10. Made(r)
  BY <1>2, <1>5, <1>9 DEF Made
<1>11. \A v, h : HasList(r, v, h) => HasList(cp[c], v, h)
  BY <1>1, <1>4, <1>9 DEF HasList
<1>12. \A b : HasBase(r, b) => HasBase(cp[c], b)
  BY <1>1, <1>4, <1>9 DEF HasBase
<1>13. Once(cp[c]) => Once(r)
  BY <1>1, <1>4, <1>9 DEF Once
<1>14. \A h : Covers(cp[c], dp.ver, h) => Covers(r, dp.ver, h)
  BY <1>1, <1>6, <1>9 DEF Covers
<1>15. coherent' => Once(r)
  BY <1>8, <1>13 DEF ListInv, CoherentInv, BasesApart
<1>16. \A v \in Issued, h \in SUBSET Hosts : HasList(r, v, h) => Known(v, h)
  BY <1>11 DEF Known
<1> QED
  BY <1>1, <1>7, <1>8, <1>9, <1>10, <1>12, <1>14, <1>15, <1>16, QuietStep

\* enableControlPlane publishes above everything issued, unless a clock was set
\* back.
LEMMA EnabledLists ==
  ASSUME ConfigInv, ListInv, NEW c \in CP, NEW now \in Clock, NEW e, NEW to,
         Issue(Arm(c, now) + 1), UNCHANGED dpVars,
         cp' = [cp EXCEPT ![c] = [Enabled(c, now, e) EXCEPT !.role = to]],
         Track(Enabled(c, now, e).ring)
  PROVE  ListInv'
<1> DEFINE base == Arm(c, now)
<1> DEFINE v == base + 1
<1> DEFINE l == cp[c].live
<1> DEFINE s == [ver |-> v, epoch |-> e, hosts |-> l]
<1> DEFINE d == DeltaOf(base, cp[c].snap, l)
<1> DEFINE ring == Recorded(cp[c].ring, d)
<1> DEFINE q == [cp[c] EXCEPT !.ver = v, !.snap = s, !.ring = ring, !.epoch = e]
<1> DEFINE r == [q EXCEPT !.role = to]
<1>1. base \in Nat /\ v \in Nat /\ v <= top + MaxIssued + 1 /\ v - 1 = base
  BY ArmFacts
<1>2. v \in Version /\ base \in Version /\ v > 0 /\ v \in Issued
  <2>1. v \in Version
    BY <1>1, IssueFacts
  <2> QED
    BY <1>1, <2>1, NumberFacts DEF Issued
<1>3. /\ cp[c] \in ControlPlane /\ l \in SUBSET Hosts /\ cp[c].snap \in Snapshot
      /\ cp[c].ring \in Seq(Delta) /\ Made(cp[c]) /\ cp[c].ver \in Nat /\ cp[c].repl \in Nat
  BY ControlKnown DEF ListInv
<1>4. d \in Delta /\ WellMade(d) /\ d.base = base /\ d.ver = v /\ d.fp = l
  BY <1>1, <1>2, <1>3, DeltaType, DeltaMade
<1>5. s.ver = v /\ s.hosts = l
  OBVIOUS
<1>6. Enabled(c, now, e) = q
  BY DEF Enabled
<1>7. cp' = [cp EXCEPT ![c] = r] /\ Issue(v) /\ Track(q.ring)
  BY <1>6
<1>8. coherent => NextVersion(c, v)
  <2>1. ASSUME coherent PROVE v > top + left.issues
    <3>1. "clock" \notin left.faults
      BY <2>1 DEF ListInv, CoherentInv
    <3>2. now = top + MaxIssued
      BY <3>1 DEF Clock
    <3>3. /\ top \in Nat /\ left.issues \in Nat /\ left.issues <= MaxIssued /\ MaxIssued \in Nat
      BY Standing, NumberFacts
    <3>4. now <= base
      BY <1>3, <3>2, <3>3 DEF Arm, Bigger
    <3> HIDE DEF base
    <3> QED
      BY <1>1, <3>2, <3>3, <3>4
  <2> QED
    BY <2>1 DEF NextVersion
<1> HIDE DEF base, v, l, s, d
<1>9. \A i \in DOMAIN ring : ring[i] = d \/ \E j \in DOMAIN cp[c].ring : ring[i] = cp[c].ring[j]
  BY <1>3, <1>4, RecordedEntries
<1>10. Ascends(ring)
  BY <1>3, <1>4, RecordedAscends DEF Made
<1>11. \A w, h : d.base # w /\ Names(cp[c].ring, w, h) => Names(ring, w, h)
  BY <1>3, <1>4, RecordedNames
<1> HIDE DEF ring
<1>12. /\ r.ver = v /\ r.snap = s /\ r.ring = ring /\ r.pubs = cp[c].pubs /\ r.rem = cp[c].rem
       /\ q.ring = ring
  BY <1>3 DEF ControlPlane
<1> HIDE DEF r, q
<1>13. coherent' \in BOOLEAN /\ (coherent' => coherent /\ Composes(r.ring))
  BY <1>7, <1>12 DEF Track
<1>14. Made(r)
  BY <1>2, <1>3, <1>10, <1>12 DEF Made
<1>15. \A w, h : HasList(r, w, h) => HasList(cp[c], w, h) \/ (w = v /\ h = l)
  BY <1>4, <1>5, <1>9, <1>12 DEF HasList
<1>16. \A w \in Issued, h \in SUBSET Hosts : HasList(r, w, h) => Known(w, h) \/ (w = v /\ h = l)
  BY <1>15 DEF Known
<1>17. \A x : HasBase(r, x) => HasBase(cp[c], x) \/ x = v - 1
  BY <1>1, <1>4, <1>9, <1>12 DEF HasBase
<1>18. ASSUME coherent PROVE Once(r)
  <2>1. Once(cp[c])
    BY <1>18 DEF ListInv, CoherentInv, BasesApart
  <2>2. ~HasBase(cp[c], v - 1)
    BY <1>2, <1>7, <1>8, <1>12, <1>18, FreshBase
  <2>3. \A p \in cp[c].pubs : p.at = "committed" => p.delta.base # d.base
    BY <1>1, <1>4, <2>2 DEF HasBase
  <2> QED
    BY <1>9, <1>12, <2>1, <2>3 DEF Once
<1>19. \A h : (v - 1 # dp.ver /\ Covers(cp[c], dp.ver, h)) => Covers(r, dp.ver, h)
  BY <1>1, <1>4, <1>11, <1>12 DEF Covers
<1>20. /\ left.issues > 0 /\ left'.issues = left.issues - 1 /\ left'.faults = left.faults
       /\ top' = Bigger(top, v)
  BY <1>7, IssueSpends
<1>21. Publishes(c, r, v, l)
  BY <1>13, <1>16, <1>17, <1>18, <1>19 DEF Publishes
<1> QED
  BY <1>2, <1>7, <1>8, <1>12, <1>13, <1>14, <1>20, <1>21, IssueStep

\* A restart publishes as a saved leader, or waits as a standby.
LEMMA BootLists ==
  ASSUME ConfigInv, ListInv, NEW c \in CP, Boot(c)
  PROVE  ListInv'
<1>0. UNCHANGED dpVars
  BY DEF Boot
<1>1. CASE \E now \in Clock :
             /\ Issue(Arm(c, now) + 1)
             /\ cp' = [cp EXCEPT ![c] = [Enabled(c, now, 0) EXCEPT !.role = "boot"]]
             /\ Track(Enabled(c, now, 0).ring)
  BY <1>0, <1>1, EnabledLists
<1>2. CASE cp' = [cp EXCEPT ![c].role = "standby"] /\ UNCHANGED <<left, top, coherent>>
  <2>1. cp[c] \in ControlPlane
    BY ControlKnown
  <2>2. [cp[c] EXCEPT !.role = "standby"] = [cp[c] EXCEPT !.role = "standby", !.epoch = cp[c].epoch]
    BY <2>1 DEF ControlPlane
  <2>3. cp' = [cp EXCEPT ![c] = [cp[c] EXCEPT !.role = "standby", !.epoch = cp[c].epoch]]
    BY <1>2, <2>2
  <2> QED
    BY <1>0, <1>2, <2>3, TurnLists
<1> QED
  BY <1>1, <1>2 DEF Boot

\* A standby is promoted and publishes.
LEMMA PromoteStandbyLists ==
  ASSUME ConfigInv, ListInv, NEW c \in CP, PromoteStandby(c)
  PROVE  ListInv'
<1>1. PICK now \in Clock :
        /\ Issue(Arm(c, now) + 1)
        /\ cp' = [cp EXCEPT ![c] = [Enabled(c, now, token + 1) EXCEPT !.role = "leader"]]
        /\ Track(Enabled(c, now, token + 1).ring)
  BY DEF PromoteStandby
<1>2. UNCHANGED dpVars
  BY DEF PromoteStandby
<1> QED
  BY <1>1, <1>2, EnabledLists

-----------------------------------------------------------------------------
(* A step of the Data Plane, and the lists.                                *)

\* A process that serves as before, its remainder cache aside.
SameHeld(q, r) ==
  /\ q.ver = r.ver /\ q.ring = r.ring /\ q.pubs = r.pubs /\ q.role = r.role
  /\ q.snap = r.snap /\ (q.rem = r.rem \/ q.rem = r.snap)

\* What a step of the Data Plane must leave.
DataSound ==
  /\ \A v \in Issued, h \in SUBSET Hosts : PollHas(v, h)' => Known(v, h)
  /\ Clear(dp'.ver)
  /\ \A h \in Loose', c \in CP :
       Covers(cp[c], dp'.ver, h) /\ (cp[c].ver = dp'.ver => left.issues = 0)
  /\ ChainInv' /\ disk'.good.hosts = disk'.good.snap.hosts

\* The invariant from that.
LEMMA DataLists ==
  ASSUME ConfigInv, ListInv, top' = top, coherent' = coherent, left'.issues = left.issues,
         left'.faults = left.faults, \A d \in CP : SameHeld(cp'[d], cp[d]),
         ListTypeOK', coherent => DataSound
  PROVE  ListInv'
<1>1. ASSUME NEW d \in CP
      PROVE  /\ Made(cp'[d]) /\ cp'[d].ver = cp[d].ver
             /\ \A v, h : HasList(cp'[d], v, h) => HasList(cp[d], v, h)
             /\ \A b : HasBase(cp'[d], b) => HasBase(cp[d], b)
             /\ Once(cp[d]) => Once(cp'[d])
             /\ \A v, h : Covers(cp[d], v, h) => Covers(cp'[d], v, h)
             /\ Composes(cp[d].ring) => Composes(cp'[d].ring)
  <2>1. SameHeld(cp'[d], cp[d]) /\ Made(cp[d])
    BY DEF ListInv
  <2>2. Made(cp'[d])
    BY <2>1 DEF SameHeld, Made
  <2>3. \A v, h : HasList(cp'[d], v, h) => HasList(cp[d], v, h)
    BY <2>1 DEF SameHeld, HasList
  <2>4. \A b : HasBase(cp'[d], b) => HasBase(cp[d], b)
    BY <2>1 DEF SameHeld, HasBase
  <2>5. Once(cp[d]) => Once(cp'[d])
    BY <2>1 DEF SameHeld, Once
  <2>6. \A v, h : Covers(cp[d], v, h) => Covers(cp'[d], v, h)
    BY <2>1 DEF SameHeld, Covers
  <2> QED
    BY <2>1, <2>2, <2>3, <2>4, <2>5, <2>6 DEF SameHeld
<1>2. coherent' \in BOOLEAN
  BY Zenon DEF ListInv
<1>3. ASSUME coherent' PROVE CoherentInv'
  <2>0. CoherentInv /\ DataSound
    BY <1>3 DEF ListInv
  <2>1. ASSUME NEW v \in Issued, NEW h \in SUBSET Hosts, Known(v, h)' PROVE Known(v, h)
    <3>1. CASE PollHas(v, h)'
      BY <2>0, <3>1 DEF DataSound
    <3>2. CASE \E d \in CP : HasList(cp'[d], v, h)
      BY <1>1, <3>2 DEF Known
    <3> QED
      BY <2>1, <3>1, <3>2 DEF Known
  <2>2. \A v : Clear(v) => Clear(v)'
    BY <1>1 DEF Clear
  <2>3. ListsAgree'
    BY <2>0, <2>1 DEF CoherentInv, ListsAgree
  <2>4. AllClear'
    BY <2>0, <2>1, <2>2 DEF CoherentInv, AllClear, DataSound
  <2>5. Apart'
    BY <1>1, <2>0 DEF CoherentInv, Apart
  <2>6. BasesApart'
    BY <1>1, <2>0 DEF CoherentInv, BasesApart
  <2>7. LooseCovered'
    BY <1>1, <2>0 DEF DataSound, LooseCovered
  <2>8. "clock" \notin left'.faults /\ \A d \in CP : Composes(cp'[d].ring)
    BY <1>1, <2>0 DEF CoherentInv
  <2> QED
    BY <2>0, <2>3, <2>4, <2>5, <2>6, <2>7, <2>8 DEF CoherentInv, DataSound
<1> QED
  BY <1>1, <1>2, <1>3 DEF ListInv

\* A step that keeps the lists, the version and the last-good file, and whose
\* poll holds no new chain and no unknown snapshot.
LEMMA PollLists ==
  ASSUME ConfigInv, ListInv, top' = top, coherent' = coherent, left'.issues = left.issues,
         left'.faults = left.faults, \A d \in CP : SameHeld(cp'[d], cp[d]),
         dp'.hosts = dp.hosts, dp'.fp = dp.fp, dp'.ver = dp.ver, disk'.good = disk.good,
         poll'.chain = poll.chain \/ poll'.chain = <<>>,
         \/ poll'.snap = poll.snap \/ poll'.snap = NoSnap
         \/ \E c \in CP : poll'.snap = cp[c].snap \/ poll'.snap = cp[c].rem,
         Chaining' => /\ Chaining /\ poll'.chain = poll.chain /\ poll'.cur = poll.cur
                      /\ poll'.at = "delta" => poll'.snap.ver = poll.cur
  PROVE  ListInv'
<1>1. ListTypeOK'
  <2>1. poll.chain \in Seq(Delta) /\ <<>> \in Seq(Delta)
    BY DEF ListInv, ListTypeOK
  <2>2. poll'.chain \in Seq(Delta)
    BY <2>1
  <2> QED
    BY <2>2 DEF ListInv, ListTypeOK
<1>2. ASSUME coherent PROVE DataSound
  <2>0. CoherentInv
    BY <1>2 DEF ListInv
  <2>1. ASSUME NEW v \in Issued, NEW h \in SUBSET Hosts, PollHas(v, h)' PROVE Known(v, h)
    <3>1. CASE poll'.snap.ver = v /\ poll'.snap.hosts = h
      <4>1. v # 0 /\ NoSnap.ver = 0
        BY DEF Issued, NoSnap
      <4> QED
        BY <3>1, <4>1 DEF Known, PollHas, HasList
    <3>2. CASE disk'.good.snap.ver = v /\ disk'.good.snap.hosts = h
      BY <3>2 DEF Known, PollHas
    <3>3. CASE \E i \in DOMAIN poll'.chain : poll'.chain[i].ver = v /\ poll'.chain[i].fp = h
      BY <3>3 DEF Known, PollHas
    <3> QED
      BY <2>1, <3>1, <3>2, <3>3 DEF PollHas
  <2>2. Drift' = Drift
    BY DEF Drift
  <2>3. Loose' \subseteq Loose
    BY <2>2 DEF Loose
  <2>4. ChainInv'
    BY <2>0, <2>2 DEF CoherentInv, ChainInv, Chaining
  <2> QED
    BY <2>0, <2>1, <2>3, <2>4 DEF DataSound, CoherentInv, AllClear, LooseCovered
<1> QED
  BY <1>1, <1>2, DataLists

\* Control Planes left alone.
LEMMA HeldSame ==
  ASSUME cp' = cp
  PROVE  \A d \in CP : SameHeld(cp'[d], cp[d])
BY DEF SameHeld

\* A poll that ends or falls back holds nothing.
LEMMA PollEmpty ==
  ASSUME Done \/ FullNext
  PROVE  /\ poll'.chain = <<>> /\ poll'.chain \in Seq(Delta) /\ poll'.snap = NoSnap
         /\ ~Chaining'
<1>1. poll'.chain = <<>> /\ poll'.snap = NoSnap /\ poll'.at \in {"idle", "full"}
  BY DEF Done, FullNext, NoPoll
<1>2. <<>> \in Seq(Delta)
  OBVIOUS
<1>3. ~Chaining'
  BY <1>1 DEF Chaining
<1> QED
  BY <1>1, <1>2, <1>3

\* A step of the Data Plane that touches only its poll and its connection.
LEMMA ReconnectLists ==
  ASSUME ConfigInv, ListInv, Reconnect \/ CallFails
  PROVE  ListInv'
<1>0. UNCHANGED <<cp, left, top, coherent, disk>>
  BY DEF Reconnect, CallFails
<1>1. dp'.hosts = dp.hosts /\ dp'.fp = dp.fp /\ dp'.ver = dp.ver
  <2>1. dp' = dp \/ \E c \in CP : dp' = [dp EXCEPT !.conn = c]
    BY DEF Reconnect, CallFails
  <2> QED
    BY <2>1, AllFine DEF DPFine, IsDP
<1>2. CASE poll' = poll
  <2>1. Chaining' => Chaining /\ (poll'.at = "delta" => poll'.snap.ver = poll.cur)
    <3>1. poll.at \in {"idle", "full", "chain"}
      BY DEF Reconnect, CallFails
    <3> QED
      BY <1>2, <3>1 DEF Chaining
  <2> QED
    BY <1>0, <1>1, <1>2, <2>1, HeldSame, PollLists
<1>3. CASE Done \/ FullNext
  BY <1>0, <1>1, <1>3, HeldSame, PollEmpty, PollLists
<1> QED
  BY <1>2, <1>3 DEF Reconnect, CallFails

\* The heartbeat loop.
LEMMA BeatLists ==
  ASSUME ConfigInv, ListInv, Beat \/ BeatSave
  PROVE  ListInv'
<1>0. UNCHANGED <<cp, left, top, coherent, poll>>
  BY DEF Beat, BeatSave
<1>1. dp'.hosts = dp.hosts /\ dp'.fp = dp.fp /\ dp'.ver = dp.ver /\ disk'.good = disk.good
  BY AllFine DEF Beat, BeatSave, DPFine, IsDP, DiskFine
<1>2. ListTypeOK'
  BY <1>0, <1>1 DEF ListInv, ListTypeOK
<1>3. ASSUME coherent PROVE DataSound
  <2>0. CoherentInv
    BY <1>3 DEF ListInv
  <2>1. Drift' = Drift /\ Chaining' = Chaining
    BY <1>0, <1>1 DEF Drift, Chaining
  <2>2. Loose' = Loose
    BY <1>0, <2>1 DEF Loose
  <2>3. ChainInv'
    BY <1>0, <2>0, <2>1 DEF CoherentInv, ChainInv
  <2>4. \A v, h : PollHas(v, h)' => Known(v, h)
    BY <1>0, <1>1 DEF PollHas, Known
  <2> QED
    BY <1>1, <2>0, <2>2, <2>3, <2>4 DEF DataSound, CoherentInv, AllClear, LooseCovered
<1> QED
  BY <1>0, <1>2, <1>3, HeldSame, DataLists

\* The Data-Plane process dies with its poll.
LEMMA DPCrashLists ==
  ASSUME ConfigInv, ListInv, DPCrash
  PROVE  ListInv'
<1>0. UNCHANGED <<cp, top, coherent, disk>> /\ Spend("crashes") /\ Done
  BY DEF DPCrash
<1>1. dp'.hosts = dp.hosts /\ dp'.fp = dp.fp /\ dp'.ver = dp.ver
  BY AllFine DEF DPCrash, DPFine, IsDP
<1>2. left'.issues = left.issues /\ left'.faults = left.faults
  <2>1. left \in Scenario /\ left' = [left EXCEPT !["crashes"] = left["crashes"] - 1]
    BY <1>0, Standing DEF Spend
  <2> QED
    BY <2>1 DEF Scenario
<1> QED
  BY <1>0, <1>1, <1>2, HeldSame, PollEmpty, PollLists

\* GetConfig answers.
LEMMA FullReplyLists ==
  ASSUME ConfigInv, ListInv, FullReply
  PROVE  ListInv'
<1> DEFINE s == cp[dp.conn].snap
<1>0. UNCHANGED <<cp, left, top, coherent>> /\ dp.conn \in CP
  BY DataKnown DEF FullReply
<1>1. dp'.hosts = dp.hosts /\ dp'.fp = dp.fp /\ dp'.ver = dp.ver /\ disk'.good = disk.good
  <2>1. \/ dp' = dp /\ disk' = disk
        \/ /\ dp' = [dp EXCEPT !.seen = Bigger(dp.seen, s.epoch)]
           /\ disk' = [disk EXCEPT !.seen = Ratchet(s.epoch)]
    BY DEF FullReply
  <2> QED
    BY <2>1, AllFine DEF DPFine, IsDP, DiskFine
<1>2. Done \/ poll' = [poll EXCEPT !.at = "install", !.snap = s]
  BY DEF FullReply, Done
<1>3. CASE Done
  BY <1>0, <1>1, <1>3, HeldSame, PollEmpty, PollLists
<1>4. CASE poll' = [poll EXCEPT !.at = "install", !.snap = s]
  <2>1. poll'.chain = poll.chain /\ poll'.snap = s /\ poll'.at = "install"
    BY <1>4, AllFine DEF PollFine
  <2>2. ~Chaining'
    BY <2>1 DEF Chaining
  <2> QED
    BY <1>0, <1>1, <2>1, <2>2, HeldSame, PollLists
<1> QED
  BY <1>2, <1>3, <1>4

\* GetConfigDelta reads the remainder.
LEMMA DeltaRemainderLists ==
  ASSUME ConfigInv, ListInv, DeltaRemainder
  PROVE  ListInv'
<1> DEFINE c == dp.conn
<1>0. UNCHANGED <<left, top, coherent, dp, disk>> /\ c \in CP /\ poll.at = "chain"
  BY DataKnown DEF DeltaRemainder
<1>1. \A d \in CP : SameHeld(cp'[d], cp[d])
  <2>1. CASE cp' = cp
    BY <2>1, HeldSame
  <2>2. CASE cp' = [cp EXCEPT ![c].rem = cp[c].snap]
    <3> DEFINE r == [cp[c] EXCEPT !.rem = cp[c].snap]
    <3>1. cp[c] \in ControlPlane /\ cp \in [CP -> ControlPlane]
      BY <1>0, ControlKnown DEF ConfigInv, ControlTypeOK
    <3>2. SameHeld(r, cp[c])
      BY <3>1 DEF SameHeld, ControlPlane
    <3>3. cp' = [cp EXCEPT ![c] = r]
      BY <2>2
    <3> HIDE DEF r
    <3>4. cp'[c] = r /\ \A d \in CP : d # c => cp'[d] = cp[d]
      BY <1>0, <3>1, <3>3
    <3>5. \A d \in CP : SameHeld(cp[d], cp[d])
      BY DEF SameHeld
    <3> QED
      BY <3>2, <3>4, <3>5
  <2> QED
    BY <2>1, <2>2 DEF DeltaRemainder
<1>2. CASE FullNext
  BY <1>0, <1>1, <1>2, PollEmpty, PollLists
<1>3. ASSUME NEW s, s = cp[c].rem \/ s = cp[c].snap, s.ver = poll.cur,
             poll' = [poll EXCEPT !.at = "delta", !.snap = s]
      PROVE  ListInv'
  <2>1. poll'.chain = poll.chain /\ poll'.snap = s /\ poll'.at = "delta" /\ poll'.cur = poll.cur
    BY <1>3, AllFine DEF PollFine
  <2>2. Chaining
    BY <1>0 DEF Chaining
  <2> QED
    BY <1>0, <1>1, <1>3, <2>1, <2>2, PollLists
<1> QED
  BY <1>2, <1>3 DEF DeltaRemainder

\* What a served chain is made of.
LEMMA ChainServed ==
  ASSUME NEW ring \in Seq(Delta), ring # <<>>, Ascends(ring), NEW v \in Nat,
         ring[1].base <= v, v < Last(ring).ver
  PROVE  LET chain == ChainFrom(ring, v) IN
         /\ chain \in Seq(Delta) /\ chain # <<>> /\ Last(chain) = Last(ring)
         /\ \A i \in DOMAIN chain : WellMade(chain[i])
         /\ \A i \in DOMAIN chain : \E j \in DOMAIN ring : chain[i] = ring[j]
         /\ \E k \in DOMAIN ring : ring[k].base = v
         /\ Composes(ring) => Composes(chain)
         /\ \A h : Names(ring, v, h) <=> h \in Named(chain)
<1> DEFINE chain == ChainFrom(ring, v)
<1> DEFINE n == Len(ring)
<1>0. n \in Nat /\ n >= 1 /\ DOMAIN ring = 1..n /\ Last(ring) = ring[n]
  BY DEF Last
<1>1. PICK k \in 1..n :
        /\ ring[k].base = v /\ chain \in Seq(Delta) /\ Len(chain) = n - k + 1
        /\ \A i \in 1..(n - k + 1) : chain[i] = ring[k + i - 1]
  BY ChainShape
<1> HIDE DEF chain
<1>2. DOMAIN chain = 1..(n - k + 1) /\ k \in Nat /\ k <= n /\ 1 <= k
  BY <1>0, <1>1
<1>3. chain # <<>> /\ Last(chain) = Last(ring)
  <2>1. Len(chain) >= 1 /\ Last(chain) = chain[Len(chain)] /\ Len(chain) \in 1..(n - k + 1)
    BY <1>0, <1>1, <1>2 DEF Last
  <2>2. k + (n - k + 1) - 1 = n
    BY <1>0, <1>2
  <2>3. chain[Len(chain)] = ring[k + (n - k + 1) - 1]
    BY <1>1, <2>1
  <2> QED
    BY <1>0, <2>1, <2>2, <2>3
<1>4. ASSUME NEW i \in DOMAIN chain PROVE k + i - 1 \in DOMAIN ring /\ chain[i] = ring[k + i - 1]
  BY <1>0, <1>1, <1>2
<1>5. \A i \in DOMAIN chain : WellMade(chain[i])
  BY <1>4 DEF Ascends
<1>6. ASSUME Composes(ring) PROVE Composes(chain)
  <2>1. ASSUME NEW i \in 2..Len(chain)
        PROVE  chain[i].fp = (chain[i - 1].fp \ chain[i].removed) \cup chain[i].added
    <3>1. i \in DOMAIN chain /\ i - 1 \in DOMAIN chain /\ k + i - 1 \in 2..n
      BY <1>0, <1>1, <1>2
    <3>2. k + (i - 1) - 1 = (k + i - 1) - 1
      BY <1>2
    <3>3. chain[i] = ring[k + i - 1] /\ chain[i - 1] = ring[(k + i - 1) - 1]
      BY <1>4, <3>1, <3>2
    <3> QED
      BY <1>6, <3>1, <3>3 DEF Composes
  <2> QED
    BY <2>1 DEF Composes
<1>7. ASSUME NEW h PROVE Names(ring, v, h) <=> h \in Named(chain)
  <2>1. ASSUME Names(ring, v, h) PROVE h \in Named(chain)
    <3>1. PICK j \in DOMAIN ring : j >= k /\ h \in Touched(ring[j])
      BY <1>0, <1>1, <2>1 DEF Names
    <3>2. j - k + 1 \in DOMAIN chain /\ k + (j - k + 1) - 1 = j
      BY <1>0, <1>2, <3>1
    <3>3. chain[j - k + 1] = ring[j]
      BY <1>4, <3>2
    <3> QED
      BY <3>1, <3>2, <3>3 DEF Named
  <2>2. ASSUME h \in Named(chain) PROVE Names(ring, v, h)
    <3>1. PICK i \in DOMAIN chain : h \in Touched(chain[i])
      BY <2>2 DEF Named
    <3>2. k + i - 1 \in DOMAIN ring /\ h \in Touched(ring[k + i - 1]) /\ k + i - 1 >= k
      BY <1>2, <1>4, <3>1
    <3>3. ASSUME NEW j \in DOMAIN ring, ring[j].base = v PROVE j = k
      <4>1. ring[j].base = ring[1].base + (j - 1) /\ ring[k].base = ring[1].base + (k - 1)
        BY <1>0, <1>1 DEF Ascends
      <4>2. ring[1].base \in Nat
        <5>1. ring[1] \in Delta
          BY <1>0
        <5> QED
          BY <5>1, DeltaFields
      <4> QED
        BY <1>0, <1>1, <3>3, <4>1, <4>2
    <3> QED
      BY <3>2, <3>3 DEF Names
  <2> QED
    BY <2>1, <2>2
<1>8. \E j \in DOMAIN ring : ring[j].base = v
  BY <1>0, <1>1
<1>9. \A i \in DOMAIN chain : \E j \in DOMAIN ring : chain[i] = ring[j]
  BY <1>4
<1> QED
  BY <1>1, <1>3, <1>5, <1>6, <1>7, <1>8, <1>9 DEF chain

\* What GetConfigDelta may serve is an ascending ring that reaches past the
\* version asked for.
LEMMA ServedRing ==
  ASSUME ConfigInv, ListInv, NEW c \in CP, dp.ver # cp[c].ver,
         Chained(cp[c].ring, dp.ver, cp[c].ver)
  PROVE  /\ cp[c].ring \in Seq(Delta) /\ cp[c].ring # <<>> /\ Ascends(cp[c].ring)
         /\ dp.ver \in Nat /\ cp[c].ring[1].base <= dp.ver /\ dp.ver < Last(cp[c].ring).ver
         /\ Last(cp[c].ring).ver = cp[c].ver
<1>1. cp[c].ring \in Seq(Delta) /\ cp[c].ver \in Nat /\ dp.ver \in Nat
  BY ControlKnown, CounterFacts
<1>2. Ascends(cp[c].ring)
  BY DEF ListInv, Made
<1> QED
  BY <1>1, <1>2 DEF Chained

\* The hosts a served chain names: no other process will serve a chain from
\* that version, nor publish its next one.
LEMMA ServedCovers ==
  ASSUME ConfigInv, ListInv, CoherentInv, NEW c \in CP, dp.ver > 0, dp.ver # cp[c].ver,
         Chained(cp[c].ring, dp.ver, cp[c].ver),
         NEW h \in Named(ChainFrom(cp[c].ring, dp.ver)), NEW d \in CP
  PROVE  Covers(cp[d], dp.ver, h) /\ (cp[d].ver = dp.ver => left.issues = 0)
<1> DEFINE ring == cp[c].ring
<1>1. /\ ring \in Seq(Delta) /\ ring # <<>> /\ Ascends(ring) /\ dp.ver \in Nat
      /\ ring[1].base <= dp.ver /\ dp.ver < Last(ring).ver
  BY ServedRing
<1>2. PICK k \in DOMAIN ring : ring[k].base = dp.ver
  BY <1>1, ChainServed
<1>3. Names(ring, dp.ver, h)
  BY <1>1, ChainServed
<1>4. HasBase(cp[c], dp.ver) /\ dp.ver \in Version
  BY <1>2 DEF HasBase, ConfigInv, DataShape, DataTypeOK
<1>5. CASE d = c
  <2>1. \A p \in cp[c].pubs : p.at = "committed" => p.delta.base # dp.ver
    BY <1>2 DEF CoherentInv, BasesApart, Once
  <2> QED
    BY <1>3, <1>5, <2>1 DEF Covers
<1>6. CASE d # c
  <2>1. ~HasBase(cp[d], dp.ver)
    BY <1>4, <1>6 DEF CoherentInv, BasesApart
  <2>2. Covers(cp[d], dp.ver, h)
    BY <2>1 DEF HasBase, Covers, Names
  <2>3. PICK g \in SUBSET Hosts : HasList(cp[c], dp.ver + 1, g)
    BY <1>1, <1>4, BaseKnown DEF ListInv
  <2>4. dp.ver + 1 \in Issued
    BY <1>1, <1>4, BaseKnown DEF ListInv
  <2>5. Clear(dp.ver + 1)
    BY <2>3, <2>4 DEF CoherentInv, AllClear, Known
  <2>6. cp[d].ver = dp.ver => left.issues = 0
    <3>1. left.issues \in Nat /\ cp[d].ver \in Nat
      BY CounterFacts
    <3>2. cp[d].ver > 0 => dp.ver + 1 <= cp[d].ver \/ dp.ver + 1 > cp[d].ver + left.issues
      BY <2>5 DEF Clear
    <3> QED
      BY <1>1, <3>1, <3>2
  <2> QED
    BY <2>2, <2>6
<1> QED
  BY <1>5, <1>6

\* A poll begins.
LEMMA PollStartLists ==
  ASSUME ConfigInv, ListInv, PollStart
  PROVE  ListInv'
<1> DEFINE c == dp.conn
<1> DEFINE ring == cp[c].ring
<1> DEFINE chain == ChainFrom(ring, dp.ver)
<1>0. UNCHANGED <<cp, left, top, coherent, dp, disk>> /\ c \in CP /\ poll.at = "idle"
  BY DataKnown DEF PollStart
<1>1. CASE poll' = [poll EXCEPT !.at = "full"]
  <2>1. poll'.chain = poll.chain /\ poll'.snap = poll.snap /\ poll'.at = "full"
    BY <1>1, AllFine DEF PollFine
  <2>2. ~Chaining'
    BY <2>1 DEF Chaining
  <2> QED
    BY <1>0, <2>1, <2>2, HeldSame, PollLists
<1>2. CASE /\ dp.ver > 0 /\ dp.ver # cp[c].ver /\ Chained(ring, dp.ver, cp[c].ver)
           /\ poll' = [poll EXCEPT !.at = "chain", !.epoch = cp[c].epoch, !.cur = cp[c].ver,
                                   !.chain = chain]
  <2>1. /\ ring \in Seq(Delta) /\ ring # <<>> /\ Ascends(ring) /\ dp.ver \in Nat
        /\ ring[1].base <= dp.ver /\ dp.ver < Last(ring).ver /\ Last(ring).ver = cp[c].ver
    BY <1>0, <1>2, ServedRing
  <2>2. /\ chain \in Seq(Delta) /\ chain # <<>> /\ Last(chain) = Last(ring)
        /\ \A i \in DOMAIN chain : WellMade(chain[i])
        /\ \A i \in DOMAIN chain : \E j \in DOMAIN ring : chain[i] = ring[j]
        /\ Composes(ring) => Composes(chain)
        /\ \A h : Names(ring, dp.ver, h) => h \in Named(chain)
    BY <2>1, ChainServed
  <2>3. coherent => \A h \in Named(chain), d \in CP :
          Covers(cp[d], dp.ver, h) /\ (cp[d].ver = dp.ver => left.issues = 0)
    BY <1>0, <1>2, ServedCovers DEF ListInv
  <2> HIDE DEF chain
  <2>4. /\ poll'.at = "chain" /\ poll'.cur = cp[c].ver /\ poll'.chain = chain /\ poll'.snap = poll.snap
    BY <1>2, AllFine DEF PollFine
  <2>5. Drift' = Drift
    BY <1>0 DEF Drift
  <2>6. ListTypeOK'
    BY <1>0, <2>2, <2>4 DEF ListInv, ListTypeOK
  <2>7. ASSUME coherent PROVE DataSound
    <3>0. CoherentInv
      BY <2>7 DEF ListInv
    <3>1. ASSUME NEW v \in Issued, NEW h \in SUBSET Hosts, PollHas(v, h)' PROVE Known(v, h)
      <4>1. PollHas(v, h) \/ \E i \in DOMAIN chain : chain[i].ver = v /\ chain[i].fp = h
        BY <1>0, <2>4, <3>1 DEF PollHas
      <4>2. CASE \E i \in DOMAIN chain : chain[i].ver = v /\ chain[i].fp = h
        BY <1>0, <2>2, <4>2 DEF Known, HasList
      <4> QED
        BY <4>1, <4>2 DEF Known
    <3>2. ~Chaining /\ Loose = Drift
      BY <1>0 DEF Chaining, Loose
    <3>3. Drift \subseteq Named(chain)
      BY <1>0, <2>2, <3>0, <3>2 DEF CoherentInv, LooseCovered, Covers
    <3>4. Loose' \subseteq Named(chain)
      BY <2>4, <2>5, <3>3 DEF Loose
    <3>5. ChainInv'
      <4>1. Composes(chain)
        BY <1>0, <2>2, <3>0 DEF CoherentInv
      <4> QED
        BY <2>1, <2>2, <2>4, <2>5, <3>3, <4>1 DEF ChainInv
    <3> QED
      BY <1>0, <2>3, <2>7, <3>0, <3>1, <3>4, <3>5 DEF DataSound, CoherentInv, AllClear
  <2> QED
    BY <1>0, <2>6, <2>7, HeldSame, DataLists
<1> QED
  BY <1>1, <1>2 DEF PollStart, At

\* A version that no process has issued, or every process knows of, is clear.
LEMMA ClearFacts ==
  ASSUME ConfigInv, CoherentInv
  PROVE  /\ Clear(0)
         /\ \A v \in Version, h \in SUBSET Hosts : Known(v, h) => Clear(v)
<1>1. Clear(0)
  <2>1. top \in Nat /\ \A c \in CP : cp[c].ver \in Nat
    BY CounterFacts
  <2> QED
    BY <2>1 DEF Clear
<1>2. \A v \in Issued, h \in SUBSET Hosts : Known(v, h) => Clear(v)
  BY DEF CoherentInv, AllClear
<1> QED
  BY <1>1, <1>2 DEF Issued

\* A Data Plane whose list and fingerprint agree has nothing to settle.
LEMMA SettledSound ==
  ASSUME CoherentInv, dp'.hosts = dp'.fp, ~Chaining', Clear(dp'.ver),
         \A v \in Issued, h \in SUBSET Hosts : PollHas(v, h)' => Known(v, h),
         disk'.good.hosts = disk'.good.snap.hosts
  PROVE  DataSound
<1>1. Drift' = {}
  BY DEF Drift
<1>2. Loose' = {}
  BY <1>1 DEF Loose
<1>3. ChainInv'
  BY DEF ChainInv
<1> QED
  BY <1>2, <1>3 DEF DataSound

\* A poll that holds nothing knows what the last-good file does.
LEMMA EmptyKnows ==
  ASSUME Done \/ FullNext, NEW v \in Issued, NEW h, PollHas(v, h)'
  PROVE  disk'.good.snap.ver = v /\ disk'.good.snap.hosts = h
<1>1. poll'.chain = <<>> /\ poll'.snap.ver = 0 /\ v # 0
  BY PollEmpty DEF NoSnap, Issued
<1>2. DOMAIN poll'.chain = {}
  BY <1>1
<1> QED
  BY <1>1, <1>2 DEF PollHas

\* The lists a delta leaves, and those an apply keeps.
LEMMA MovedLists ==
  ASSUME NEW d, DPFine(d), NEW h, NEW f, NEW e, NEW s, NEW u, NEW v
  PROVE  /\ Moved(d, h, f, e).hosts = h /\ Moved(d, h, f, e).fp = f
         /\ Moved(d, h, f, e).ver = d.ver
         /\ [Moved(d, h, f, e) EXCEPT !.rest = Torn].hosts = h
         /\ [Moved(d, h, f, e) EXCEPT !.rest = Torn].fp = f
         /\ [Moved(d, h, f, e) EXCEPT !.rest = Torn].ver = d.ver
         /\ Applied(Moved(d, h, f, e), s, u, v).hosts = h
         /\ Applied(Moved(d, h, f, e), s, u, v).fp = f
         /\ Applied(Moved(d, h, f, e), s, u, v).ver = v
<1> DEFINE m == Moved(d, h, f, e)
<1>0. IsDP(d)
  BY DEF DPFine
<1>1. m.hosts = h /\ m.fp = f /\ m.ver = d.ver /\ IsDP(m)
  <2> DEFINE a == [d EXCEPT !.hosts = h]
  <2> DEFINE b == [a EXCEPT !.fp = f]
  <2>0. m = [b EXCEPT !.seen = e]
    BY DEF Moved
  <2>1. IsDP(a) /\ a.hosts = h /\ a.ver = d.ver
    BY <1>0 DEF IsDP
  <2> HIDE DEF a
  <2>2. IsDP(b) /\ b.hosts = h /\ b.fp = f /\ b.ver = d.ver
    BY <2>1 DEF IsDP
  <2> HIDE DEF b, m
  <2> QED
    BY <2>0, <2>2 DEF IsDP
<1> HIDE DEF m
<1>2. LET t == [m EXCEPT !.rest = Torn] IN t.hosts = h /\ t.fp = f /\ t.ver = d.ver
  BY <1>1 DEF IsDP
<1>3. LET t == Applied(m, s, u, v) IN t.hosts = h /\ t.fp = f /\ t.ver = v
  <2> DEFINE a == [m EXCEPT !.rest = s]
  <2> DEFINE b == [a EXCEPT !.under = u]
  <2>0. Applied(m, s, u, v) = [b EXCEPT !.ver = v]
    BY DEF Applied
  <2>1. IsDP(a) /\ a.hosts = h /\ a.fp = f
    BY <1>1 DEF IsDP
  <2> HIDE DEF a
  <2>2. IsDP(b) /\ b.hosts = h /\ b.fp = f
    BY <2>1 DEF IsDP
  <2> HIDE DEF b
  <2> QED
    BY <2>0, <2>2 DEF IsDP
<1> QED
  BY <1>1, <1>2, <1>3 DEF m

\* applyDeltaReply.
LEMMA ApplyDeltaLists ==
  ASSUME ConfigInv, ListInv, ApplyDelta
  PROVE  ListInv'
<1> DEFINE h == ApplyHosts(dp.hosts, poll.chain)
<1> DEFINE f == Toggle(dp.fp, poll.chain)
<1> DEFINE e == Bigger(dp.seen, poll.epoch)
<1> DEFINE k == Ratchet(poll.epoch)
<1> DEFINE moved == [dp EXCEPT !.hosts = h, !.fp = f, !.seen = e]
<1> DEFINE ratchet == [disk EXCEPT !.seen = k]
<1>0. UNCHANGED <<cp, left, top, coherent>> /\ poll.at = "delta"
  BY DEF ApplyDelta
<1>1. /\ poll.chain \in Seq(Delta) /\ dp.hosts \in SUBSET Hosts /\ dp.fp \in SUBSET Hosts
      /\ disk.good.hosts \subseteq Hosts
  BY DEF ListInv, ListTypeOK
<1>2. h \subseteq Hosts /\ f \subseteq Hosts
  BY <1>1, ChainTypes
<1>3. \/ Done /\ dp' = dp /\ disk' = disk
      \/ dp' = moved /\ disk' = ratchet /\ FullNext
      \/ dp' = [moved EXCEPT !.rest = Torn] /\ disk' = ratchet /\ FullNext
      \/ /\ f = Last(poll.chain).fp
         /\ dp' = [moved EXCEPT !.rest = poll.snap, !.under = poll.epoch, !.ver = poll.cur]
         /\ disk' = [ratchet EXCEPT !.good = [snap |-> poll.snap, hosts |-> moved.hosts]]
         /\ Done
  BY DEF ApplyDelta
<1> HIDE DEF h, f, e, k
<1>4. DPFine(dp) /\ DiskFine(disk) /\ PollFine(poll)
  BY AllFine
<1>5. moved = Moved(dp, h, f, e)
  BY DEF Moved
<1>6. /\ moved.hosts = h /\ moved.fp = f /\ moved.ver = dp.ver
      /\ [moved EXCEPT !.rest = Torn].hosts = h /\ [moved EXCEPT !.rest = Torn].fp = f
      /\ [moved EXCEPT !.rest = Torn].ver = dp.ver
  BY <1>4, <1>5, MovedLists
<1> DEFINE applied == [moved EXCEPT !.rest = poll.snap, !.under = poll.epoch, !.ver = poll.cur]
<1>7. applied.hosts = h /\ applied.fp = f /\ applied.ver = poll.cur
  <2>1. applied = Applied(Moved(dp, h, f, e), poll.snap, poll.epoch, poll.cur)
    BY <1>5 DEF Applied
  <2> HIDE DEF applied
  <2> QED
    BY <1>4, <2>1, MovedLists
<1>8. ratchet.good = disk.good
  BY <1>4 DEF DiskFine
<1>9. LET n == [ratchet EXCEPT !.good = [snap |-> poll.snap, hosts |-> moved.hosts]]
      IN n.good.snap = poll.snap /\ n.good.hosts = h
  BY <1>4, <1>6 DEF DiskFine
<1> HIDE DEF moved, ratchet
<1>10. CASE Done /\ dp' = dp /\ disk' = disk
  BY <1>0, <1>10, HeldSame, PollEmpty, PollLists
<1>11. CASE dp'.hosts = h /\ dp'.fp = f /\ dp'.ver = dp.ver /\ disk'.good = disk.good /\ FullNext
  <2>1. ListTypeOK'
    <3>1. poll'.chain \in Seq(Delta)
      BY <1>11, PollEmpty
    <3> QED
      BY <1>1, <1>2, <1>11, <3>1 DEF ListTypeOK
  <2>2. ASSUME coherent PROVE DataSound
    <3>0. CoherentInv
      BY <2>2 DEF ListInv
    <3>1. \A v \in Issued, g \in SUBSET Hosts : PollHas(v, g)' => Known(v, g)
      BY <1>11, EmptyKnows DEF Known, PollHas
    <3>2. Drift' \subseteq Drift \cup Named(poll.chain)
      <4>1. ASSUME NEW x \in Drift', x \notin Named(poll.chain) PROVE x \in Drift
        <5>1. (x \in h <=> x \in dp.hosts) /\ (x \in f <=> x \in dp.fp)
          BY <1>1, <4>1, ChainLeaves DEF h, f
        <5>2. Drift' = (h \ f) \cup (f \ h)
          BY <1>11 DEF Drift
        <5> QED
          BY <4>1, <5>1, <5>2 DEF Drift
      <4> QED
        BY <4>1
    <3>3. ~Chaining' /\ Chaining
      BY <1>0, <1>11, PollEmpty DEF Chaining
    <3>4. Loose' \subseteq Loose
      BY <3>2, <3>3 DEF Loose
    <3>5. ChainInv'
      BY <3>3 DEF ChainInv
    <3> QED
      BY <1>11, <3>0, <3>1, <3>4, <3>5 DEF DataSound, CoherentInv, AllClear, LooseCovered
  <2> QED
    BY <1>0, <2>1, <2>2, HeldSame, DataLists
<1>12. CASE /\ f = Last(poll.chain).fp /\ dp'.hosts = h /\ dp'.fp = f /\ dp'.ver = poll.cur
            /\ disk'.good.snap = poll.snap /\ disk'.good.hosts = h /\ Done
  <2>1. ListTypeOK'
    <3>1. poll'.chain \in Seq(Delta)
      BY <1>12, PollEmpty
    <3> QED
      BY <1>2, <1>12, <3>1 DEF ListTypeOK
  <2>2. ASSUME coherent PROVE DataSound
    <3>0. CoherentInv
      BY <2>2 DEF ListInv
    <3> DEFINE last == Last(poll.chain)
    <3>1. /\ poll.chain # <<>> /\ last.ver = poll.cur /\ poll.snap.ver = poll.cur
          /\ \A i \in DOMAIN poll.chain : WellMade(poll.chain[i])
          /\ Composes(poll.chain) /\ Drift \subseteq Named(poll.chain)
      BY <1>0, <3>0 DEF CoherentInv, ChainInv, Chaining
    <3>2. h = last.fp
      <4>1. (dp.hosts \ dp.fp) \cup (dp.fp \ dp.hosts) \subseteq Named(poll.chain)
        BY <3>1 DEF Drift
      <4>2. Toggle(dp.fp, poll.chain) = last.fp
        BY <1>12 DEF f
      <4> QED
        BY <1>1, <3>1, <4>1, <4>2, ChainVerified DEF h
    <3>3. PICK i \in DOMAIN poll.chain : last = poll.chain[i]
      <4>1. Len(poll.chain) \in DOMAIN poll.chain
        BY <1>1, <3>1
      <4> QED
        BY <4>1 DEF Last
    <3>4. last \in Delta /\ last.ver \in Issued /\ last.fp \in SUBSET Hosts
      <4>1. last \in Delta /\ last.ver = last.base + 1
        BY <1>1, <3>1, <3>3 DEF WellMade
      <4> QED
        BY <4>1, DeltaFields DEF Issued
    <3>5. Known(poll.cur, last.fp) /\ Known(poll.cur, poll.snap.hosts)
      BY <3>1, <3>3 DEF Known, PollHas
    <3>6. poll.snap.hosts \in SUBSET Hosts
      BY <1>4, SnapFacts DEF PollFine
    <3>7. last.fp = poll.snap.hosts
      BY <3>0, <3>1, <3>4, <3>5, <3>6 DEF CoherentInv, ListsAgree
    <3>8. Clear(poll.cur)
      BY <3>0, <3>1, <3>4, <3>5 DEF CoherentInv, AllClear
    <3>9. \A v \in Issued, g \in SUBSET Hosts : PollHas(v, g)' => Known(v, g)
      BY <1>12, EmptyKnows DEF Known, PollHas
    <3>10. ~Chaining' /\ dp'.hosts = dp'.fp /\ disk'.good.hosts = disk'.good.snap.hosts
      BY <1>12, <3>2, <3>7, PollEmpty
    <3> QED
      BY <1>12, <3>0, <3>8, <3>9, <3>10, SettledSound
  <2> QED
    BY <1>0, <2>1, <2>2, HeldSame, DataLists
<1> QED
  BY <1>3, <1>6, <1>7, <1>8, <1>9, <1>10, <1>11, <1>12

\* applyConfigSnapshot.
LEMMA ApplySnapshotLists ==
  ASSUME ConfigInv, ListInv, ApplySnapshot
  PROVE  ListInv'
<1> DEFINE s == poll.snap
<1>0. UNCHANGED <<cp, left, top, coherent>> /\ Done
  BY DEF ApplySnapshot
<1>1. DPFine(dp) /\ DiskFine(disk) /\ s.ver \in Version /\ s.hosts \in SUBSET Hosts
  BY AllFine, SnapFacts DEF PollFine
<1>2. CASE dp' = [dp EXCEPT !.rest = Torn] /\ disk' = disk
  <2>1. dp'.hosts = dp.hosts /\ dp'.fp = dp.fp /\ dp'.ver = dp.ver
    BY <1>1, <1>2 DEF DPFine, IsDP
  <2> QED
    BY <1>0, <1>2, <2>1, HeldSame, PollEmpty, PollLists
<1>3. CASE /\ dp' = [dp EXCEPT !.hosts = s.hosts, !.fp = s.hosts, !.rest = s,
                               !.under = s.epoch, !.ver = s.ver]
           /\ disk' = [disk EXCEPT !.good = [snap |-> s, hosts |-> s.hosts]]
  <2>1. /\ dp'.hosts = s.hosts /\ dp'.fp = s.hosts /\ dp'.ver = s.ver
        /\ disk'.good.snap = s /\ disk'.good.hosts = s.hosts
    BY <1>1, <1>3 DEF DPFine, IsDP, DiskFine
  <2>2. ListTypeOK'
    <3>1. poll'.chain \in Seq(Delta)
      BY <1>0, PollEmpty
    <3> QED
      BY <1>1, <2>1, <3>1 DEF ListTypeOK
  <2>3. ASSUME coherent PROVE DataSound
    <3>0. CoherentInv
      BY <2>3 DEF ListInv
    <3>1. Clear(s.ver)
      BY <1>1, <3>0, ClearFacts DEF Known, PollHas
    <3>2. \A v \in Issued, g \in SUBSET Hosts : PollHas(v, g)' => Known(v, g)
      BY <1>0, <2>1, EmptyKnows DEF Known, PollHas
    <3> QED
      BY <1>0, <2>1, <3>0, <3>1, <3>2, PollEmpty, SettledSound
  <2> QED
    BY <1>0, <2>2, <2>3, HeldSame, DataLists
<1> QED
  BY <1>2, <1>3 DEF ApplySnapshot

\* startDataPlane.
LEMMA DPBootLists ==
  ASSUME ConfigInv, ListInv, DPBoot
  PROVE  ListInv'
<1> DEFINE s == disk.good.snap
<1> DEFINE h == disk.good.hosts
<1> DEFINE fresh == [dp EXCEPT !.up = TRUE, !.ver = 0, !.seen = disk.seen, !.hosts = {},
                               !.fp = {}, !.rest = NoSnap, !.under = 0]
<1> DEFINE e == Bigger(fresh.seen, s.epoch)
<1> DEFINE booted == [fresh EXCEPT !.ver = s.ver, !.hosts = h, !.fp = h, !.rest = s,
                        !.seen = e, !.under = s.epoch]
<1>0. UNCHANGED <<cp, left, top, coherent, poll>> /\ ~dp.up
  BY DEF DPBoot
<1>1. DPFine(dp) /\ DiskFine(disk) /\ s.ver \in Version /\ s.hosts \in SUBSET Hosts
      /\ h \subseteq Hosts /\ poll.chain \in Seq(Delta)
  BY AllFine, SnapFacts DEF DiskFine, ListInv, ListTypeOK
<1>2. IsDP(fresh) /\ fresh.hosts = {} /\ fresh.fp = {} /\ fresh.ver = 0
  <2> DEFINE a == Started(dp)
  <2> DEFINE b == Applied(a, NoSnap, 0, 0)
  <2>1. fresh = Moved(b, {}, {}, disk.seen)
    BY DEF Moved, Applied, Started
  <2>2. IsDP(a)
    BY <1>1, StartedFine DEF DPFine
  <2> HIDE DEF a, fresh
  <2>3. IsDP(b) /\ b.ver = 0
    <3> DEFINE x == [a EXCEPT !.rest = NoSnap]
    <3> DEFINE y == [x EXCEPT !.under = 0]
    <3>1. b = [y EXCEPT !.ver = 0]
      BY DEF Applied
    <3>2. IsDP(x)
      BY <2>2 DEF IsDP
    <3> HIDE DEF x
    <3>3. IsDP(y)
      BY <3>2 DEF IsDP
    <3> HIDE DEF y, b
    <3> QED
      BY <3>1, <3>3 DEF IsDP
  <2> HIDE DEF b
  <2> DEFINE x == [b EXCEPT !.hosts = {}]
  <2> DEFINE y == [x EXCEPT !.fp = {}]
  <2>4. fresh = [y EXCEPT !.seen = disk.seen]
    BY <2>1 DEF Moved
  <2>5. IsDP(x) /\ x.hosts = {} /\ x.ver = 0
    BY <2>3 DEF IsDP
  <2> HIDE DEF x
  <2>6. IsDP(y) /\ y.hosts = {} /\ y.fp = {} /\ y.ver = 0
    BY <2>5 DEF IsDP
  <2> HIDE DEF y
  <2> QED
    BY <2>4, <2>6 DEF IsDP
<1>3. \/ dp' = fresh /\ disk' = disk
      \/ dp' = [fresh EXCEPT !.rest = Torn] /\ disk' = disk
      \/ dp' = booted /\ disk' = [disk EXCEPT !.seen = Bigger(disk.seen, s.epoch)]
  BY DEF DPBoot
<1> HIDE DEF fresh, s, h, e
<1>4. LET t == [fresh EXCEPT !.rest = Torn] IN t.hosts = {} /\ t.fp = {} /\ t.ver = 0
  BY <1>2 DEF IsDP
<1>5. booted.hosts = h /\ booted.fp = h /\ booted.ver = s.ver
  BY <1>2 DEF IsDP
<1> HIDE DEF booted
<1>6. /\ disk'.good = disk.good
      /\ \/ dp'.hosts = {} /\ dp'.fp = {} /\ dp'.ver = 0
         \/ dp'.hosts = h /\ dp'.fp = h /\ dp'.ver = s.ver
  BY <1>1, <1>2, <1>3, <1>4, <1>5 DEF DiskFine
<1>7. ListTypeOK'
  BY <1>0, <1>1, <1>6 DEF ListTypeOK, h
<1>8. ASSUME coherent PROVE DataSound
  <2>0. CoherentInv
    BY <1>8 DEF ListInv
  <2>1. poll'.at = "idle"
    BY <1>0, PollerUp
  <2>2. Clear(0) /\ Clear(s.ver)
    BY <1>1, <2>0, ClearFacts DEF Known, PollHas, s
  <2>3. \A v \in Issued, g \in SUBSET Hosts : PollHas(v, g)' => Known(v, g)
    BY <1>0, <1>6 DEF Known, PollHas
  <2>4. ~Chaining'
    BY <2>1 DEF Chaining
  <2>5. disk'.good.hosts = disk'.good.snap.hosts
    BY <1>6, <2>0 DEF CoherentInv
  <2> QED
    BY <1>6, <2>0, <2>2, <2>3, <2>4, <2>5, SettledSound
<1> QED
  BY <1>0, <1>7, <1>8, HeldSame, DataLists

\* A step that moves none of it.
LEMMA NothingMoves ==
  ASSUME ConfigInv, ListInv, UNCHANGED <<cp, left, top, coherent, dp, poll, disk>>
  PROVE  ListInv'
<1>1. dp' = dp /\ poll' = poll /\ disk' = disk /\ cp' = cp /\ left' = left /\ top' = top
  OBVIOUS
<1>2. ListTypeOK'
  BY <1>1 DEF ListInv, ListTypeOK
<1>3. ASSUME coherent PROVE DataSound
  <2>0. CoherentInv
    BY <1>3 DEF ListInv
  <2>1. Drift' = Drift /\ Chaining' = Chaining
    BY <1>1 DEF Drift, Chaining
  <2>2. Loose' = Loose
    BY <1>1, <2>1 DEF Loose
  <2>3. ChainInv'
    BY <1>1, <2>0, <2>1 DEF CoherentInv, ChainInv
  <2>4. \A v, h : PollHas(v, h)' => Known(v, h)
    BY <1>1 DEF PollHas, Known
  <2> QED
    BY <1>1, <2>0, <2>2, <2>3, <2>4 DEF DataSound, CoherentInv, AllClear, LooseCovered
<1> QED
  BY <1>1, <1>2, <1>3, HeldSame, DataLists

-----------------------------------------------------------------------------
(* The theorems about the lists.                                           *)

\* Before any process has started there is no list to disagree about.
LEMMA ListInit ==
  ASSUME Init
  PROVE  ListInv
<1>1. /\ cp = [c \in CP |-> Off] /\ top = 0 /\ coherent = ("clock" \notin left.faults)
      /\ dp.hosts = {} /\ dp.fp = {} /\ dp.ver = 0
      /\ poll.at = "idle" /\ poll.chain = <<>> /\ poll.snap = NoSnap
      /\ disk.good.snap = NoSnap /\ disk.good.hosts = {}
  BY DEF Init, NoPoll
<1>2. ASSUME NEW c \in CP
      PROVE  /\ cp[c].ring = <<>> /\ cp[c].pubs = {} /\ cp[c].ver = 0 /\ cp[c].role = "off"
             /\ cp[c].snap.ver = 0 /\ cp[c].rem.ver = 0
  BY <1>1 DEF Off, NoSnap
<1>3. NoSnap.ver = 0 /\ NoSnap.hosts = {} /\ DOMAIN <<>> = {} /\ Len(<<>>) = 0
  BY DEF NoSnap
<1>4. ListTypeOK
  <2>1. <<>> \in Seq(Delta)
    OBVIOUS
  <2> QED
    BY <1>1, <2>1 DEF ListTypeOK
<1>5. coherent \in BOOLEAN
  BY <1>1
<1>6. \A c \in CP : Made(cp[c])
  BY <1>2, <1>3 DEF Made, Ascends
<1>7. ASSUME coherent PROVE CoherentInv
  <2>1. "clock" \notin left.faults
    BY <1>1, <1>7
  <2>2. \A c \in CP : Composes(cp[c].ring)
    BY <1>2, <1>3 DEF Composes
  <2>3. \A v \in Issued : \A h : ~Known(v, h)
    BY <1>1, <1>2, <1>3 DEF Known, PollHas, HasList, Issued
  <2>4. ListsAgree
    BY <2>3 DEF ListsAgree
  <2>5. Clear(0)
    BY <1>1, <1>2 DEF Clear
  <2>6. AllClear
    BY <1>1, <2>3, <2>5 DEF AllClear
  <2>7. Apart
    BY <1>2 DEF Apart
  <2>8. BasesApart
    BY <1>2, <1>3 DEF BasesApart, Once, HasBase
  <2>9. ~Chaining /\ Drift = {}
    BY <1>1 DEF Chaining, Drift
  <2>10. LooseCovered /\ ChainInv
    BY <2>9 DEF LooseCovered, Loose, ChainInv
  <2> QED
    BY <1>1, <1>3, <2>1, <2>2, <2>4, <2>6, <2>7, <2>8, <2>10 DEF CoherentInv
<1> QED
  BY <1>4, <1>5, <1>6, <1>7 DEF ListInv

\* Every step preserves the invariant of the lists.
LEMMA ListNext ==
  ASSUME ConfigInv, ListInv, [Next]_vars
  PROVE  ListInv'
<1>1. CASE UNCHANGED vars \/ Expire
  <2>1. UNCHANGED <<cp, left, top, coherent, dp, poll, disk>>
    BY <1>1 DEF vars, Expire, dpVars
  <2> QED
    BY <2>1, NothingMoves
<1>2. ASSUME NEW c \in CP,
             \/ Build(c) \/ Commit(c) \/ Record(c) \/ Boot(c) \/ Resume(c)
             \/ PromoteStandby(c) \/ PromoteResync(c) \/ Fence(c) \/ Crash(c)
             \/ \E d \in CP \ {c} : Sync(d, c)
      PROVE  ListInv'
  BY <1>2, BuildLists, CommitLists, RecordLists, BootLists, ResumeLists, PromoteStandbyLists,
     PromoteResyncLists, FenceLists, CrashLists, SyncLists
<1>3. CASE PollStart \/ DeltaRemainder \/ FullReply \/ CallFails \/ Reconnect
  BY <1>3, PollStartLists, DeltaRemainderLists, FullReplyLists, ReconnectLists
<1>4. CASE ApplyDelta \/ ApplySnapshot \/ Beat \/ BeatSave \/ DPCrash \/ DPBoot
  BY <1>4, ApplyDeltaLists, ApplySnapshotLists, BeatLists, DPCrashLists, DPBootLists
<1> QED
  BY <1>1, <1>2, <1>3, <1>4 DEF Next

\* The invariant of the lists holds throughout.
LEMMA ListInvariant == Spec => []ListInv
<1>1. Init => ListInv
  BY ListInit
<1>2. ConfigInv /\ ListInv /\ [Next]_vars => ListInv'
  BY ListNext
<1> QED
  BY <1>1, <1>2, ConfigInvariant, PTL DEF Spec

\* Every record keeps its types and bounds: the delta ring never grows past
\* maxDeltaRingEntries, whatever order publishes enter it in, versions stay
\* within what the publishes of the scenario can reach, seeds included, and what
\* a chain of deltas leaves of a blocklist and its fingerprint is a blocklist and
\* a fingerprint.
THEOREM ConfigTypeCorrect == Spec => []TypeOK
<1>1. ConfigInv /\ ListInv => TypeOK
  BY DEF ConfigInv, DataShape, ListInv, TypeOK
<1> QED
  BY <1>1, ConfigInvariant, ListInvariant, PTL

\* While the rings are coherent the last-good file holds one snapshot, its rest
\* and its blocklist, whatever deltas failed half-way before it was written:
\* for any number of Control Planes, publishes, handlers and lost calls.
THEOREM LastGoodStaysWhole == Spec => []LastGoodWhole
<1>1. ListInv => LastGoodWhole
  BY DEF ListInv, CoherentInv, LastGoodWhole
<1> QED
  BY <1>1, ListInvariant, PTL

\* While the rings are coherent, every chain the Data Plane may be served names
\* the hosts on which its list and its fingerprint disagree.
THEOREM DriftStaysCovered == Spec => []DriftCovered
<1>1. ConfigInv /\ ListInv => DriftCovered
  <2>1. SUFFICES ASSUME ConfigInv, ListInv, coherent, NEW c \in CP, dp.ver \notin {0, cp[c].ver},
                        Chained(cp[c].ring, dp.ver, cp[c].ver), NEW h \in Drift
                 PROVE  h \in Named(ChainFrom(cp[c].ring, dp.ver))
    BY DEF DriftCovered
  <2>2. Names(cp[c].ring, dp.ver, h)
    BY <2>1 DEF ListInv, CoherentInv, LooseCovered, Loose, Covers
  <2>3. /\ cp[c].ring \in Seq(Delta) /\ cp[c].ring # <<>> /\ Ascends(cp[c].ring) /\ dp.ver \in Nat
        /\ cp[c].ring[1].base <= dp.ver /\ dp.ver < Last(cp[c].ring).ver
    BY <2>1, ServedRing
  <2> QED
    BY <2>2, <2>3, ChainServed
<1> QED
  BY <1>1, ConfigInvariant, ListInvariant, PTL

-----------------------------------------------------------------------------
(* How coherence is lost.                                                  *)

\* Process r holds the delta d.
Holds(r, d) ==
  \/ \E i \in DOMAIN r.ring : r.ring[i] = d
  \/ \E p \in r.pubs : p.at = "committed" /\ p.delta = d

\* A process whose deltas were taken from the lists it published itself.
OwnLists(r) ==
  /\ r.role \in {"off", "standby"} => r.ring = <<>> /\ r.pubs = {}
  /\ r.role \notin {"off", "standby"} => r.snap.ver = r.ver
  /\ \A d : Holds(r, d) => d.ver <= r.ver /\ (d.ver = r.ver => d.fp = r.snap.hosts)
  /\ \A d, e : (Holds(r, d) /\ Holds(r, e) /\ e.base = d.ver)
                 => e.fp = (d.fp \ e.removed) \cup e.added

\* A former leader that is resynchronising imports its successor's snapshot.
FormerLeaderImports == \E c, d \in CP : cp[d].role = "resync" /\ Sync(d, c)

\* The rings are coherent unless a clock may have been set back.
RingsCoherent == coherent = ("clock" \notin left.faults)
OwnInv == RingsCoherent /\ \A c \in CP : OwnLists(cp[c])

\* The deltas a process holds have their types.
LEMMA HeldDelta ==
  ASSUME ConfigInv, ListInv, NEW c \in CP, NEW d, Holds(cp[c], d)
  PROVE  d \in Delta /\ WellMade(d)
<1>1. /\ cp[c].ring \in Seq(Delta) /\ cp[c].pubs \in SUBSET (Built \cup Committed) /\ Made(cp[c])
  BY ControlKnown DEF ListInv
<1>2. CASE \E i \in DOMAIN cp[c].ring : cp[c].ring[i] = d
  BY <1>1, <1>2 DEF Made, Ascends
<1>3. CASE \E p \in cp[c].pubs : p.at = "committed" /\ p.delta = d
  <2>1. PICK p \in cp[c].pubs : p.at = "committed" /\ p.delta = d
    BY <1>3
  <2> QED
    BY <1>1, <2>1 DEF Built, Committed, Made
<1> QED
  BY <1>2, <1>3 DEF Holds

\* A ring of such deltas composes.
LEMMA OwnComposes ==
  ASSUME NEW ring \in Seq(Delta), Ascends(ring),
         \A i, j \in DOMAIN ring : ring[j].base = ring[i].ver
           => ring[j].fp = (ring[i].fp \ ring[j].removed) \cup ring[j].added
  PROVE  Composes(ring)
<1>1. ASSUME NEW i \in 2..Len(ring)
      PROVE  ring[i].fp = (ring[i - 1].fp \ ring[i].removed) \cup ring[i].added
  <2>1. i \in DOMAIN ring /\ i - 1 \in DOMAIN ring /\ 1 \in DOMAIN ring
    OBVIOUS
  <2>2. /\ ring[i].base = ring[1].base + (i - 1) /\ ring[i - 1].base = ring[1].base + ((i - 1) - 1)
        /\ ring[i - 1].ver = ring[i - 1].base + 1
    BY <2>1 DEF Ascends, WellMade
  <2>3. ring[1].base \in Nat
    BY <2>1, DeltaFields
  <2>4. (ring[1].base + ((i - 1) - 1)) + 1 = ring[1].base + (i - 1)
    BY <2>3
  <2> QED
    BY <2>1, <2>2, <2>4
<1> QED
  BY <1>1 DEF Composes

\* A step of one process that leaves its lists its own, and the rest alone.
LEMMA OwnStep ==
  ASSUME ConfigInv, OwnInv, NEW c \in CP, NEW r, cp' = [cp EXCEPT ![c] = r], OwnLists(r),
         left'.faults = left.faults, coherent' = coherent
  PROVE  OwnInv'
<1>1. cp'[c] = r /\ \A d \in CP : d # c => cp'[d] = cp[d]
  BY DEF ConfigInv, ControlTypeOK
<1>2. \A d \in CP : OwnLists(cp'[d])
  BY <1>1 DEF OwnInv
<1>3. RingsCoherent'
  BY DEF OwnInv, RingsCoherent
<1> QED
  BY <1>2, <1>3 DEF OwnInv

\* Nothing of the lists changes.
LEMMA OwnSame ==
  ASSUME NEW q, NEW r, OwnLists(r), q.ring = r.ring, q.snap = r.snap, q.ver = r.ver,
         \A p : p.at = "committed" => (p \in q.pubs <=> p \in r.pubs),
         q.role \notin {"off", "standby"} /\ r.role \notin {"off", "standby"}
  PROVE  OwnLists(q)
<1>1. \A d : Holds(q, d) <=> Holds(r, d)
  BY DEF Holds
<1> QED
  BY <1>1 DEF OwnLists

\* A handler builds, or a serving process changes its role or its cache.
LEMMA OwnTurns ==
  ASSUME ConfigInv, OwnInv, NEW c \in CP,
         Build(c) \/ Resume(c) \/ PromoteResync(c) \/ Fence(c)
  PROVE  OwnInv'
<1>0. cp[c] \in ControlPlane /\ OwnLists(cp[c]) /\ cp[c].role \notin {"off", "standby"}
  BY ControlKnown DEF OwnInv, Build, Serving, Resume, PromoteResync, Fence
<1>1. UNCHANGED <<left, coherent>>
  BY DEF Build, Resume, PromoteResync, Fence
<1>2. CASE Build(c)
  <2>1. PICK hosts \in SUBSET left.hosts :
          cp' = [cp EXCEPT ![c].live = hosts, ![c].pubs =
                   @ \cup {[at |-> "built", epoch |-> cp[c].epoch, hosts |-> hosts]}]
    BY <1>2 DEF Build
  <2> DEFINE b == [at |-> "built", epoch |-> cp[c].epoch, hosts |-> hosts]
  <2> DEFINE r == [cp[c] EXCEPT !.live = hosts, !.pubs = cp[c].pubs \cup {b}]
  <2>2. b.at = "built" /\ cp' = [cp EXCEPT ![c] = r]
    BY <2>1
  <2> HIDE DEF b
  <2>3. /\ r.pubs = cp[c].pubs \cup {b} /\ r.ring = cp[c].ring /\ r.ver = cp[c].ver
        /\ r.snap = cp[c].snap /\ r.role = cp[c].role
    BY <1>0 DEF ControlPlane
  <2> HIDE DEF r
  <2>4. OwnLists(r)
    BY <1>0, <2>2, <2>3, OwnSame
  <2> QED
    BY <1>1, <2>2, <2>4, OwnStep
<1>3. ASSUME NEW to \in {"leader", "resync"}, NEW e,
             cp' = [cp EXCEPT ![c] = [cp[c] EXCEPT !.role = to, !.epoch = e]]
      PROVE  OwnInv'
  <2> DEFINE r == [cp[c] EXCEPT !.role = to, !.epoch = e]
  <2>1. /\ r.pubs = cp[c].pubs /\ r.ring = cp[c].ring /\ r.ver = cp[c].ver
        /\ r.snap = cp[c].snap /\ r.role = to
    BY <1>0 DEF ControlPlane
  <2>2. cp' = [cp EXCEPT ![c] = r]
    BY <1>3
  <2> HIDE DEF r
  <2>3. OwnLists(r)
    BY <1>0, <2>1, OwnSame
  <2> QED
    BY <1>1, <2>2, <2>3, OwnStep
<1>4. [cp[c] EXCEPT !.role = "resync"] = [cp[c] EXCEPT !.role = "resync", !.epoch = cp[c].epoch]
  BY <1>0 DEF ControlPlane
<1>5. CASE Resume(c) \/ PromoteResync(c) \/ Fence(c)
  <2>1. \/ cp' = [cp EXCEPT ![c] = [cp[c] EXCEPT !.role = "leader", !.epoch = token + 1]]
        \/ cp' = [cp EXCEPT ![c] = [cp[c] EXCEPT !.role = "resync", !.epoch = cp[c].epoch]]
        \/ cp' = [cp EXCEPT ![c] = [cp[c] EXCEPT !.role = "resync", !.epoch = 0]]
    BY <1>4, <1>5 DEF Resume, PromoteResync, Fence
  <2> QED
    BY <1>3, <2>1
<1> QED
  BY <1>2, <1>5

\* A process without deltas has none that is not its own.
LEMMA OwnNone ==
  ASSUME NEW r, r.role \in {"off", "standby"}, r.ring = <<>>, r.pubs = {}
  PROVE  OwnLists(r)
<1>1. DOMAIN r.ring = {}
  OBVIOUS
<1>2. \A d : ~Holds(r, d)
  BY <1>1 DEF Holds
<1> QED
  BY <1>2 DEF OwnLists

\* A process dies, starts as a standby, or takes over a snapshot as one.
LEMMA OwnIdle ==
  ASSUME ConfigInv, OwnInv, NEW c \in CP, NEW r, cp' = [cp EXCEPT ![c] = r],
         r.role \in {"off", "standby"}, r.ring = <<>>, r.pubs = {},
         left'.faults = left.faults, coherent' = coherent
  PROVE  OwnInv'
<1>1. OwnLists(r)
  BY OwnNone
<1> QED
  BY <1>1, OwnStep

\* ConfigStore.Update under its lock: the delta is taken from the list that the
\* version before it stands for.
LEMMA OwnCommit ==
  ASSUME ConfigInv, ListInv, OwnInv, NEW c \in CP, Commit(c)
  PROVE  OwnInv'
<1>1. PICK p \in cp[c].pubs :
        /\ p.at = "built" /\ Issue(cp[c].ver + 1) /\ UNCHANGED <<lease, saved, coherent, dpVars>>
        /\ cp' = [cp EXCEPT ![c].ver = cp[c].ver + 1,
                    ![c].snap = [ver |-> cp[c].ver + 1, epoch |-> p.epoch, hosts |-> p.hosts],
                    ![c].pubs = (@ \ {p}) \cup
                      {[at |-> "committed", delta |-> DeltaOf(cp[c].ver, cp[c].snap, p.hosts)]}]
  BY DEF Commit
<1> DEFINE v == cp[c].ver + 1
<1> DEFINE l == p.hosts
<1> DEFINE s == [ver |-> v, epoch |-> p.epoch, hosts |-> l]
<1> DEFINE n == DeltaOf(cp[c].ver, cp[c].snap, l)
<1> DEFINE b == [at |-> "committed", delta |-> n]
<1> DEFINE r == [cp[c] EXCEPT !.ver = v, !.snap = s, !.pubs = (cp[c].pubs \ {p}) \cup {b}]
<1>2. cp[c] \in ControlPlane /\ cp[c].ver \in Nat /\ OwnLists(cp[c]) /\ Made(cp[c])
  BY ControlKnown DEF OwnInv, ListInv
<1>3. cp[c].role \notin {"off", "standby"} /\ cp[c].ver > 0 /\ cp[c].snap.ver = cp[c].ver
  BY <1>1, <1>2 DEF OwnLists, Made
<1>4. cp[c].snap # NoSnap
  BY <1>2, <1>3 DEF NoSnap
<1>5. n.added = l \ cp[c].snap.hosts /\ n.removed = cp[c].snap.hosts \ l
  BY <1>4 DEF DeltaOf
<1>6. n.base = cp[c].ver /\ n.ver = v /\ n.fp = l
  BY <1>2, DeltaMade
<1>7. s.ver = v /\ s.hosts = l /\ b.at = "committed" /\ b.delta = n /\ cp' = [cp EXCEPT ![c] = r]
  BY <1>1
<1>8. v \in Nat /\ v > cp[c].ver
  BY <1>2
<1> HIDE DEF s, b, n, l, v
<1>9. /\ r.ver = v /\ r.snap = s /\ r.pubs = (cp[c].pubs \ {p}) \cup {b}
      /\ r.ring = cp[c].ring /\ r.role = cp[c].role
  BY <1>2 DEF ControlPlane
<1> HIDE DEF r
<1>10. \A d : Holds(r, d) => Holds(cp[c], d) \/ d = n
  BY <1>7, <1>9 DEF Holds
<1>11. ASSUME NEW d, Holds(cp[c], d)
       PROVE  d.ver \in Nat /\ d.ver < v /\ d.base \in Nat /\ d.base < cp[c].ver
  <2>1. d.ver \in Nat /\ d.base \in Nat /\ d.ver = d.base + 1
    BY <1>11, HeldDelta, DeltaFields DEF WellMade
  <2>2. d.ver <= cp[c].ver
    BY <1>2, <1>11 DEF OwnLists
  <2> QED
    BY <1>2, <1>8, <2>1, <2>2
<1>12. ASSUME NEW d, Holds(r, d) PROVE d.ver <= r.ver /\ (d.ver = r.ver => d.fp = r.snap.hosts)
  <2>1. CASE Holds(cp[c], d)
    BY <1>8, <1>9, <1>11, <2>1
  <2>2. CASE d = n
    BY <1>6, <1>7, <1>8, <1>9, <2>2
  <2> QED
    BY <1>10, <1>12, <2>1, <2>2
<1>13. ASSUME NEW d, NEW e, Holds(r, d), Holds(r, e), e.base = d.ver
       PROVE  e.fp = (d.fp \ e.removed) \cup e.added
  <2>1. CASE Holds(cp[c], d) /\ Holds(cp[c], e)
    BY <1>2, <1>13, <2>1 DEF OwnLists
  <2>2. CASE Holds(cp[c], d) /\ e = n
    <3>1. d.fp = cp[c].snap.hosts
      BY <1>2, <1>6, <1>13, <2>2 DEF OwnLists
    <3> QED
      BY <1>5, <1>6, <2>2, <3>1
  <2>3. CASE d = n /\ Holds(cp[c], e)
    <3>1. e.base \in Nat /\ e.base < cp[c].ver
      BY <1>11, <2>3
    <3> QED
      BY <1>2, <1>6, <1>8, <1>13, <2>3, <3>1
  <2>4. CASE d = n /\ e = n
    BY <1>2, <1>6, <1>8, <1>13, <2>4
  <2> QED
    BY <1>10, <1>13, <2>1, <2>2, <2>3, <2>4
<1>14. OwnLists(r)
  BY <1>3, <1>7, <1>9, <1>12, <1>13 DEF OwnLists
<1>15. left'.faults = left.faults /\ coherent' = coherent
  BY <1>1, IssueSpends
<1> QED
  BY <1>7, <1>14, <1>15, OwnStep

\* ConfigStore.Update after its lock: such a delta keeps the ring coherent.
LEMMA OwnRecord ==
  ASSUME ConfigInv, ListInv, OwnInv, NEW c \in CP, Record(c)
  PROVE  OwnInv'
<1>1. PICK p \in cp[c].pubs :
        /\ p.at = "committed" /\ UNCHANGED <<lease, saved, left, top, dpVars>>
        /\ cp' = [cp EXCEPT ![c].ring = Recorded(@, p.delta), ![c].pubs = @ \ {p}]
        /\ Track(Recorded(cp[c].ring, p.delta))
  BY DEF Record
<1> DEFINE ring == Recorded(cp[c].ring, p.delta)
<1> DEFINE r == [cp[c] EXCEPT !.ring = ring, !.pubs = cp[c].pubs \ {p}]
<1>2. /\ cp[c] \in ControlPlane /\ cp[c].ring \in Seq(Delta) /\ Len(cp[c].ring) <= RingSize
      /\ OwnLists(cp[c]) /\ Made(cp[c])
  BY ControlKnown DEF OwnInv, ListInv
<1>3. Holds(cp[c], p.delta)
  BY <1>1 DEF Holds
<1>4. p.delta \in Delta /\ WellMade(p.delta)
  BY <1>3, HeldDelta
<1>5. \A i \in DOMAIN ring : ring[i] = p.delta \/ \E j \in DOMAIN cp[c].ring : ring[i] = cp[c].ring[j]
  BY <1>2, <1>4, RecordedEntries
<1>6. ring \in Seq(Delta) /\ Ascends(ring)
  BY <1>2, <1>4, RingFacts, RecordedAscends DEF Made
<1>7. cp' = [cp EXCEPT ![c] = r] /\ Track(ring)
  BY <1>1
<1> HIDE DEF ring
<1>8. \A i \in DOMAIN ring : Holds(cp[c], ring[i])
  BY <1>3, <1>5 DEF Holds
<1>9. Composes(ring)
  BY <1>2, <1>6, <1>8, OwnComposes DEF OwnLists
<1>10. /\ r.ring = ring /\ r.pubs = cp[c].pubs \ {p} /\ r.ver = cp[c].ver /\ r.snap = cp[c].snap
       /\ r.role = cp[c].role
  BY <1>2 DEF ControlPlane
<1> HIDE DEF r
<1>11. \A d : Holds(r, d) => Holds(cp[c], d)
  BY <1>8, <1>10 DEF Holds
<1>12. cp[c].role \notin {"off", "standby"}
  BY <1>1, <1>2 DEF OwnLists
<1>13. OwnLists(r)
  BY <1>2, <1>10, <1>11, <1>12 DEF OwnLists
<1>14. coherent' = coherent
  <2>1. coherent' = (coherent /\ Composes(ring)) /\ coherent \in BOOLEAN
    BY <1>7 DEF Track, ListInv
  <2> QED
    BY <1>9, <2>1
<1> QED
  BY <1>1, <1>7, <1>13, <1>14, OwnStep

\* enableControlPlane starts a ring of its own.
LEMMA OwnEnabled ==
  ASSUME ConfigInv, ListInv, OwnInv, NEW c \in CP, NEW now \in Clock, NEW e,
         NEW to \in {"boot", "leader"}, cp[c].role \in {"off", "standby"}, Issue(Arm(c, now) + 1),
         cp' = [cp EXCEPT ![c] = [Enabled(c, now, e) EXCEPT !.role = to]],
         Track(Enabled(c, now, e).ring)
  PROVE  OwnInv'
<1> DEFINE base == Arm(c, now)
<1> DEFINE l == cp[c].live
<1> DEFINE s == [ver |-> base + 1, epoch |-> e, hosts |-> l]
<1> DEFINE d == DeltaOf(base, cp[c].snap, l)
<1> DEFINE ring == Recorded(cp[c].ring, d)
<1> DEFINE q == [cp[c] EXCEPT !.ver = base + 1, !.snap = s, !.ring = ring, !.epoch = e]
<1> DEFINE r == [q EXCEPT !.role = to]
<1>1. base \in Nat /\ base + 1 \in Nat /\ base + 1 <= top + MaxIssued + 1
  BY ArmFacts
<1>2. base + 1 \in Version /\ base \in Version
  <2>1. base + 1 \in Version
    BY <1>1, IssueFacts
  <2> QED
    BY <1>1, <2>1, NumberFacts
<1>3. /\ cp[c] \in ControlPlane /\ l \in SUBSET Hosts /\ cp[c].snap \in Snapshot
      /\ cp[c].ring \in Seq(Delta) /\ Len(cp[c].ring) <= RingSize /\ OwnLists(cp[c]) /\ Made(cp[c])
  BY ControlKnown DEF OwnInv, ListInv
<1>4. d \in Delta /\ d.base = base /\ d.ver = base + 1 /\ d.fp = l /\ WellMade(d)
  BY <1>1, <1>2, <1>3, DeltaType, DeltaMade
<1>5. cp[c].ring = <<>> /\ cp[c].pubs = {}
  BY <1>3 DEF OwnLists
<1>6. Enabled(c, now, e) = q
  BY DEF Enabled
<1>7. cp' = [cp EXCEPT ![c] = r] /\ Track(q.ring) /\ s.ver = base + 1 /\ s.hosts = l
  BY <1>6
<1> HIDE DEF base, l, s, d
<1>8. \A i \in DOMAIN ring : ring[i] = d \/ \E j \in DOMAIN cp[c].ring : ring[i] = cp[c].ring[j]
  BY <1>3, <1>4, RecordedEntries
<1>9. \A i \in DOMAIN ring : ring[i] = d
  <2>1. DOMAIN cp[c].ring = {}
    BY <1>5
  <2> QED
    BY <1>8, <2>1
<1>10. ring \in Seq(Delta) /\ Ascends(ring)
  BY <1>3, <1>4, RingFacts, RecordedAscends DEF Made
<1> HIDE DEF ring
<1>11. d.base # d.ver
  BY <1>1, <1>4
<1>12. Composes(ring)
  BY <1>9, <1>10, <1>11, OwnComposes
<1>13. /\ r.ver = base + 1 /\ r.snap = s /\ r.ring = ring /\ r.pubs = {} /\ r.role = to
       /\ q.ring = ring
  BY <1>3, <1>5 DEF ControlPlane
<1> HIDE DEF r, q
<1>14. \A x : Holds(r, x) => x = d
  BY <1>9, <1>13 DEF Holds
<1>15. OwnLists(r)
  BY <1>1, <1>4, <1>7, <1>11, <1>13, <1>14 DEF OwnLists
<1>16. coherent' = coherent
  <2>1. coherent' = (coherent /\ Composes(ring)) /\ coherent \in BOOLEAN
    BY <1>7, <1>13 DEF Track, ListInv
  <2> QED
    BY <1>12, <2>1
<1>17. left'.faults = left.faults
  BY IssueSpends
<1> QED
  BY <1>7, <1>15, <1>16, <1>17, OwnStep

\* A restart.
LEMMA OwnBoot ==
  ASSUME ConfigInv, ListInv, OwnInv, NEW c \in CP, Boot(c)
  PROVE  OwnInv'
<1>0. cp[c].role = "off" /\ cp[c] \in ControlPlane /\ OwnLists(cp[c])
  BY ControlKnown DEF Boot, OwnInv
<1>1. CASE \E now \in Clock :
             /\ Issue(Arm(c, now) + 1)
             /\ cp' = [cp EXCEPT ![c] = [Enabled(c, now, 0) EXCEPT !.role = "boot"]]
             /\ Track(Enabled(c, now, 0).ring)
  BY <1>0, <1>1, OwnEnabled
<1>2. CASE cp' = [cp EXCEPT ![c].role = "standby"] /\ UNCHANGED <<left, top, coherent>>
  <2> DEFINE r == [cp[c] EXCEPT !.role = "standby"]
  <2>1. r.role = "standby" /\ r.ring = <<>> /\ r.pubs = {}
    BY <1>0 DEF OwnLists, ControlPlane
  <2>2. cp' = [cp EXCEPT ![c] = r]
    BY <1>2
  <2> HIDE DEF r
  <2> QED
    BY <1>2, <2>1, <2>2, OwnIdle
<1> QED
  BY <1>1, <1>2 DEF Boot

\* A standby is promoted.
LEMMA OwnPromoteStandby ==
  ASSUME ConfigInv, ListInv, OwnInv, NEW c \in CP, PromoteStandby(c)
  PROVE  OwnInv'
<1>1. PICK now \in Clock :
        /\ Issue(Arm(c, now) + 1)
        /\ cp' = [cp EXCEPT ![c] = [Enabled(c, now, token + 1) EXCEPT !.role = "leader"]]
        /\ Track(Enabled(c, now, token + 1).ring)
  BY DEF PromoteStandby
<1>2. cp[c].role = "standby"
  BY DEF PromoteStandby
<1> QED
  BY <1>1, <1>2, OwnEnabled

\* A process dies.
LEMMA OwnCrash ==
  ASSUME ConfigInv, OwnInv, NEW c \in CP, Crash(c)
  PROVE  OwnInv'
<1> DEFINE r == [Off EXCEPT !.ver = cp[c].ver, !.live = cp[c].live]
<1>1. Spend("crashes") /\ coherent' = coherent /\ cp' = [cp EXCEPT ![c] = r]
  BY DEF Crash
<1>2. left'.faults = left.faults
  <2>1. left \in Scenario /\ left' = [left EXCEPT !["crashes"] = left["crashes"] - 1]
    BY <1>1, Standing DEF Spend
  <2> QED
    BY <2>1 DEF Scenario
<1>3. r.role = "off" /\ r.ring = <<>> /\ r.pubs = {}
  BY DEF Off
<1> HIDE DEF r
<1> QED
  BY <1>1, <1>2, <1>3, OwnIdle

\* A standby that was never leader in this process takes over a snapshot.
LEMMA OwnSync ==
  ASSUME ConfigInv, OwnInv, NEW c \in CP, NEW d \in CP, Sync(d, c), cp[d].role # "resync"
  PROVE  OwnInv'
<1> DEFINE s == cp[c].snap
<1> DEFINE n == Bigger(cp[d].repl, s.ver)
<1> DEFINE noted == [cp[d] EXCEPT !.repl = n]
<1> DEFINE m == Bigger(noted.seen, s.epoch)
<1> DEFINE taken == [noted EXCEPT !.seen = m, !.live = s.hosts, !.snap = s]
<1>1. /\ UNCHANGED <<left, coherent>> /\ cp[d].role = "standby"
      /\ cp' = [cp EXCEPT ![d] = noted] \/ cp' = [cp EXCEPT ![d] = taken]
  BY DEF Sync
<1>2. cp[d] \in ControlPlane /\ OwnLists(cp[d])
  BY ControlKnown DEF OwnInv
<1>3. cp[d].ring = <<>> /\ cp[d].pubs = {}
  BY <1>1, <1>2 DEF OwnLists
<1> HIDE DEF n, m, s
<1>4. noted.role = "standby" /\ noted.ring = <<>> /\ noted.pubs = {}
  BY <1>1, <1>2, <1>3 DEF ControlPlane
<1>5. taken.role = "standby" /\ taken.ring = <<>> /\ taken.pubs = {}
  BY <1>1, <1>2, <1>3 DEF ControlPlane
<1> HIDE DEF noted, taken
<1> QED
  BY <1>1, <1>4, <1>5, OwnIdle

\* Steps that leave every list where it is.
LEMMA OwnElse ==
  ASSUME ConfigInv, OwnInv, cp' = cp, left'.faults = left.faults, coherent' = coherent
  PROVE  OwnInv'
BY DEF OwnInv, RingsCoherent

\* GetConfigDelta reads the remainder: only its cache changes.
LEMMA OwnRemainder ==
  ASSUME ConfigInv, OwnInv, DeltaRemainder
  PROVE  OwnInv'
<1> DEFINE c == dp.conn
<1>0. UNCHANGED <<left, coherent>> /\ c \in CP /\ Serving(c)
  BY DataKnown DEF DeltaRemainder
<1>1. CASE cp' = cp
  BY <1>0, <1>1, OwnElse
<1>2. CASE cp' = [cp EXCEPT ![c].rem = cp[c].snap]
  <2> DEFINE r == [cp[c] EXCEPT !.rem = cp[c].snap]
  <2>1. cp[c] \in ControlPlane /\ OwnLists(cp[c]) /\ cp[c].role \notin {"off", "standby"}
    BY <1>0, ControlKnown DEF OwnInv, Serving
  <2>2. /\ r.pubs = cp[c].pubs /\ r.ring = cp[c].ring /\ r.ver = cp[c].ver
        /\ r.snap = cp[c].snap /\ r.role = cp[c].role
    BY <2>1 DEF ControlPlane
  <2>3. cp' = [cp EXCEPT ![c] = r]
    BY <1>2
  <2> HIDE DEF r
  <2>4. OwnLists(r)
    BY <2>1, <2>2, OwnSame
  <2> QED
    BY <1>0, <2>3, <2>4, OwnStep
<1> QED
  BY <1>1, <1>2 DEF DeltaRemainder

\* The Data Plane does not touch the rings.
LEMMA OwnData ==
  ASSUME ConfigInv, OwnInv,
         \/ UNCHANGED vars \/ Expire \/ PollStart \/ FullReply \/ CallFails \/ Reconnect
         \/ ApplyDelta \/ ApplySnapshot \/ Beat \/ BeatSave \/ DPCrash \/ DPBoot
  PROVE  OwnInv'
<1>1. cp' = cp /\ coherent' = coherent
  BY DEF vars, Expire, PollStart, FullReply, CallFails, Reconnect, ApplyDelta, ApplySnapshot,
     Beat, BeatSave, DPCrash, DPBoot
<1>2. left' = left \/ DPCrash
  BY DEF vars, Expire, PollStart, FullReply, CallFails, Reconnect, ApplyDelta, ApplySnapshot,
     Beat, BeatSave, DPBoot
<1>3. left'.faults = left.faults
  <2>1. CASE DPCrash
    <3>1. left \in Scenario /\ left' = [left EXCEPT !["crashes"] = left["crashes"] - 1]
      BY <2>1, Standing DEF DPCrash, Spend
    <3> QED
      BY <3>1 DEF Scenario
  <2> QED
    BY <1>2, <2>1
<1> QED
  BY <1>1, <1>3, OwnElse

\* Every other step keeps the rings coherent.
LEMMA OwnNext ==
  ASSUME ConfigInv, ListInv, OwnInv, [Next]_vars, [~FormerLeaderImports]_vars
  PROVE  OwnInv'
<1>1. CASE \/ UNCHANGED vars \/ Expire \/ PollStart \/ FullReply \/ CallFails \/ Reconnect
           \/ ApplyDelta \/ ApplySnapshot \/ Beat \/ BeatSave \/ DPCrash \/ DPBoot
  BY <1>1, OwnData
<1>2. ASSUME NEW c \in CP, NEW d \in CP, Sync(d, c) PROVE OwnInv'
  <2>1. CASE UNCHANGED vars
    BY <2>1, OwnData
  <2>2. CASE cp[d].role # "resync"
    BY <1>2, <2>2, OwnSync
  <2> QED
    BY <1>2, <2>1, <2>2 DEF FormerLeaderImports
<1>3. ASSUME NEW c \in CP,
             \/ Build(c) \/ Commit(c) \/ Record(c) \/ Boot(c) \/ Resume(c)
             \/ PromoteStandby(c) \/ PromoteResync(c) \/ Fence(c) \/ Crash(c)
      PROVE  OwnInv'
  BY <1>3, OwnTurns, OwnCommit, OwnRecord, OwnBoot, OwnPromoteStandby, OwnCrash
<1>4. CASE DeltaRemainder
  BY <1>4, OwnRemainder
<1> QED
  BY <1>1, <1>2, <1>3, <1>4 DEF Next

\* There is one way to lose coherence.  In a behaviour in which no former leader
\* imports its successor's snapshot while it resynchronises, no order of
\* publishes, records, crashes and failovers puts a delta behind one it was not
\* taken from, for any number of Control Planes and handlers.
THEOREM ImportsAloneBreakRings ==
  Spec /\ [][~FormerLeaderImports]_vars => []RingsCoherent
<1>1. Init => OwnInv
  <2>1. SUFFICES ASSUME Init PROVE OwnInv
    OBVIOUS
  <2>2. \A c \in CP : cp[c].role = "off" /\ cp[c].ring = <<>> /\ cp[c].pubs = {}
    BY <2>1 DEF Init, Off
  <2>3. \A c \in CP : OwnLists(cp[c])
    BY <2>2, OwnNone
  <2>4. RingsCoherent
    BY <2>1 DEF Init, RingsCoherent
  <2> QED
    BY <2>3, <2>4 DEF OwnInv
<1>2. ConfigInv /\ ListInv /\ OwnInv /\ [Next]_vars /\ [~FormerLeaderImports]_vars => OwnInv'
  BY OwnNext
<1>3. OwnInv => RingsCoherent
  BY DEF OwnInv
<1> QED
  BY <1>1, <1>2, <1>3, ConfigInvariant, ListInvariant, PTL DEF Spec

\* In such a behaviour, with clocks that are not set back, the last-good file
\* always holds one snapshot: the promise of the delta path without a condition
\* on auxiliary state.
THEOREM WholeWithoutImports ==
  Spec /\ [][~FormerLeaderImports]_vars
    => []("clock" \notin left.faults => disk.good.hosts = disk.good.snap.hosts)
<1>1. RingsCoherent /\ LastGoodWhole
        => ("clock" \notin left.faults => disk.good.hosts = disk.good.snap.hosts)
  BY DEF RingsCoherent, LastGoodWhole
<1> QED
  BY <1>1, ImportsAloneBreakRings, LastGoodStaysWhole, PTL

=============================================================================
