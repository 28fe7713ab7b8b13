---------------------------- MODULE MaintUpgrade ----------------------------
(***************************************************************************)
(* The maintenance agent's destructive operations on one host: an image    *)
(* upgrade with its inline rollback, a standalone image rollback, a data   *)
(* rollback and a restore, against Docker, with the crash-recovery journal *)
(* and the verdict the journal gives after a crash at any step.            *)
(*                                                                         *)
(* Abstractions.  An image has one config digest (its name here) and two   *)
(* registry digests, of the manifest list and of the platform; a reference *)
(* pins one of them.  Every reference passes the allowlist and the         *)
(* repository check.  A stage is one command, together with the reads and  *)
(* the best-effort journal note that follow it; `docker tag` and `compose  *)
(* up` are stages of their own.  The verdict is the decision function over *)
(* what a boot would read; the program does not act on it yet.             *)
(***************************************************************************)
EXTENDS Integers, FiniteSets

CONSTANTS
  Image,            \* images the registry holds
  NoImage,          \* no image: nothing runs, nothing recorded
  Seed,             \* the image of the installation
  MaxOps,           \* bound on operations
  MaintScenarios    \* bounds on crashes, failing commands, failing journal
                    \* writes, lost records, expired deadlines and outages

ASSUME MaintAssumption ==
  /\ NoImage \notin Image /\ Seed \in Image /\ MaxOps \in Nat
  /\ MaintScenarios \subseteq
       [crashes : Nat, faults : Nat, disk : Nat, losses : Nat, late : Nat, outages : Nat]

VARIABLES
  docker,    \* the pinned tag, the running image, the digests known of each image
  journal,   \* the record of each operation on disk
  op,        \* the operation in flight with its accumulators
  begun,     \* operations begun so far
  retire,    \* finished operations whose record is still to be removed
  hist,      \* history: kind, end, target, prior image and rollback wish of each operation
  gated,     \* history: images that passed a health gate and verification
  mover,     \* history: the operation that advanced the tag, if not taken back
  luck       \* the scenario, as far as it is not used up

maintVars == <<docker, journal, op, begun, retire, hist, gated, mover, luck>>

Digests == {"list", "plat"}
Ref == [img : Image, d : Digests]
NoRef == [img |-> NoImage, d |-> "none"]
OpId == 1..MaxOps

SafePhases == {"admitted", "captured", "resolved", "pulled"}
DangerPhases == {"restarting", "restarted", "verified"}
NoRecord == [kind |-> "none", phase |-> "none", tref |-> NoRef, tid |-> NoImage,
             pref |-> NoRef, pid |-> NoImage]
Record == [kind : {"apply", "image", "data"}, phase : SafePhases \cup DangerPhases,
           tref : Ref \cup {NoRef}, tid : Image \cup {NoImage},
           pref : Ref \cup {NoRef}, pid : Image \cup {NoImage}]

\* An operation: the requested reference, whether a failure is rolled back, the
\* prior image and reference captured, the pin, the image seen running after
\* the restart, and flags: already current, failed, failed after the restart,
\* an inline rollback begun, its success, deadline passed.
NoOp == [id |-> 0, kind |-> "none", at |-> "idle", req |-> NoRef, undo |-> FALSE,
         pid |-> NoImage, names |-> {}, pref |-> NoRef, pin |-> NoRef, tid |-> NoImage,
         current |-> FALSE, failed |-> FALSE, post |-> FALSE, inline |-> FALSE,
         restored |-> FALSE, late |-> FALSE]
Stages ==
  {"down", "idle", "capture", "resolve", "backup", "pull", "barrier", "tag", "up", "mark",
   "health", "verify", "rb_pull", "rb_tag", "rb_up", "rb_health", "rb_verify",
   "stop", "commit", "start", "check", "finish"}

Kinds == {"none", "apply", "image", "data", "restore"}
InFlight ==
  [id : 0..MaxOps, kind : Kinds, at : Stages, req : Ref \cup {NoRef}, undo : BOOLEAN,
   pid : Image \cup {NoImage}, names : SUBSET Digests, pref : Ref \cup {NoRef},
   pin : Ref \cup {NoRef}, tid : Image \cup {NoImage}, current : BOOLEAN, failed : BOOLEAN,
   post : BOOLEAN, inline : BOOLEAN, restored : BOOLEAN, late : BOOLEAN]

Past == [kind : Kinds, end : {"none", "running", "cut", "failed", "succeeded", "rolledback"},
         to : Image \cup {NoImage}, was : Image \cup {NoImage}, undo : BOOLEAN]
Host == [tag : Image, run : Image \cup {NoImage}, names : [Image -> SUBSET Digests]]
Luck == [crashes : Nat, faults : Nat, disk : Nat, losses : Nat, late : Nat, outages : Nat]

MaintTypeOK ==
  /\ docker \in Host /\ journal \in [OpId -> Record \cup {NoRecord}] /\ op \in InFlight
  /\ begun \in 0..MaxOps /\ retire \subseteq OpId /\ hist \in [OpId -> Past]
  /\ gated \subseteq Image /\ mover \in 0..MaxOps /\ luck \in Luck

\* The installer tagged and started the seed; it may know the seed by either
\* digest, by both, or by none (an image built on the host).
MaintInit ==
  /\ \E names \in SUBSET Digests :
       docker = [tag |-> Seed, run |-> Seed,
                 names |-> [i \in Image |-> IF i = Seed THEN names ELSE {}]]
  /\ journal = [o \in OpId |-> NoRecord] /\ op = NoOp /\ begun = 0 /\ retire = {}
  /\ hist = [o \in OpId |-> [kind |-> "none", end |-> "none", to |-> NoImage, was |-> NoImage,
                           undo |-> FALSE]]
  /\ gated = {Seed} /\ mover = 0 /\ luck \in MaintScenarios

Spend(what) == luck[what] > 0 /\ luck' = [luck EXCEPT ![what] = @ - 1]

\* A command fails, always once the operation's deadline has passed.
Fails == IF op.late THEN UNCHANGED luck ELSE Spend("faults")
Runs == ~op.late /\ UNCHANGED luck

-----------------------------------------------------------------------------
(* The journal.                                                            *)

\* foldIdentifiers: the identifiers the operation knows by now.
Fold(rec, phase, acc) ==
  [rec EXCEPT !.phase = phase,
              !.tref = IF acc.pin # NoRef THEN acc.pin ELSE @,
              !.pref = IF acc.pref # NoRef THEN acc.pref ELSE @,
              !.pid = IF acc.pid # NoImage THEN acc.pid ELSE @,
              !.tid = IF acc.tid # NoImage THEN acc.tid ELSE @]

\* advanceJournalPhaseBestEffort: an error and a missing record are ignored.
\* A command's cost in luck is lk, so that both can be charged in one step.
Note(phase, acc, lk) ==
  \/ /\ luck' = lk
     /\ journal' = IF journal[op.id] = NoRecord THEN journal
                   ELSE [journal EXCEPT ![op.id] = Fold(@, phase, acc)]
  \/ lk.disk > 0 /\ luck' = [lk EXCEPT !.disk = @ - 1] /\ UNCHANGED journal

\* admissionJournalRecord: only an image rollback knows its target yet.
AdmissionRecord(kind, ref) ==
  [NoRecord EXCEPT !.kind = kind, !.phase = "admitted",
                   !.tref = IF kind = "image" THEN ref ELSE NoRef]

-----------------------------------------------------------------------------
(* Admission.                                                              *)

FirstStage(kind) == IF kind \in {"apply", "image"} THEN "capture" ELSE "stop"

\* startAsyncOp under the maintenance lock.  A restore is not journaled; the
\* others do not run unless their admission is on disk.
Admit(kind, ref, undo) ==
  /\ op.at = "idle" /\ begun < MaxOps /\ begun' = begun + 1
  /\ kind \in {"apply", "image"} <=> ref # NoRef
  /\ undo => kind = "apply"
  /\ \/ /\ op' = [NoOp EXCEPT !.id = begun + 1, !.kind = kind, !.at = FirstStage(kind),
                              !.req = ref, !.undo = undo]
        /\ hist' = [hist EXCEPT ![begun + 1] = [kind |-> kind, end |-> "running",
                                                to |-> ref.img, was |-> NoImage,
                                                undo |-> undo]]
        /\ journal' = IF kind = "restore" THEN journal
                      ELSE [journal EXCEPT ![begun + 1] = AdmissionRecord(kind, ref)]
        /\ UNCHANGED luck
     \/ /\ kind # "restore" /\ Spend("disk")
        /\ hist' = [hist EXCEPT ![begun + 1] = [kind |-> kind, end |-> "failed",
                                                to |-> ref.img, was |-> NoImage,
                                                undo |-> undo]]
        /\ journal' \in {journal, [journal EXCEPT ![begun + 1] = AdmissionRecord(kind, ref)]}
        /\ UNCHANGED op
  /\ UNCHANGED <<docker, retire, gated, mover>>

-----------------------------------------------------------------------------
(* Stages.                                                                 *)

\* Mutant: a rollback without a known prior.
RollsBackAlways(acc) == acc.kind = "apply" /\ acc.post /\ acc.undo

\* rollbackDecision: only after the restart, unless opted out, to a known prior.
RollsBack(acc) == acc.kind = "apply" /\ acc.post /\ acc.undo /\ acc.pref # NoRef

To(stage) == op' = [op EXCEPT !.at = stage]

\* A stage error: the recovery stages run, the others are skipped.
FailWith(acc) ==
  op' = [acc EXCEPT !.failed = TRUE, !.inline = RollsBack(acc),
                    !.at = IF RollsBack(acc) /\ ~acc.inline THEN "rb_pull" ELSE "finish"]
FailPost == FailWith([op EXCEPT !.post = op.kind = "apply"])

\* CaptureRunningProxyImage: the config digest is needed, the registry digests
\* are best effort.  lk is what is left of luck.
Nothing == [id |-> NoImage, names |-> {}]
Capture(c, lk) ==
  \/ /\ docker.run # NoImage /\ ~op.late
     /\ \/ c = [id |-> docker.run, names |-> docker.names[docker.run]] /\ lk = luck
        \/ /\ c = [id |-> docker.run, names |-> {}] /\ docker.names[docker.run] # {}
           /\ luck.faults > 0 /\ lk = [luck EXCEPT !.faults = @ - 1]
  \/ (docker.run = NoImage \/ op.late) /\ c = Nothing /\ lk = luck
  \/ /\ docker.run # NoImage /\ ~op.late /\ c = Nothing
     /\ luck.faults > 0 /\ lk = [luck EXCEPT !.faults = @ - 1]

Captures == {[id |-> i, names |-> n] : i \in Image \cup {NoImage}, n \in SUBSET Digests}
Budgets == {luck} \cup (IF luck.faults > 0 THEN {[luck EXCEPT !.faults = @ - 1]} ELSE {})

\* deriveRollbackTarget: exactly one registry digest makes a usable prior.
PriorRef(c) ==
  IF Cardinality(c.names) = 1 THEN [img |-> c.id, d |-> CHOOSE n \in c.names : TRUE] ELSE NoRef

CaptureBefore ==
  /\ op.at = "capture"
  /\ \E c \in Captures, lk \in Budgets :
       /\ Capture(c, lk)
       /\ IF op.kind = "image"
          THEN To("rb_pull") /\ luck' = lk /\ UNCHANGED <<journal, hist>>
          ELSE /\ op' = [op EXCEPT !.at = "resolve", !.pid = c.id, !.names = c.names,
                                   !.pref = PriorRef(c)]
               /\ hist' = [hist EXCEPT ![op.id].was = c.id]
               /\ Note("captured", op', lk)
  /\ UNCHANGED <<docker, begun, retire, gated, mover>>

\* The digests a manifest lookup of the requested reference mentions.
TargetDigests(ref) == IF ref.d = "list" THEN Digests ELSE {ref.d}

\* Mutant: what the pinned tag resolves to counts as current.
TaggedIsCurrent(acc) == docker.tag = acc.req.img /\ docker.names[docker.tag] \cap TargetDigests(acc.req) # {}

\* What was captured running shares a digest with the target.
AlreadyCurrent(acc) == acc.pid = acc.req.img /\ acc.names \cap TargetDigests(acc.req) # {}

ResolveTarget ==
  /\ op.at = "resolve"
  /\ \/ /\ ~op.late
        /\ op' = [op EXCEPT !.pin = op.req, !.current = AlreadyCurrent(op),
                            !.at = IF AlreadyCurrent(op) THEN "finish" ELSE "backup"]
        /\ Note("resolved", op', luck)
     \/ Fails /\ FailWith(op) /\ UNCHANGED journal
  /\ UNCHANGED <<docker, begun, retire, hist, gated, mover>>

\* The optional encrypted backup before the upgrade.
PreBackup ==
  /\ op.at = "backup"
  /\ \/ Runs /\ To("pull")
     \/ Fails /\ FailWith(op)
  /\ UNCHANGED <<docker, journal, begun, retire, hist, gated, mover>>

Pulled(ref) == [docker EXCEPT !.names[ref.img] = @ \cup {ref.d}]

Pull ==
  /\ op.at = "pull"
  /\ \/ /\ ~op.late /\ docker' = Pulled(op.pin) /\ To("barrier")
        /\ Note("pulled", op, luck)
     \/ Fails /\ FailWith(op) /\ UNCHANGED <<docker, journal>>
  /\ UNCHANGED <<begun, retire, hist, gated, mover>>

\* Mutant: a failing write-ahead barrier is ignored like any other note.
BestEffortBarrier ==
  /\ op.at = "barrier" /\ Note("restarting", op, luck) /\ To("tag")
  /\ UNCHANGED <<docker, begun, retire, hist, gated, mover>>

\* writeBarrier: fail closed, and written anew if the record is gone.
WriteBarrier ==
  /\ op.at = "barrier"
  /\ LET old == IF journal[op.id] = NoRecord THEN AdmissionRecord("apply", NoRef) ELSE journal[op.id]
         new == [journal EXCEPT ![op.id] = Fold(old, "restarting", op)]
     IN \/ journal' = new /\ To("tag") /\ UNCHANGED luck
        \/ Spend("disk") /\ journal' \in {journal, new} /\ FailWith(op)
  /\ UNCHANGED <<docker, begun, retire, hist, gated, mover>>

\* ComposeTagPinned.
Tagged(img) == docker' = [docker EXCEPT !.tag = img]

\* tagAndUp, first half: a failing tag moves nothing, as the code assumes, or is
\* killed or loses its answer when the tag has moved.
TagPinned ==
  /\ op.at = "tag"
  /\ \/ Runs /\ Tagged(op.pin.img) /\ mover' = op.id /\ To("up")
     \/ Fails /\ Tagged(op.pin.img) /\ mover' = op.id /\ FailWith(op)
     \/ Fails /\ FailWith(op) /\ UNCHANGED <<docker, mover>>
  /\ UNCHANGED <<journal, begun, retire, hist, gated>>

\* `compose up` starts what is tagged; a failing one leaves any of three.
Recreated == docker' = [docker EXCEPT !.run = docker.tag]
Indeterminate == docker' \in {docker, [docker EXCEPT !.run = docker.tag], [docker EXCEPT !.run = NoImage]}

Up ==
  /\ op.at = "up"
  /\ \/ Runs /\ Recreated /\ To("mark")
     \/ Fails /\ Indeterminate /\ FailPost
  /\ UNCHANGED <<journal, begun, retire, hist, gated, mover>>

\* The running image is read at once, and the phase noted.
MarkRestarted ==
  /\ op.at = "mark"
  /\ \E c \in Captures, lk \in Budgets :
       /\ Capture(c, lk)
       /\ op' = [op EXCEPT !.at = "health", !.tid = IF c.id # NoImage THEN c.id ELSE @]
       /\ Note("restarted", op', lk)
  /\ UNCHANGED <<docker, begun, retire, hist, gated, mover>>

\* The probe: nothing running is never ready.
Ready == Runs /\ docker.run # NoImage
NotReady == IF docker.run = NoImage THEN UNCHANGED luck ELSE Fails

HealthGate ==
  /\ op.at = "health"
  /\ \/ Ready /\ To("verify")
     \/ NotReady /\ FailPost
  /\ UNCHANGED <<docker, journal, begun, retire, hist, gated, mover>>

\* verifyRunningImage: the pinned digest is among those of what runs.
Verify ==
  /\ op.at = "verify"
  /\ \E c \in Captures, lk \in Budgets :
       /\ Capture(c, lk)
       /\ IF c.id = op.pin.img /\ op.pin.d \in c.names
          THEN /\ op' = [op EXCEPT !.at = "finish", !.tid = c.id]
               /\ gated' = gated \cup {c.id}
               /\ Note("verified", op', lk)
          ELSE FailPost /\ luck' = lk /\ UNCHANGED <<journal, gated>>
  /\ UNCHANGED <<docker, begun, retire, hist, mover>>

-----------------------------------------------------------------------------
(* The rollback core, shared by the standalone and the inline rollback.    *)

Core == IF op.kind = "apply" THEN op.pref ELSE op.req

RollbackPull ==
  /\ op.at = "rb_pull"
  /\ \/ Runs /\ docker' = Pulled(Core) /\ To("rb_tag")
     \/ Fails /\ FailWith(op) /\ UNCHANGED docker
  /\ UNCHANGED <<journal, begun, retire, hist, gated, mover>>

RollbackTag ==
  /\ op.at = "rb_tag"
  /\ \/ /\ (Runs /\ To("rb_up")) \/ (Fails /\ FailWith(op))
        /\ Tagged(Core.img)
        /\ mover' = IF op.kind = "apply" THEN 0 ELSE op.id
     \/ Fails /\ FailWith(op) /\ UNCHANGED <<docker, mover>>
  /\ UNCHANGED <<journal, begun, retire, hist, gated>>

RollbackUp ==
  /\ op.at = "rb_up"
  /\ \/ Runs /\ Recreated /\ To("rb_health")
     \/ Fails /\ Indeterminate /\ FailWith(op)
  /\ UNCHANGED <<journal, begun, retire, hist, gated, mover>>

RollbackHealth ==
  /\ op.at = "rb_health"
  /\ \/ Ready /\ To("rb_verify")
     \/ NotReady /\ FailWith(op)
  /\ UNCHANGED <<docker, journal, begun, retire, hist, gated, mover>>

RollbackVerify ==
  /\ op.at = "rb_verify"
  /\ \E c \in Captures, lk \in Budgets :
       /\ Capture(c, lk) /\ luck' = lk
       /\ IF c.id = Core.img /\ Core.d \in c.names
          THEN op' = [op EXCEPT !.at = "finish", !.restored = TRUE] /\ gated' = gated \cup {c.id}
          ELSE FailWith(op) /\ UNCHANGED gated
  /\ UNCHANGED <<docker, journal, begun, retire, hist, mover>>

-----------------------------------------------------------------------------
(* Restore and data rollback.                                              *)

StopStack ==
  /\ op.at = "stop"
  /\ \/ Runs /\ docker' = [docker EXCEPT !.run = NoImage] /\ To("commit")
     \/ /\ Fails /\ docker' \in {docker, [docker EXCEPT !.run = NoImage]}
        /\ op' = [op EXCEPT !.failed = TRUE, !.at = "start"]
  /\ UNCHANGED <<journal, begun, retire, hist, gated, mover>>

RestoreCommit ==
  /\ op.at = "commit"
  /\ \/ Runs /\ To("start")
     \/ Fails /\ op' = [op EXCEPT !.failed = TRUE, !.at = "start"]
  /\ UNCHANGED <<docker, journal, begun, retire, hist, gated, mover>>

\* Best effort, whatever failed before.
StartStack ==
  /\ op.at = "start"
  /\ \/ Runs /\ Recreated /\ To("check")
     \/ Fails /\ Indeterminate /\ op' = [op EXCEPT !.failed = TRUE, !.at = "check"]
  /\ UNCHANGED <<journal, begun, retire, hist, gated, mover>>

HealthCheck ==
  /\ op.at = "check"
  /\ \/ Ready /\ To("finish")
     \/ NotReady /\ op' = [op EXCEPT !.failed = TRUE, !.at = "finish"]
  /\ UNCHANGED <<docker, journal, begun, retire, hist, gated, mover>>

-----------------------------------------------------------------------------
(* The end of an operation, and of the agent.                              *)

\* terminate: the lock is released, then the record is to be removed.
Terminate ==
  /\ op.at = "finish" /\ op' = NoOp /\ retire' = retire \cup {op.id}
  /\ hist' = [hist EXCEPT ![op.id].end =
                IF ~op.failed THEN "succeeded" ELSE IF op.restored THEN "rolledback" ELSE "failed"]
  /\ UNCHANGED <<docker, journal, begun, gated, mover, luck>>

\* The unlink may fail: the record then stays.
RemoveRecord(o) ==
  /\ o \in retire /\ retire' = retire \ {o}
  /\ \/ journal' = [journal EXCEPT ![o] = NoRecord] /\ UNCHANGED luck
     \/ journal[o] # NoRecord /\ Spend("disk") /\ UNCHANGED journal
  /\ UNCHANGED <<docker, op, begun, hist, gated, mover>>

\* A stage panics: the panic barrier ends the operation as failed, and none of
\* the recovery stages runs.
StagePanics ==
  /\ op.at \notin {"down", "idle", "finish"} /\ Spend("faults")
  /\ op' = [op EXCEPT !.failed = TRUE, !.at = "finish"]
  /\ UNCHANGED <<docker, journal, begun, retire, hist, gated, mover>>

\* The operation's deadline passes.
Expire ==
  /\ op.at \notin {"down", "idle", "finish"} /\ ~op.late /\ Spend("late")
  /\ op' = [op EXCEPT !.late = TRUE]
  /\ UNCHANGED <<docker, journal, begun, retire, hist, gated, mover>>

AgentCrash ==
  /\ op.at # "down" /\ Spend("crashes")
  /\ op' = [NoOp EXCEPT !.at = "down"] /\ retire' = {}
  /\ hist' = IF op.id = 0 THEN hist ELSE [hist EXCEPT ![op.id].end = "cut"]
  /\ UNCHANGED <<docker, journal, begun, gated, mover>>

\* initJournal marks what it finds as interrupted and leaves the files alone.
AgentBoot ==
  /\ op.at = "down" /\ op' = NoOp
  /\ UNCHANGED <<docker, journal, begun, retire, hist, gated, mover, luck>>

\* The proxy container stops (a host reboot, the container's own end).
Outage ==
  /\ docker.run # NoImage /\ Spend("outages") /\ docker' = [docker EXCEPT !.run = NoImage]
  /\ UNCHANGED <<journal, op, begun, retire, hist, gated, mover>>

\* A record vanishes from the disk before the barrier is reached.
RecordLost ==
  /\ op.kind = "apply" /\ op.at \in {"capture", "resolve", "backup", "pull", "barrier"}
  /\ journal[op.id] # NoRecord /\ Spend("losses")
  /\ journal' = [journal EXCEPT ![op.id] = NoRecord]
  /\ UNCHANGED <<docker, op, begun, retire, hist, gated, mover>>

MaintNext ==
  \/ \E ref \in Ref, undo \in BOOLEAN : Admit("apply", ref, undo)
  \/ \E ref \in Ref : Admit("image", ref, FALSE)
  \/ \E kind \in {"data", "restore"} : Admit(kind, NoRef, FALSE)
  \/ CaptureBefore \/ ResolveTarget \/ PreBackup \/ Pull \/ WriteBarrier \/ TagPinned \/ Up
  \/ MarkRestarted \/ HealthGate \/ Verify
  \/ RollbackPull \/ RollbackTag \/ RollbackUp \/ RollbackHealth \/ RollbackVerify
  \/ StopStack \/ RestoreCommit \/ StartStack \/ HealthCheck
  \/ Terminate \/ \E o \in OpId : RemoveRecord(o)
  \/ StagePanics \/ Expire \/ AgentCrash \/ AgentBoot \/ Outage \/ RecordLost

MaintSpec == MaintInit /\ [][MaintNext]_maintVars

-----------------------------------------------------------------------------
(* The reconcile decision.                                                 *)

Refs(img, names) == {[img |-> img, d |-> n] : n \in names}
RefSet(ref) == IF ref = NoRef THEN {} ELSE {ref}

\* sameImage: the config digest, or a shared registry digest.
SameImage(idA, idB, refsA, refsB) == (idA # NoImage /\ idA = idB) \/ refsA \cap refsB # {}

\* validateReconcileRefs: at least one reference to act on.
RefValid(rec) == rec.tref # NoRef \/ rec.pref # NoRef

\* Mutant: a stack that runs the prior image needs nothing, whatever is tagged.
VerdictPriorFirst(rec, c) ==
  LET live == Refs(c.id, c.names)
      tagged == Refs(docker.tag, docker.names[docker.tag])
  IN IF rec.kind = "data" THEN "manual"
     ELSE IF ~RefValid(rec) THEN "stop"
     ELSE IF SameImage(c.id, rec.tid, live, RefSet(rec.tref)) THEN "adopt"
     ELSE IF SameImage(c.id, rec.pid, live, RefSet(rec.pref)) THEN "noop"
     ELSE IF tagged \cap RefSet(rec.tref) # {} THEN "reup"
     ELSE IF rec.phase \in SafePhases THEN "noop"
     ELSE IF rec.pid # NoImage \/ rec.pref # NoRef THEN "rollback"
     ELSE "stop"

\* reconcileDecision, first match, for the capture c.
Verdict(rec, c) ==
  LET live == Refs(c.id, c.names)
      tagged == Refs(docker.tag, docker.names[docker.tag])
  IN IF rec.kind = "data" THEN "manual"
     ELSE IF ~RefValid(rec) THEN "stop"
     ELSE IF SameImage(c.id, rec.tid, live, RefSet(rec.tref)) THEN "adopt"
     ELSE IF tagged \cap RefSet(rec.tref) # {} THEN "reup"
     ELSE IF SameImage(c.id, rec.pid, live, RefSet(rec.pref)) THEN "noop"
     ELSE IF rec.phase \in SafePhases THEN "noop"
     ELSE IF rec.pid # NoImage \/ rec.pref # NoRef THEN "rollback"
     ELSE "stop"

\* What a boot can see of the stack: the registry digests are best effort.
BootCaptures ==
  IF docker.run = NoImage THEN {Nothing}
  ELSE {[id |-> docker.run, names |-> n] : n \in {docker.names[docker.run], {}}}

-----------------------------------------------------------------------------
(* Properties.                                                             *)

\* "A crash in the danger window always leaves a durable record": while the
\* pinned tag stands at an image that an unfinished upgrade put there and no
\* gate has passed, that upgrade's record is on disk, in a danger phase, with
\* the target and with the prior image it captured.
TagGuarded ==
  (mover # 0 /\ docker.tag \notin gated
     /\ hist[mover].kind = "apply" /\ hist[mover].end \in {"running", "cut"})
    => LET rec == journal[mover]
       IN rec.phase \in DangerPhases /\ rec.tref.img = docker.tag /\ rec.pid = hist[mover].was

\* After a crash, an operation that left the tag at an ungated image is never
\* judged to need nothing: its record asks to adopt or to converge, for an
\* upgrade and for a rollback, whether or not the registry digests of what runs
\* can be read (those of the tag are).
DanglingTagSeen ==
  (mover # 0 /\ docker.tag \notin gated /\ hist[mover].end = "cut")
    => \A c \in BootCaptures : Verdict(journal[mover], c) \in {"adopt", "reup"}

\* What an operation reports is what runs: a succeeded upgrade or rollback runs
\* its target, a rolled back one the image it found (or the container stopped
\* meanwhile by itself).
OutcomeHonest ==
  (op.at = "finish" /\ op.kind \in {"apply", "image"} /\ docker.run # NoImage)
    => /\ ~op.failed => docker.run = hist[op.id].to
       /\ (op.failed /\ op.restored) => docker.run = hist[op.id].was /\ docker.tag = docker.run

-----------------------------------------------------------------------------
(* What a comment claims and the code does not keep.                       *)

\* "after this point there is nothing to reconcile": when no record is left and
\* no operation runs, the stack does not run an image that no gate has passed
\* (an operator who opted out of the rollback excepted).
NothingToReconcile ==
  (op.at = "idle" /\ retire = {} /\ (\A o \in OpId : journal[o] = NoRecord)
     /\ mover # 0 /\ hist[mover].undo)
    => docker.run \in gated \cup {NoImage}
=============================================================================
