------------------------------ MODULE SaaSFeed ------------------------------
(***************************************************************************)
(* The signed category feed on one node: acquiring a generation, the       *)
(* activation transaction (two floor records, the activation record, the   *)
(* live cutover), override rebuilds, and recovery after a crash at any     *)
(* step, with failing writes and a damaged record.                         *)
(*                                                                         *)
(* Abstractions.  A version has one signed content, so records of the same *)
(* version agree (equivocation is left out).  Verification of bytes is     *)
(* whether a generation is intact.  Expiry is left out: a refetch near     *)
(* expiry may happen at any time, an expired manifest is a fetch that      *)
(* fails.  The override provider never fails and a revision names an       *)
(* override set.  The generation collector is not wired into the program.  *)
(***************************************************************************)
EXTENDS Integers, FiniteSetsExt

CONSTANTS
  MaxFeed,        \* bound on published versions
  Attempts,       \* maxConfigRebuildRetries
  FeedScenarios   \* bounds on crashes, failing writes, damage and override edits

ASSUME FeedAssumption ==
  /\ MaxFeed \in Nat /\ Attempts \in Nat \ {0}
  /\ FeedScenarios \subseteq [crashes : Nat, faults : Nat, damage : Nat, edits : Nat]

VARIABLES
  pub,    \* the newest version the publisher has signed
  gen,    \* the generation directories
  file,   \* the records floor.a, floor.b and activation-state with its ETag
  view,   \* the live view: the feed version (0: embedded) and override revision
  job,    \* what the activation coordinator does under its lock
  got,    \* the generation a refresh has acquired and not yet activated
  etag,   \* the version whose manifest ETag the runtime holds
  rev,    \* the current override revision
  owed,   \* an override edit whose rebuild has not started
  peak,   \* history: the highest version ever served
  spare   \* the scenario, as far as it is not used up

feedVars == <<pub, gen, file, view, job, got, etag, rev, owed, peak, spare>>

FeedVersion == 0..MaxFeed
Damaged == -1
FeedRecord == FeedVersion \cup {Damaged}
Stages == {"down", "idle", "boot", "lkg", "build", "floorA", "floorB", "check", "commit", "swap"}
Job == [op : {"none", "activate", "resume", "raise", "serve", "rebuild"}, at : Stages,
        v : FeedVersion, rev : Nat, tries : 0..(Attempts - 1)]
Files == [a : FeedRecord, b : FeedRecord, act : FeedRecord, tag : FeedVersion]
Idle == [op |-> "none", at |-> "idle", v |-> 0, rev |-> 0, tries |-> 0]

FeedTypeOK ==
  /\ pub \in FeedVersion /\ gen \in [1..MaxFeed -> {"none", "ok", "damaged"}]
  /\ file \in Files /\ view \in [ver : FeedVersion, rev : Nat] /\ job \in Job
  /\ got \in FeedVersion /\ etag \in FeedVersion /\ peak \in FeedVersion
  /\ rev \in Nat /\ owed \in BOOLEAN
  /\ spare \in [crashes : Nat, faults : Nat, damage : Nat, edits : Nat]

FeedInit ==
  /\ pub = 0 /\ gen = [v \in 1..MaxFeed |-> "none"]
  /\ file = [a |-> 0, b |-> 0, act |-> 0, tag |-> 0]
  /\ view = [ver |-> 0, rev |-> 0]
  /\ job = [Idle EXCEPT !.at = "down"]
  /\ got = 0 /\ etag = 0 /\ rev = 0 /\ owed = FALSE /\ peak = 0
  /\ spare \in FeedScenarios

Up == job.at # "down"
Use(what) == spare[what] > 0 /\ spare' = [spare EXCEPT ![what] = @ - 1]

\* Mutant: the second replica is not read.
FloorOfOne(f) == Max({0, f.a})

\* selectFloor over the records that read back valid; the checkpoint is 0.
Floor(f) == Max({0, f.a, f.b})
Active == IF file.act = Damaged THEN 0 ELSE file.act
Intact(v) == v > 0 /\ gen[v] = "ok"

-----------------------------------------------------------------------------
(* Acquiring.                                                              *)

Publish ==
  /\ pub < MaxFeed /\ pub' = pub + 1
  /\ UNCHANGED <<gen, file, view, job, got, etag, rev, owed, peak, spare>>

\* A refresh under the run mutex: version v is served, passes the floor and is
\* persisted.  (A 304, a refused manifest and a failed fetch change nothing.)
Fetch(v, conditional) ==
  /\ Up /\ got = 0 /\ v > Floor(file) /\ gen[v] # "damaged"
  /\ conditional => etag # v \/ view.ver = 0
  /\ gen' = [gen EXCEPT ![v] = "ok"] /\ got' = v
  /\ UNCHANGED <<pub, file, view, job, etag, rev, owed, peak, spare>>

-----------------------------------------------------------------------------
(* The activation transaction.                                             *)

Start(op, at, v) == job' = [op |-> op, at |-> at, v |-> v, rev |-> rev, tries |-> 0]
Goto(stage) == job' = [job EXCEPT !.at = stage]

\* Activate takes the lock, re-verifies the generation and reads the floor.
Activate ==
  /\ job.at = "idle" /\ got # 0
  /\ IF Intact(got) /\ got > Floor(file)
     THEN Start("activate", "build", got) /\ UNCHANGED got
     ELSE got' = 0 /\ UNCHANGED job
  /\ UNCHANGED <<pub, gen, file, view, etag, rev, owed, peak, spare>>

\* S2: the view is built from the overrides of this moment.
BuildView ==
  /\ job.at = "build"
  /\ job' = [job EXCEPT !.at = "floorA", !.rev = rev]
  /\ UNCHANGED <<pub, gen, file, view, got, etag, rev, owed, peak, spare>>

\* An error ends an activation; recovery falls through to the active one.
GiveUp ==
  IF job.op = "activate" THEN job' = Idle /\ got' = 0
  ELSE Goto("lkg") /\ UNCHANGED got

\* An atomic write succeeds, or reports an error with the old or new content.
Write(new, next) ==
  /\ \/ file' = new /\ next /\ UNCHANGED spare
     \/ Use("faults") /\ GiveUp /\ (file' = new \/ UNCHANGED file)
  /\ UNCHANGED <<pub, gen, view, etag, rev, owed, peak>>

\* Mutant: Advance writes one replica.
FloorAOnly ==
  job.at = "floorA" /\ Write([file EXCEPT !.a = job.v], Goto("check") /\ UNCHANGED got)

\* S3: floor.Advance writes one replica, then the other.
FloorA ==
  job.at = "floorA" /\ Write([file EXCEPT !.a = job.v], Goto("floorB") /\ UNCHANGED got)

\* Both are read back.  A raise from the activation record ends here.
FloorB ==
  /\ job.at = "floorB"
  /\ Write([file EXCEPT !.b = job.v],
           IF file.a # job.v THEN GiveUp
           ELSE Goto(IF job.op = "raise" THEN "lkg" ELSE "check") /\ UNCHANGED got)

\* S4a: a changed override revision rebuilds the view, a few times.
Check ==
  /\ job.at = "check"
  /\ \/ rev = job.rev /\ Goto("commit") /\ UNCHANGED got
     \/ /\ rev # job.rev /\ job.tries < Attempts - 1
        /\ job' = [job EXCEPT !.rev = rev, !.tries = @ + 1]
        /\ UNCHANGED got
     \/ rev # job.rev /\ job.tries = Attempts - 1 /\ GiveUp
  /\ UNCHANGED <<pub, gen, file, view, etag, rev, owed, peak, spare>>

\* S4b: the activation record, which keeps the manifest's ETag if known.
CommitRecord ==
  /\ job.at = "commit"
  /\ Write([file EXCEPT !.act = job.v, !.tag = IF job.op = "activate" THEN job.v ELSE 0],
           Goto("swap") /\ UNCHANGED got)

\* S5: the cutover, and the runtime's ETag: the acquired manifest's after an
\* activation, the record's after recovery.
Swap ==
  /\ job.at = "swap" /\ job' = Idle
  /\ view' = [ver |-> job.v, rev |-> job.rev]
  /\ peak' = Max({peak, job.v})
  /\ etag' = CASE job.op = "activate" -> job.v
               [] job.op = "rebuild" -> etag
               [] OTHER -> IF Active = 0 THEN 0 ELSE file.tag
  /\ got' = IF job.op = "activate" THEN 0 ELSE got
  /\ UNCHANGED <<pub, gen, file, rev, owed, spare>>

-----------------------------------------------------------------------------
(* Overrides.                                                              *)

Edit ==
  /\ Up /\ Use("edits") /\ rev' = rev + 1 /\ owed' = TRUE
  /\ UNCHANGED <<pub, gen, file, view, job, got, etag, peak>>

\* Mutant: an edit made while an activation runs is left to that activation.
RebuildSkipped ==
  /\ owed /\ owed' = FALSE
  /\ IF job.at = "idle" /\ (Active = 0 \/ Intact(Active)) THEN Start("rebuild", "swap", Active)
     ELSE UNCHANGED job
  /\ UNCHANGED <<pub, gen, file, view, got, etag, rev, peak, spare>>

\* RebuildForOverrides: the recorded generation, or the embedded baseline if
\* there is no valid record; a damaged generation leaves the view alone.
Rebuild ==
  /\ job.at = "idle" /\ owed /\ owed' = FALSE
  /\ IF Active = 0 \/ Intact(Active) THEN Start("rebuild", "swap", Active)
     ELSE UNCHANGED job
  /\ UNCHANGED <<pub, gen, file, view, got, etag, rev, peak, spare>>

-----------------------------------------------------------------------------
(* Crash and recovery.                                                     *)

FeedCrash ==
  /\ Up /\ Use("crashes")
  /\ job' = [Idle EXCEPT !.at = "down"]
  /\ view' = [ver |-> 0, rev |-> 0] /\ got' = 0 /\ etag' = 0 /\ owed' = FALSE
  /\ UNCHANGED <<pub, gen, file, rev, peak>>

FeedStart ==
  /\ job.at = "down" /\ Goto("boot")
  /\ UNCHANGED <<pub, gen, file, view, got, etag, rev, owed, peak, spare>>

\* Mutant: a floor-ahead candidate is left for the next version.
RecoverWithoutResume ==
  /\ job.at = "boot"
  /\ IF Active > Floor(file) THEN Start("raise", "floorA", file.act) ELSE Goto("lkg")
  /\ UNCHANGED <<pub, gen, file, view, got, etag, rev, owed, peak, spare>>

\* Recover: raise the floor from the activation record, resume the generation
\* the floor is ahead by, or serve what is recorded.
Recover ==
  /\ job.at = "boot"
  /\ CASE Active > Floor(file) -> Start("raise", "floorA", file.act)
       [] Floor(file) > Active /\ Intact(Floor(file)) -> Start("resume", "build", Floor(file))
       [] OTHER -> Goto("lkg")
  /\ UNCHANGED <<pub, gen, file, view, got, etag, rev, owed, peak, spare>>

\* tryServeActive, else installEmbedded.
ServeLKG ==
  /\ job.at = "lkg" /\ Start("serve", "swap", IF Intact(Active) THEN Active ELSE 0)
  /\ UNCHANGED <<pub, gen, file, view, got, etag, rev, owed, peak, spare>>

\* A file goes bad on disk: a generation, or one of the three records.
Damage ==
  /\ Use("damage")
  /\ \/ \E v \in 1..MaxFeed :
          gen[v] = "ok" /\ gen' = [gen EXCEPT ![v] = "damaged"] /\ UNCHANGED file
     \/ /\ Damaged \notin {file.a, file.b, file.act} /\ UNCHANGED gen
        /\ \E r \in {"a", "b", "act"} :
             file[r] # 0 /\ file' = [file EXCEPT ![r] = Damaged]
  /\ UNCHANGED <<pub, view, job, got, etag, rev, owed, peak>>

-----------------------------------------------------------------------------
JobStep ==
  \/ Activate \/ BuildView \/ FloorA \/ FloorB \/ Check \/ CommitRecord \/ Swap
  \/ Rebuild \/ FeedStart \/ Recover \/ ServeLKG

FeedNext ==
  \/ JobStep \/ Publish \/ Edit \/ FeedCrash \/ Damage
  \/ \E v \in 1..pub, conditional \in BOOLEAN : Fetch(v, conditional)

\* The coordinator goes on, a stopped process is started again, and a refresh
\* that is repeated finds the newest version in the end.
FeedFairness ==
  /\ WF_feedVars(JobStep)
  /\ SF_feedVars(pub > 0 /\ Fetch(pub, TRUE))

FeedSpec == FeedInit /\ [][FeedNext]_feedVars /\ FeedFairness

-----------------------------------------------------------------------------
(* Properties.                                                             *)

\* "One-record corruption doesn't erase the floor": whatever crashes, failing
\* writes and one damaged record leave behind, the floor a refresh is measured
\* against is at least every version that was ever served.
FloorProvesServed == Floor(file) >= peak

\* A signed generation goes live only if no newer one has been live before, on
\* this or an earlier run of the process: by activation, resume, rebuild or
\* recovery.
NoFeedRollback ==
  [][view'.ver \notin {0, view.ver} => view'.ver >= peak]_feedVars

\* With the coordinator idle and no rebuild outstanding, the live view carries
\* the current overrides, in whatever order edits, activations and recovery
\* came (a rebuild that finds its generation damaged keeps the old view).
OverridesSettle ==
  (job.at = "idle" /\ ~owed /\ \A v \in 1..MaxFeed : gen[v] # "damaged") => view.rev = rev

\* As long as writes succeed, nothing is damaged and overrides do not change
\* too often, the newest version is served in the end, wherever in the
\* transaction a crash came.
FeedArrives ==
  (spare.faults = 0 /\ spare.damage = 0 /\ spare.edits < Attempts)
    => <>[](view.ver = pub)

=============================================================================
