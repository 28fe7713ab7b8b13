---------------------------- MODULE PolicyDraft -----------------------------
(***************************************************************************)
(* The policy rulebase and its shared draft: edits of the running store,   *)
(* staged edits of the candidate, commit and revert, the rollback path     *)
(* that bypasses them, the version tokens clients edit and commit with,    *)
(* and the three files a restart reads.  The steps are the critical        *)
(* sections of the coordinator lock (c.mu), cut at the file writes and at  *)
(* the reads that a rollback, which does not take the lock, can come       *)
(* between.                                                                *)
(*                                                                         *)
(* Abstractions.  A rulebase is its content.  A write without ?ifVersion=  *)
(* is always admitted, so every write is taken as one; what the fence is   *)
(* for is the property TokensHonest.  The durable append of an accepted    *)
(* recommendation is a staged edit; validation of a candidate always       *)
(* passes; renames of referenced objects are left out.                     *)
(***************************************************************************)
EXTENDS Integers

CONSTANTS
  Rules,             \* the contents a rulebase may have
  NoRules,           \* no content: there is no candidate, no draft file
  MaxPolicy,         \* bound: no operation begins beyond this version
  PolicyScenarios    \* bounds on rollbacks, crashes and failing writes

ASSUME PolicyAssumption ==
  /\ Rules # {} /\ NoRules \notin Rules /\ MaxPolicy \in Nat \ {0}
  /\ PolicyScenarios \subseteq [rollbacks : Nat, crashes : Nat, faults : Nat]

VARIABLES
  run,       \* policyStore: content and version
  cand,      \* the candidate: content and version
  draft,     \* draftState: active, and the generation it was forked from
  commitMode,\* Require Commit is armed
  write,     \* the operation that holds c.mu
  gate,      \* writeGate is held exclusively, by a commit or a revert
  tails,     \* what is left to do after c.mu: .meta refreshes, draft removals
  rolling,   \* a rollback that has yet to save
  saving,    \* a SaveErr between its two files (saveMu is held)
  pfile,     \* policy.json, its .meta, policy_draft.json, the saved mode
  token,     \* a version a client was shown, with the content it stands for
  outside,   \* history: running was changed past the draft since its fork
  odd,       \* history: the mishaps the properties make exceptions for
  chances    \* the scenario, as far as it is not used up

policyVars == <<run, cand, draft, commitMode, write, gate, tails, rolling, saving,
                pfile, token, outside, odd, chances>>

Generation == 0..(MaxPolicy + 3)
NoCand == [c |-> NoRules, v |-> 0]
NoDraft == [on |-> FALSE, base |-> 0]
NoFile == [c |-> NoRules, base |-> 0]
NoSave == [by |-> "none", v |-> 0]
Free == [op |-> "none", at |-> "free", prev |-> NoRules, base |-> 0]
Store == [c : Rules, v : Generation]

DraftState == [on : BOOLEAN, base : Generation]
DraftFile == [c : Rules \cup {NoRules}, base : Generation]
PolicyFiles == [rules : Rules, meta : Generation, draft : DraftFile, armed : BOOLEAN]
Token == [of : {"running", "effective", "candidate"}, v : Generation, c : Rules \cup {NoRules}]
Held == [op : {"none", "stage", "edit", "commit"}, at : {"free", "fork", "settle", "save", "meta"},
         prev : Rules \cup {NoRules}, base : Generation]

PolicyTypeOK ==
  /\ run \in Store /\ cand \in Store \cup {NoCand}
  /\ draft \in DraftState /\ (draft.on <=> cand # NoCand)
  /\ commitMode \in BOOLEAN /\ gate \in BOOLEAN /\ outside \in BOOLEAN
  /\ write \in Held /\ (write.at = "free" <=> write = Free)
  /\ tails \in [meta : Nat, remove : Nat]
  /\ rolling \in {"no", "save", "meta"}
  /\ saving \in [by : {"none", "write", "roll"}, v : Generation]
  /\ pfile \in PolicyFiles /\ token \in Token
  /\ odd \subseteq {"torn", "restarted", "raced", "swept", "unsaved"}
  /\ chances \in [rollbacks : Nat, crashes : Nat, faults : Nat]

PolicyInit ==
  /\ \E c \in Rules : run = [c |-> c, v |-> 1] /\
       pfile = [rules |-> c, meta |-> 1, draft |-> NoFile, armed |-> TRUE]
  /\ cand = NoCand /\ draft = NoDraft /\ commitMode = TRUE
  /\ write = Free /\ gate = FALSE /\ tails = [meta |-> 0, remove |-> 0]
  /\ rolling = "no" /\ saving = NoSave
  /\ token = [of |-> "running", v |-> 0, c |-> NoRules]
  /\ outside = FALSE /\ odd = {} /\ chances \in PolicyScenarios

files == <<pfile, saving>>
control == <<commitMode, gate, rolling>>

Take(what) == chances[what] > 0 /\ chances' = [chances EXCEPT ![what] = @ - 1]
MayBegin == write = Free /\ ~gate

-----------------------------------------------------------------------------
(* Clients load a rulebase with its version.                               *)

Engaged == commitMode /\ draft.on
Effective == IF Engaged THEN cand ELSE run

\* What a token is compared with when it comes back.
Shown(of) == CASE of = "running" -> run [] of = "effective" -> Effective [] OTHER -> cand

\* GET /api/authpolicy reads the running store, GET /api/policy the effective
\* one and GET /api/policy/draft the candidate, both under c.mu.
Load ==
  /\ \E of \in {"running", "effective", "candidate"} :
       /\ of = "running" \/ write = Free
       /\ of = "candidate" => draft.on
       /\ token' = [of |-> of, v |-> Shown(of).v, c |-> Shown(of).c]
  /\ UNCHANGED <<run, cand, draft, write, tails, outside, odd, chances, files, control>>

-----------------------------------------------------------------------------
(* Edits.                                                                  *)

Bumped(store, c) == [c |-> c, v |-> store.v + 1]

\* Mutant: the running counter stays where it is when a draft ends.
AboveForgotten(v, floor) == v

\* ensureVersionAbove, the retirement of a candidate.
Above(v, floor) == IF v <= floor THEN floor + 1 ELSE v

\* runningMutateLocked: an auth rule at any time, an access rule while Require
\* Commit is off.
EditRunning ==
  /\ MayBegin /\ run.v < MaxPolicy
  /\ \E c \in Rules \ {run.c} : run' = Bumped(run, c)
  /\ write' = [Free EXCEPT !.op = "edit", !.at = "save", !.prev = run.c]
  /\ outside' = TRUE
  /\ UNCHANGED <<cand, draft, tails, token, odd, chances, files, control>>

\* fencedMutateLocked with Require Commit armed: openDraftLocked reads the
\* running version first; with a draft open the candidate is changed at once.
Stage ==
  /\ MayBegin /\ commitMode
  /\ \/ /\ ~draft.on /\ run.v < MaxPolicy
        /\ write' = [Free EXCEPT !.op = "stage", !.at = "fork", !.base = run.v]
        /\ outside' = FALSE /\ UNCHANGED cand
     \/ /\ draft.on /\ cand.v < MaxPolicy
        /\ \E c \in Rules \ {cand.c} : cand' = Bumped(cand, c)
        /\ write' = [Free EXCEPT !.op = "stage", !.at = "settle", !.prev = cand.c]
        /\ UNCHANGED outside
  /\ UNCHANGED <<run, draft, tails, token, odd, chances, files, control>>

\* Mutant: the base is read after the rules were copied.
ForkLate ==
  /\ write.at = "fork"
  /\ \E c \in Rules \ {run.c} : cand' = [c |-> c, v |-> write.base + 1]
  /\ draft' = [on |-> TRUE, base |-> run.v]
  /\ write' = [write EXCEPT !.at = "settle"]
  /\ UNCHANGED <<run, tails, token, outside, odd, chances, files, control>>

\* openDraftLocked copies the running rules and the edit is made, or refused.
Fork ==
  /\ write.at = "fork"
  /\ \/ /\ \E c \in Rules \ {run.c} : cand' = [c |-> c, v |-> write.base + 1]
        /\ draft' = [on |-> TRUE, base |-> write.base]
        /\ write' = [write EXCEPT !.at = "settle"]
     \/ write' = Free /\ UNCHANGED <<cand, draft>>
  /\ UNCHANGED <<run, tails, token, outside, odd, chances, files, control>>

\* Mutant: an edit that cannot be persisted stays (as the legacy persist did).
SettleKeeps ==
  /\ write.at = "settle" /\ write' = Free /\ cand.c # run.c
  /\ \/ pfile' = [pfile EXCEPT !.draft = [c |-> cand.c, base |-> draft.base]] /\ UNCHANGED chances
     \/ Take("faults") /\ UNCHANGED pfile
  /\ UNCHANGED <<run, cand, draft, tails, odd, token, outside, saving, control>>

\* An edit that leaves no difference ends the draft; any other is persisted,
\* or undone if it cannot be.
Settle ==
  /\ write.at = "settle" /\ write' = Free
  /\ \/ /\ cand.c = run.c
        /\ run' = [run EXCEPT !.v = Above(@, cand.v)]
        /\ tails' = [tails EXCEPT !.meta = @ + 1]
        /\ cand' = NoCand /\ draft' = NoDraft
        /\ UNCHANGED <<pfile, odd, chances>>
     \/ /\ cand.c # run.c
        /\ pfile' = [pfile EXCEPT !.draft = [c |-> cand.c, base |-> draft.base]]
        /\ odd' = odd \ {"swept"}
        /\ UNCHANGED <<run, cand, draft, tails, chances>>
     \/ /\ cand.c # run.c /\ Take("faults")
        /\ IF write.prev = NoRules THEN cand' = NoCand /\ draft' = NoDraft
           ELSE cand' = Bumped(cand, write.prev) /\ UNCHANGED draft
        /\ UNCHANGED <<run, pfile, tails, odd>>
  /\ UNCHANGED <<token, outside, saving, control>>

\* A write or a removal whose failure nobody looks at.
Ignored == Take("faults") /\ UNCHANGED pfile

\* After c.mu: the .meta refresh, then the removal of the draft file, which
\* ends a commit or a revert.
Refresh ==
  /\ tails.meta > 0 /\ saving = NoSave
  /\ (pfile' = [pfile EXCEPT !.meta = run.v] /\ UNCHANGED chances) \/ Ignored
  /\ tails' = [meta |-> tails.meta - 1, remove |-> tails.remove + 1]
  /\ UNCHANGED <<run, cand, draft, write, saving, token, outside, odd, control>>

Remove ==
  /\ tails.remove > 0 /\ tails' = [tails EXCEPT !.remove = @ - 1]
  /\ \/ /\ pfile' = [pfile EXCEPT !.draft = NoFile] /\ UNCHANGED chances
        /\ odd' = IF draft.on THEN odd \cup {"swept"} ELSE odd
     \/ Ignored /\ UNCHANGED odd
  /\ gate' = FALSE
  /\ UNCHANGED <<run, cand, draft, write, saving, token, outside, commitMode, rolling>>

-----------------------------------------------------------------------------
(* Commit and revert: writeGate exclusive, so no other write is under way. *)

Exclusive == MayBegin /\ tails.meta = 0 /\ tails.remove = 0 /\ draft.on

\* baseGenerationStale, before commitActivate takes the lock.
CommitCheck ==
  /\ Exclusive /\ run.v = draft.base /\ run.v < MaxPolicy /\ cand.v < MaxPolicy
  /\ gate' = TRUE
  /\ UNCHANGED <<run, cand, draft, write, tails, token, outside, odd, chances, files,
                 commitMode, rolling>>

\* commitActivate: running becomes the candidate.
CommitActivate ==
  /\ gate /\ write = Free /\ draft.on
  /\ write' = [Free EXCEPT !.op = "commit", !.at = "save", !.prev = run.c]
  /\ run' = [c |-> cand.c, v |-> Above(run.v + 1, cand.v)]
  /\ UNCHANGED <<cand, draft, tails, token, outside, odd, chances, files, control>>

Revert ==
  /\ Exclusive /\ cand.v < MaxPolicy /\ gate' = TRUE
  /\ run' = [run EXCEPT !.v = Above(@, cand.v)]
  /\ cand' = NoCand /\ draft' = NoDraft
  /\ tails' = [tails EXCEPT !.meta = @ + 1]
  /\ UNCHANGED <<write, token, outside, odd, chances, files, commitMode, rolling>>

-----------------------------------------------------------------------------
(* Saving the running store: the rules, then .meta, under saveMu.          *)

\* The write is done: a commit clears the draft.
Succeed ==
  /\ write' = Free
  /\ IF write.op = "commit"
     THEN /\ cand' = NoCand /\ draft' = NoDraft
          /\ tails' = [tails EXCEPT !.remove = @ + 1]
     ELSE UNCHANGED <<cand, draft, tails>>
  /\ UNCHANGED <<run, gate>>

\* The write is undone: the rules of before come back, and the draft of a
\* commit moves to their version; saving that is an attempt.
Fail ==
  /\ write' = Free /\ run' = Bumped(run, write.prev) /\ gate' = FALSE
  /\ IF write.op = "commit"
     THEN LET d == [draft EXCEPT !.base = run.v + 1]
          IN /\ draft' = d
             /\ \/ pfile' = [pfile EXCEPT !.draft = [c |-> cand.c, base |-> d.base]]
                \/ UNCHANGED pfile
     ELSE UNCHANGED <<draft, pfile>>
  /\ UNCHANGED <<cand, tails>>

\* The rules are replaced, or replaced with an error (.meta is then skipped),
\* or not replaced.
WriteRules ==
  /\ write.at = "save" /\ saving = NoSave
  /\ \/ /\ pfile' = [pfile EXCEPT !.rules = run.c]
        /\ saving' = [by |-> "write", v |-> run.v]
        /\ write' = [write EXCEPT !.at = "meta"]
        /\ odd' = odd \ {"unsaved"}
        /\ UNCHANGED <<run, cand, draft, gate, tails, chances>>
     \/ /\ Take("faults") /\ pfile' = [pfile EXCEPT !.rules = run.c] /\ Succeed
        /\ odd' = odd \ {"unsaved"} /\ UNCHANGED saving
     \/ Take("faults") /\ Fail /\ UNCHANGED <<saving, odd>>
  /\ UNCHANGED <<token, outside, commitMode, rolling>>

WriteMeta ==
  /\ write.at = "meta" /\ saving' = NoSave /\ Succeed
  /\ (pfile' = [pfile EXCEPT !.meta = saving.v] /\ UNCHANGED chances) \/ Ignored
  /\ UNCHANGED <<token, outside, odd, commitMode, rolling>>

-----------------------------------------------------------------------------
(* Rollback and import: past the gate and c.mu, with a best-effort save.   *)

\* The write in the lock is one of the running store.
Saved == write.op \in {"edit", "commit"}

Rollback ==
  /\ rolling = "no" /\ Take("rollbacks") /\ run.v < MaxPolicy
  /\ \E c \in Rules : run' = Bumped(run, c)
  /\ rolling' = "save" /\ outside' = TRUE
  /\ odd' = IF gate \/ Saved THEN odd \cup {"raced"} ELSE odd
  /\ UNCHANGED <<cand, draft, write, tails, token, files, commitMode, gate>>

RollbackSave ==
  /\ saving = NoSave /\ rolling = "save"
  /\ \/ /\ pfile' = [pfile EXCEPT !.rules = run.c]
        /\ odd' = (odd \ {"unsaved"}) \cup (IF Saved THEN {"raced"} ELSE {})
        /\ saving' = [by |-> "roll", v |-> run.v] /\ rolling' = "meta"
        /\ UNCHANGED chances
     \/ /\ Take("faults") /\ odd' = odd \cup {"unsaved"} /\ rolling' = "no"
        /\ UNCHANGED <<pfile, saving>>
  /\ UNCHANGED <<run, cand, draft, write, tails, token, outside, commitMode, gate>>

RollbackMeta ==
  /\ rolling = "meta" /\ rolling' = "no" /\ saving' = NoSave
  /\ (pfile' = [pfile EXCEPT !.meta = saving.v] /\ UNCHANGED chances) \/ Ignored
  /\ UNCHANGED <<run, cand, draft, write, tails, token, outside, odd, commitMode, gate>>

-----------------------------------------------------------------------------
(* The mode, and a restart.                                                *)

\* PUT /api/policy/draft: disarmed only without a draft.
SetMode ==
  /\ commitMode => write = Free /\ ~draft.on
  /\ commitMode' = ~commitMode
  /\ UNCHANGED <<run, cand, draft, write, tails, token, outside, odd, chances, files,
                 gate, rolling>>

\* adminSettingsSave runs on a goroutine of its own.
SaveMode ==
  /\ pfile.armed # commitMode /\ pfile' = [pfile EXCEPT !.armed = commitMode]
  /\ UNCHANGED <<run, cand, draft, write, tails, saving, token, outside, odd, chances, control>>

\* Load and initPolicyDraft: a pending draft comes back at version 1.  So does
\* one that had ended if its file was not yet removed.
Restart ==
  /\ Take("crashes")
  /\ LET d == pfile.draft
         back == [c |-> pfile.rules, v |-> pfile.meta]
         same == back = run /\ (draft.on => d.base = draft.base)
     IN /\ run' = back
        /\ cand' = IF d = NoFile THEN NoCand ELSE [c |-> d.c, v |-> 1]
        /\ draft' = IF d = NoFile THEN NoDraft ELSE [on |-> TRUE, base |-> d.base]
        /\ odd' = (odd \ {"unsaved", "swept"})
                    \cup (IF same THEN {} ELSE {"torn"})
                    \cup (IF d = NoFile THEN {} ELSE {"restarted"})
        /\ outside' = IF draft.on THEN outside ELSE d.base # back.v
  /\ commitMode' = pfile.armed
  /\ write' = Free /\ gate' = FALSE /\ tails' = [meta |-> 0, remove |-> 0]
  /\ rolling' = "no" /\ saving' = NoSave
  /\ UNCHANGED <<pfile, token>>

-----------------------------------------------------------------------------
PolicyNext ==
  \/ Load \/ EditRunning \/ Stage \/ Fork \/ Settle \/ Refresh \/ Remove
  \/ CommitCheck \/ CommitActivate \/ Revert \/ WriteRules \/ WriteMeta
  \/ Rollback \/ RollbackSave \/ RollbackMeta \/ SetMode \/ SaveMode \/ Restart

PolicySpec == PolicyInit /\ [][PolicyNext]_policyVars

-----------------------------------------------------------------------------
(* Properties.                                                             *)

Never(mishaps) == odd \cap mishaps = {}

\* "a stale vN assertion conflicts deterministically" (fencedMutate): a version
\* a client was once shown is the current one only if the content it was shown
\* is the current content, across forks, retirements, failed writes undone,
\* commits and rollbacks.  A restart that recovers an older version than was
\* shown, or that reloads a draft (at version 1), is the exception.
TokensHonest ==
  (Never({"torn", "restarted"}) /\ write = Free /\ (token.of = "candidate" => draft.on)
     /\ token.v = Shown(token.of).v) => token.c = Shown(token.of).c

\* "Commit fails closed in that case rather than clobber the out-of-band
\* change": a commit replaces no rules that were put in place past the draft,
\* except by a rollback that lands after the check (README, section 3.3).
NoClobber ==
  [][(write.op # "commit" /\ write'.op = "commit" /\ Never({"torn", "raced"}))
       => ~outside]_policyVars

\* What was acknowledged survives a restart: between writes the draft file
\* holds the candidate and policy.json the running rules, whatever writes
\* failed.  The exceptions: a removal left over from an earlier draft, a
\* rollback that could not be saved, or that came within another write.
AckedDurable ==
  write = Free =>
    /\ draft.on /\ Never({"swept"}) => pfile.draft.c = cand.c
    /\ rolling = "no" /\ Never({"unsaved", "raced"}) => pfile.rules = run.c

=============================================================================
