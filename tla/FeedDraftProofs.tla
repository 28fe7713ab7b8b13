--------------------------- MODULE FeedDraftProofs ---------------------------
(***************************************************************************)
(* Proofs about the two parts of a node that must come back from a crash   *)
(* with what they had promised: the signed category feed (SaaSFeed) and    *)
(* the policy store with its draft (PolicyDraft).                          *)
(*                                                                         *)
(* SaaSFeed.  Each of the two floor records that can be read is at least   *)
(* what was served and at least the activation record, and not both are    *)
(* unreadable; a transaction that has come past its floor writes has both  *)
(* at its version.  The activation record that can be read is at least     *)
(* what was served, so nothing that is served from it goes back.           *)
(*                                                                         *)
(* PolicyDraft.  A version shown is at most its counter, and equal to it   *)
(* only with the content shown; a candidate begins above, and ends below,  *)
(* the running counter, which needs to be known of the operation in the    *)
(* lock as well.  The files are at most that one operation behind.         *)
(***************************************************************************)
EXTENDS SaaSFeed, PolicyDraft, TLAPS

-----------------------------------------------------------------------------
(* SaaSFeed: the inductive invariant.                                      *)

\* No generation directory is damaged.
Whole == \A v \in 1..MaxFeed : gen[v] # "damaged"

\* The records.
RecordInv ==
  /\ file.a # Damaged \/ file.b # Damaged
  /\ file.a # Damaged => file.a >= peak /\ (file.act # Damaged => file.a >= file.act)
  /\ file.b # Damaged => file.b >= peak /\ (file.act # Damaged => file.b >= file.act)
  /\ file.act # Damaged => file.act >= peak
  /\ file.act > 0 => gen[file.act] # "none"

\* The transaction: what it is about to serve, and what it has recorded of it.
JobInv ==
  /\ job.at \in {"down", "idle", "boot"} => job.op = "none"
  /\ job.at = "lkg" => job.op # "activate"
  /\ job.at \in {"build", "floorA", "floorB", "check", "commit"} =>
       /\ job.op \in {"activate", "resume", "raise"} /\ job.v > 0 /\ job.v >= peak
       /\ file.act # Damaged => job.v >= file.act
       /\ job.op # "raise" => gen[job.v] # "none"
  /\ job.at \in {"check", "commit"} => job.op # "raise"
  /\ job.at \in {"check", "commit", "swap"} =>
       /\ file.a # Damaged => file.a >= job.v
       /\ file.b # Damaged => file.b >= job.v
  /\ job.at = "swap" => /\ job.op # "none" /\ (job.v = 0 \/ job.v >= peak)
                        /\ file.act # Damaged => file.act >= job.v

\* The overrides: an edit that a view may lack still owes its rebuild.
RevInv ==
  ~owed =>
    /\ job.op # "none" => job.rev = rev
    /\ (Whole /\ (job.at = "idle" \/ job.op = "activate")) => view.rev = rev

FeedInv == FeedTypeOK /\ RecordInv /\ JobInv /\ RevInv

-----------------------------------------------------------------------------
(* The records and what changes them.                                      *)

\* The greatest of three numbers.
LEMMA MaxOfThree ==
  ASSUME NEW x \in Int, NEW y \in Int
  PROVE  Max({0, x, y}) \in {0, x, y} /\ \A z \in {0, x, y} : Max({0, x, y}) >= z
<1>1. \E m \in {0, x, y} : \A z \in {0, x, y} : m >= z
  OBVIOUS
<1> QED
  BY <1>1 DEF Max

\* The floor is the greatest record that can be read.
LEMMA FloorFacts ==
  ASSUME file \in Files
  PROVE  /\ Floor(file) \in FeedVersion /\ Floor(file) \in {0, file.a, file.b}
         /\ Floor(file) >= file.a /\ Floor(file) >= file.b
<1>1. /\ file.a \in FeedVersion \cup {-1} /\ file.b \in FeedVersion \cup {-1}
      /\ 0 \in FeedVersion /\ \A x \in FeedVersion : x \in Int /\ x >= 0
  BY FeedAssumption DEF Files, FeedRecord, FeedVersion, Damaged
<1>2. /\ Max({0, file.a, file.b}) \in {0, file.a, file.b}
      /\ \A z \in {0, file.a, file.b} : Max({0, file.a, file.b}) >= z
  <2>1. file.a \in Int /\ file.b \in Int
    BY <1>1
  <2> QED
    BY <2>1, MaxOfThree
<1>3. Floor(file) >= 0 /\ Floor(file) \in FeedVersion \cup {-1}
  BY <1>1, <1>2 DEF Floor
<1> QED
  BY <1>1, <1>2, <1>3 DEF Floor

\* The fields of the records.
LEMMA FilesFacts ==
  ASSUME file \in Files
  PROVE  /\ file.a \in FeedVersion \cup {Damaged} /\ file.b \in FeedVersion \cup {Damaged}
         /\ file.act \in FeedVersion \cup {Damaged} /\ file.tag \in FeedVersion
         /\ Damaged = -1 /\ 0 \in FeedVersion /\ \A x \in FeedVersion : x \in Int /\ x >= 0 /\ x <= MaxFeed
         /\ \A x \in FeedVersion : x > 0 => x \in 1..MaxFeed
         /\ MaxFeed \in Nat /\ Active \in FeedVersion
         /\ file.act # Damaged => Active = file.act
         /\ file.act = Damaged => Active = 0
BY FeedAssumption DEF Files, FeedRecord, FeedVersion, Damaged, Active

\* The fields of the transaction.
LEMMA JobFacts ==
  ASSUME job \in Job
  PROVE  /\ job.op \in {"none", "activate", "resume", "raise", "serve", "rebuild"}
         /\ job.at \in Stages /\ job.v \in FeedVersion /\ job.rev \in Nat
         /\ job.tries \in 0..(Attempts - 1) /\ job.tries \in Int
BY FeedAssumption DEF Job

\* Ways to go on.
LEMMA StartFacts ==
  ASSUME FeedTypeOK, NEW op \in {"activate", "resume", "raise", "serve", "rebuild"}, NEW at \in Stages,
         NEW v \in FeedVersion, Start(op, at, v)
  PROVE  job' \in Job /\ job'.op = op /\ job'.at = at /\ job'.v = v /\ job'.rev = rev
<1>1. 0 \in 0..(Attempts - 1)
  BY FeedAssumption
<1>2. rev \in Nat
  BY DEF FeedTypeOK
<1>3. job' = [op |-> op, at |-> at, v |-> v, rev |-> rev, tries |-> 0]
  BY DEF Start
<1> QED
  BY <1>1, <1>2, <1>3 DEF Job

\* It goes on, or is over.
LEMMA GotoFacts ==
  ASSUME job \in Job, NEW at \in Stages, Goto(at)
  PROVE  job' \in Job /\ job'.op = job.op /\ job'.at = at /\ job'.v = job.v /\ job'.rev = job.rev
BY DEF Goto, Job

\* No transaction.
LEMMA IdleFacts == Idle \in Job /\ Idle.op = "none" /\ Idle.at = "idle"
<1>1. 0 \in 0..(Attempts - 1) /\ 0 \in FeedVersion
  BY FeedAssumption DEF FeedVersion
<1> QED
  BY <1>1 DEF Idle, Job, Stages

\* The floor is at least what was served and what is recorded as active.
LEMMA FloorCovers ==
  ASSUME FeedInv
  PROVE  /\ Floor(file) \in FeedVersion /\ Floor(file) \in Int /\ Floor(file) >= peak
         /\ file.act # Damaged => Floor(file) >= file.act
<1>1. /\ file \in Files /\ peak \in Int /\ file.a \in Int /\ file.b \in Int /\ file.act \in Int
  BY FilesFacts DEF FeedInv, FeedTypeOK
<1>2. Floor(file) \in FeedVersion /\ Floor(file) \in Int /\ Floor(file) >= file.a /\ Floor(file) >= file.b
  BY <1>1, FloorFacts, FilesFacts
<1>3. CASE file.a # Damaged
  BY <1>1, <1>2, <1>3 DEF FeedInv, RecordInv
<1>4. CASE file.b # Damaged
  BY <1>1, <1>2, <1>4 DEF FeedInv, RecordInv
<1> QED
  BY <1>3, <1>4 DEF FeedInv, RecordInv

\* What is recorded as active, if anything, can be served without going back.
LEMMA ActiveCovers ==
  ASSUME FeedInv
  PROVE  /\ Active \in FeedVersion /\ Active \in Int /\ (Active = 0 \/ Active >= peak)
         /\ file.a # Damaged => file.a >= Active
         /\ file.b # Damaged => file.b >= Active
         /\ file.act # Damaged => file.act = Active
         /\ Active > 0 => Active \in 1..MaxFeed /\ gen[Active] # "none"
<1>1. /\ file \in Files /\ peak \in Int /\ Active \in FeedVersion /\ Active \in Int /\ Active >= 0
      /\ \A x \in FeedVersion : x \in Int /\ x >= 0
      /\ file.a \in FeedVersion \cup {Damaged} /\ file.b \in FeedVersion \cup {Damaged}
      /\ Active > 0 => Active \in 1..MaxFeed
      /\ file.act # Damaged => Active = file.act
      /\ file.act = Damaged => Active = 0
  BY FilesFacts DEF FeedInv, FeedTypeOK
<1>2. CASE file.act = Damaged
  <2>1. Active = 0
    BY <1>1, <1>2
  <2>2. (file.a # Damaged => file.a >= Active) /\ (file.b # Damaged => file.b >= Active)
    BY <1>1, <2>1
  <2> QED
    BY <1>1, <1>2, <2>1, <2>2
<1>3. CASE file.act # Damaged
  BY <1>1, <1>3 DEF FeedInv, RecordInv
<1> QED
  BY <1>2, <1>3

\* An error leaves nothing to serve: idle, or about to serve what is recorded.
LEMMA GiveUpFacts ==
  ASSUME FeedTypeOK, GiveUp
  PROVE  /\ job' \in Job /\ got' \in FeedVersion
         /\ \/ job.op = "activate" /\ job'.op = "none" /\ job'.at = "idle"
            \/ job.op # "activate" /\ job'.op = job.op /\ job'.at = "lkg" /\ job'.rev = job.rev
<1>1. job \in Job /\ got \in FeedVersion /\ 0 \in FeedVersion /\ "lkg" \in Stages
  BY FeedAssumption DEF FeedTypeOK, FeedVersion, Stages
<1>2. CASE job.op = "activate"
  BY <1>1, <1>2, IdleFacts DEF GiveUp
<1>3. CASE job.op # "activate"
  BY <1>1, <1>3, GotoFacts DEF GiveUp
<1> QED
  BY <1>2, <1>3

\* What is left of the scenario.
LEMMA UseFacts ==
  ASSUME FeedTypeOK, NEW what \in {"crashes", "faults", "damage", "edits"}, Use(what)
  PROVE  spare' \in [crashes : Nat, faults : Nat, damage : Nat, edits : Nat]
<1>1. spare \in [crashes : Nat, faults : Nat, damage : Nat, edits : Nat] /\ spare[what] > 0
  BY DEF FeedTypeOK, Use
<1>2. spare[what] - 1 \in Nat
  BY <1>1
<1>3. spare' = [spare EXCEPT ![what] = spare[what] - 1]
  BY DEF Use
<1> QED
  BY <1>1, <1>2, <1>3

-----------------------------------------------------------------------------
(* SaaSFeed: every step keeps the invariant.                               *)

\* The publisher touches nothing of the node.
LEMMA PublishKeeps ==
  ASSUME FeedInv, Publish
  PROVE  FeedInv'
<1>1. /\ pub' = pub + 1 /\ pub < MaxFeed /\ gen' = gen /\ file' = file /\ view' = view /\ job' = job
      /\ got' = got /\ etag' = etag /\ rev' = rev /\ owed' = owed /\ peak' = peak /\ spare' = spare
  BY DEF Publish
<1>2. FeedTypeOK'
  BY <1>1, FeedAssumption DEF FeedInv, FeedTypeOK, FeedVersion
<1>3. RecordInv'
  BY <1>1, FilesFacts DEF FeedInv, FeedTypeOK, RecordInv
<1>4. JobInv'
  BY <1>1, FilesFacts, JobFacts DEF FeedInv, FeedTypeOK, RecordInv, JobInv
<1>5. RevInv'
  BY <1>1, JobFacts DEF FeedInv, FeedTypeOK, RevInv, JobInv, Whole
<1> QED
  BY <1>2, <1>3, <1>4, <1>5 DEF FeedInv

\* A fetched generation is intact; a damaged one is not touched.
LEMMA FetchKeeps ==
  ASSUME FeedInv, NEW v \in 1..pub, NEW c \in BOOLEAN, Fetch(v, c)
  PROVE  FeedInv'
<1>1. /\ pub' = pub /\ gen' = [gen EXCEPT ![v] = "ok"] /\ file' = file /\ view' = view /\ job' = job
      /\ got' = v /\ etag' = etag /\ rev' = rev /\ owed' = owed /\ peak' = peak /\ spare' = spare
      /\ v \in 1..MaxFeed /\ v \in FeedVersion /\ gen[v] # "damaged"
  BY FeedAssumption DEF Fetch, FeedInv, FeedTypeOK, FeedVersion
<1>2. FeedTypeOK'
  BY <1>1, FilesFacts DEF FeedInv, FeedTypeOK
<1>3. RecordInv'
  BY <1>1, FilesFacts DEF FeedInv, FeedTypeOK, RecordInv
<1>4. JobInv'
  BY <1>1, FilesFacts, JobFacts DEF FeedInv, FeedTypeOK, RecordInv, JobInv
<1>5. RevInv'
  BY <1>1, JobFacts DEF FeedInv, FeedTypeOK, RevInv, JobInv, Whole
<1> QED
  BY <1>2, <1>3, <1>4, <1>5 DEF FeedInv

\* An activation starts above the floor, or the acquired generation is dropped.
LEMMA ActivateKeeps ==
  ASSUME FeedInv, Activate
  PROVE  FeedInv'
<1>1. /\ pub' = pub /\ gen' = gen /\ file' = file /\ view' = view /\ got' \in FeedVersion
      /\ etag' = etag /\ rev' = rev /\ owed' = owed /\ peak' = peak /\ spare' = spare
      /\ job' \in Job /\ job.at = "idle"
      /\ \/ job' = job
         \/ /\ job'.op = "activate" /\ job'.at = "build" /\ job'.v = got /\ job'.rev = rev
            /\ Intact(got) /\ got > Floor(file)
  BY StartFacts, FilesFacts DEF Activate, FeedInv, FeedTypeOK, Stages
<1>a. /\ Floor(file) \in FeedVersion /\ Floor(file) \in Int /\ Floor(file) >= peak
      /\ file.act # Damaged => Floor(file) >= file.act
  BY FloorCovers
<1>b. gen[got] # "none" \/ ~Intact(got)
  BY DEF Intact
<1>2. FeedTypeOK'
  BY <1>1, FilesFacts DEF FeedInv, FeedTypeOK
<1>3. RecordInv'
  BY <1>1, FilesFacts DEF FeedInv, FeedTypeOK, RecordInv
<1>4. JobInv'
  <2>1. CASE job' = job
    BY <1>1, <2>1 DEF FeedInv, JobInv
  <2>2. CASE job' # job
    <3>1. /\ got \in Int /\ got > 0 /\ gen[got] # "none" /\ peak \in Int
          /\ file.act # Damaged => file.act \in Int
      BY <1>1, <1>b, <2>2, FilesFacts DEF FeedInv, FeedTypeOK, Intact
    <3>2. got >= peak /\ (file.act # Damaged => got >= file.act)
      BY <1>1, <1>a, <2>2, <3>1
    <3> QED
      BY <1>1, <2>2, <3>1, <3>2 DEF JobInv
  <2> QED
    BY <2>1, <2>2
<1>5. RevInv'
  BY <1>1, JobFacts DEF FeedInv, FeedTypeOK, RevInv, JobInv, Whole
<1> QED
  BY <1>2, <1>3, <1>4, <1>5 DEF FeedInv

\* The view is built from the overrides of this moment.
LEMMA BuildViewKeeps ==
  ASSUME FeedInv, BuildView
  PROVE  FeedInv'
<1>1. /\ pub' = pub /\ gen' = gen /\ file' = file /\ view' = view /\ got' = got
      /\ etag' = etag /\ rev' = rev /\ owed' = owed /\ peak' = peak /\ spare' = spare
      /\ job' \in Job /\ job.at = "build"
      /\ job'.op = job.op /\ job'.at = "floorA" /\ job'.v = job.v /\ job'.rev = rev
  BY DEF BuildView, FeedInv, FeedTypeOK, Job, Stages
<1>2. FeedTypeOK'
  BY <1>1, FilesFacts DEF FeedInv, FeedTypeOK
<1>3. RecordInv'
  BY <1>1, FilesFacts DEF FeedInv, FeedTypeOK, RecordInv
<1>4. JobInv'
  BY <1>1, FilesFacts, JobFacts DEF FeedInv, FeedTypeOK, RecordInv, JobInv
<1>5. RevInv'
  BY <1>1, JobFacts DEF FeedInv, FeedTypeOK, RevInv, JobInv, Whole
<1> QED
  BY <1>2, <1>3, <1>4, <1>5 DEF FeedInv

\* A changed override revision is taken up, or ends the transaction.
LEMMA CheckKeeps ==
  ASSUME FeedInv, Check
  PROVE  FeedInv'
<1>1. /\ pub' = pub /\ gen' = gen /\ file' = file /\ view' = view /\ got' \in FeedVersion
      /\ etag' = etag /\ rev' = rev /\ owed' = owed /\ peak' = peak /\ spare' = spare
      /\ job' \in Job /\ job.at = "check"
      /\ \/ job'.op = job.op /\ job'.at = "commit" /\ job'.v = job.v /\ job'.rev = job.rev
         \/ job'.op = job.op /\ job'.at = "check" /\ job'.v = job.v /\ job'.rev = rev
         \/ job.op = "activate" /\ job'.op = "none" /\ job'.at = "idle"
         \/ job.op # "activate" /\ job'.op = job.op /\ job'.at = "lkg" /\ job'.rev = job.rev
  <2>1. /\ pub' = pub /\ gen' = gen /\ file' = file /\ view' = view /\ got \in FeedVersion
        /\ etag' = etag /\ rev' = rev /\ owed' = owed /\ peak' = peak /\ spare' = spare
        /\ job \in Job /\ job.at = "check" /\ FeedTypeOK /\ "commit" \in Stages
    BY DEF Check, FeedInv, FeedTypeOK, Stages
  <2>2. CASE Goto("commit") /\ UNCHANGED got
    BY <2>1, <2>2, GotoFacts
  <2>3. CASE /\ rev # job.rev /\ job.tries < Attempts - 1
             /\ job' = [job EXCEPT !.rev = rev, !.tries = @ + 1] /\ UNCHANGED got
    <3>1. job.tries + 1 \in 0..(Attempts - 1) /\ rev \in Nat
      BY <2>1, <2>3, JobFacts, FeedAssumption DEF FeedTypeOK
    <3>2. job' \in Job /\ job'.op = job.op /\ job'.at = job.at /\ job'.v = job.v /\ job'.rev = rev
      BY <2>1, <2>3, <3>1 DEF Job
    <3> QED
      BY <2>1, <2>3, <3>2
  <2>4. CASE GiveUp
    BY <2>1, <2>4, GiveUpFacts
  <2> QED
    BY <2>2, <2>3, <2>4 DEF Check
<1>2. FeedTypeOK'
  BY <1>1, FilesFacts DEF FeedInv, FeedTypeOK
<1>3. RecordInv'
  BY <1>1, FilesFacts DEF FeedInv, FeedTypeOK, RecordInv
<1>4. JobInv'
  BY <1>1, FilesFacts, JobFacts DEF FeedInv, FeedTypeOK, RecordInv, JobInv
<1>5. RevInv'
  BY <1>1, JobFacts DEF FeedInv, FeedTypeOK, RevInv, JobInv, Whole
<1> QED
  BY <1>2, <1>3, <1>4, <1>5 DEF FeedInv

\* The cutover: the version is in every floor record that can be read.
LEMMA SwapKeeps ==
  ASSUME FeedInv, Swap
  PROVE  FeedInv'
<1>1. /\ pub' = pub /\ gen' = gen /\ file' = file /\ got' \in FeedVersion
      /\ rev' = rev /\ owed' = owed /\ spare' = spare /\ job.at = "swap"
      /\ job' \in Job /\ job'.op = "none" /\ job'.at = "idle"
      /\ view' = [ver |-> job.v, rev |-> job.rev] /\ etag' \in FeedVersion
      /\ job \in Job /\ peak' \in FeedVersion /\ peak' \in {peak, job.v} /\ peak' >= peak
  <2>1. /\ pub' = pub /\ gen' = gen /\ file' = file /\ rev' = rev /\ owed' = owed /\ spare' = spare
        /\ job.at = "swap" /\ job' = Idle /\ view' = [ver |-> job.v, rev |-> job.rev]
        /\ peak' = Max({peak, job.v}) /\ job \in Job /\ peak \in FeedVersion
        /\ got \in FeedVersion /\ etag \in FeedVersion /\ file \in Files
    BY DEF Swap, FeedInv, FeedTypeOK
  <2>2. job.v \in FeedVersion /\ job.v \in Int /\ peak \in Int /\ file.tag \in FeedVersion /\ 0 \in FeedVersion
    BY <2>1, JobFacts, FilesFacts
  <2>3. got' \in FeedVersion /\ etag' \in FeedVersion
    BY <2>1, <2>2 DEF Swap
  <2>4. peak' \in {peak, job.v} /\ peak' >= peak
    <3>1. \E m \in {peak, job.v} : \A z \in {peak, job.v} : m >= z
      BY <2>2
    <3>2. Max({peak, job.v}) \in {peak, job.v} /\ \A z \in {peak, job.v} : Max({peak, job.v}) >= z
      BY <3>1 DEF Max
    <3> QED
      BY <2>1, <3>2
  <2> QED
    BY <2>1, <2>2, <2>3, <2>4, IdleFacts
<1>2. FeedTypeOK'
  BY <1>1, FilesFacts, JobFacts DEF FeedInv, FeedTypeOK
<1>3. RecordInv'
  BY <1>1, FilesFacts, JobFacts DEF FeedInv, FeedTypeOK, RecordInv, JobInv
<1>4. JobInv'
  BY <1>1, FilesFacts, JobFacts DEF FeedInv, FeedTypeOK, RecordInv, JobInv
<1>5. RevInv'
  BY <1>1, JobFacts DEF FeedInv, FeedTypeOK, RevInv, JobInv, Whole
<1> QED
  BY <1>2, <1>3, <1>4, <1>5 DEF FeedInv

\* An edit owes a rebuild.
LEMMA EditKeeps ==
  ASSUME FeedInv, Edit
  PROVE  FeedInv'
<1>1. /\ pub' = pub /\ gen' = gen /\ file' = file /\ view' = view /\ job' = job /\ got' = got
      /\ etag' = etag /\ rev' = rev + 1 /\ owed' = TRUE /\ peak' = peak
      /\ spare' \in [crashes : Nat, faults : Nat, damage : Nat, edits : Nat]
  BY UseFacts DEF Edit, FeedInv
<1>2. FeedTypeOK'
  BY <1>1, FilesFacts DEF FeedInv, FeedTypeOK
<1>3. RecordInv'
  BY <1>1, FilesFacts DEF FeedInv, FeedTypeOK, RecordInv
<1>4. JobInv'
  BY <1>1, FilesFacts, JobFacts DEF FeedInv, FeedTypeOK, RecordInv, JobInv
<1>5. RevInv'
  BY <1>1, JobFacts DEF FeedInv, FeedTypeOK, RevInv, JobInv, Whole
<1> QED
  BY <1>2, <1>3, <1>4, <1>5 DEF FeedInv

\* A rebuild starts from the record; only a damaged generation leaves the view.
LEMMA RebuildKeeps ==
  ASSUME FeedInv, Rebuild
  PROVE  FeedInv'
<1>1. /\ pub' = pub /\ gen' = gen /\ file' = file /\ view' = view /\ got' = got
      /\ etag' = etag /\ rev' = rev /\ owed' = FALSE /\ peak' = peak /\ spare' = spare
      /\ job' \in Job /\ job.at = "idle"
      /\ \/ job'.op = "rebuild" /\ job'.at = "swap" /\ job'.v = Active /\ job'.rev = rev
         \/ job' = job /\ Active # 0 /\ ~Intact(Active)
  BY StartFacts, FilesFacts DEF Rebuild, FeedInv, FeedTypeOK, Stages
<1>a. job' = job => ~Whole
  <2>1. job.op = "none"
    BY <1>1 DEF FeedInv, JobInv
  <2>2. job' = job => Active # 0 /\ ~Intact(Active)
    BY <1>1, <2>1
  <2>3. job' = job => Active \in 1..MaxFeed /\ gen[Active] \notin {"none", "ok"}
    BY <2>2, ActiveCovers, FilesFacts DEF Intact, FeedInv, FeedTypeOK
  <2> QED
    BY <2>3 DEF Whole, FeedInv, FeedTypeOK
<1>2. FeedTypeOK'
  BY <1>1, FilesFacts DEF FeedInv, FeedTypeOK
<1>3. RecordInv'
  BY <1>1, FilesFacts DEF FeedInv, FeedTypeOK, RecordInv
<1>4. JobInv'
  <2>1. CASE job' = job
    BY <1>1, <2>1 DEF FeedInv, JobInv
  <2>2. CASE job' # job
    BY <1>1, <2>2, ActiveCovers DEF JobInv
  <2> QED
    BY <2>1, <2>2
<1>5. RevInv'
  BY <1>1, <1>a, JobFacts DEF FeedInv, FeedTypeOK, RevInv, JobInv, Whole
<1> QED
  BY <1>2, <1>3, <1>4, <1>5 DEF FeedInv

\* A crash loses the view and what was under way.
LEMMA FeedCrashKeeps ==
  ASSUME FeedInv, FeedCrash
  PROVE  FeedInv'
<1>1. /\ pub' = pub /\ gen' = gen /\ file' = file /\ view' = [ver |-> 0, rev |-> 0] /\ got' = 0
      /\ etag' = 0 /\ rev' = rev /\ owed' = FALSE /\ peak' = peak
      /\ spare' \in [crashes : Nat, faults : Nat, damage : Nat, edits : Nat]
      /\ job' \in Job /\ job'.at = "down" /\ job'.op = "none"
  <2>1. [Idle EXCEPT !.at = "down"] \in Job /\ [Idle EXCEPT !.at = "down"].at = "down" /\ [Idle EXCEPT !.at = "down"].op = "none"
    BY IdleFacts DEF Job, Stages
  <2> QED
    BY <2>1, UseFacts DEF FeedCrash, FeedInv
<1>2. FeedTypeOK'
  BY <1>1, FilesFacts DEF FeedInv, FeedTypeOK
<1>3. RecordInv'
  BY <1>1, FilesFacts DEF FeedInv, FeedTypeOK, RecordInv
<1>4. JobInv'
  BY <1>1, FilesFacts, JobFacts DEF FeedInv, FeedTypeOK, RecordInv, JobInv
<1>5. RevInv'
  BY <1>1, JobFacts DEF FeedInv, FeedTypeOK, RevInv, JobInv, Whole
<1> QED
  BY <1>2, <1>3, <1>4, <1>5 DEF FeedInv

\* The process starts.
LEMMA FeedStartKeeps ==
  ASSUME FeedInv, FeedStart
  PROVE  FeedInv'
<1>1. /\ pub' = pub /\ gen' = gen /\ file' = file /\ view' = view /\ got' = got
      /\ etag' = etag /\ rev' = rev /\ owed' = owed /\ peak' = peak /\ spare' = spare
      /\ job' \in Job /\ job.at = "down" /\ job'.op = job.op /\ job'.at = "boot"
  BY GotoFacts DEF FeedStart, FeedInv, FeedTypeOK, Stages
<1>2. FeedTypeOK'
  BY <1>1, FilesFacts DEF FeedInv, FeedTypeOK
<1>3. RecordInv'
  BY <1>1, FilesFacts DEF FeedInv, FeedTypeOK, RecordInv
<1>4. JobInv'
  BY <1>1, FilesFacts, JobFacts DEF FeedInv, FeedTypeOK, RecordInv, JobInv
<1>5. RevInv'
  BY <1>1, JobFacts DEF FeedInv, FeedTypeOK, RevInv, JobInv, Whole
<1> QED
  BY <1>2, <1>3, <1>4, <1>5 DEF FeedInv

\* Recovery resumes what the floor is ahead by, or serves what is recorded.
LEMMA RecoverKeeps ==
  ASSUME FeedInv, Recover
  PROVE  FeedInv'
<1>1. /\ pub' = pub /\ gen' = gen /\ file' = file /\ view' = view /\ got' = got
      /\ etag' = etag /\ rev' = rev /\ owed' = owed /\ peak' = peak /\ spare' = spare
      /\ job' \in Job /\ job.at = "boot"
      /\ \/ job'.op = "raise" /\ job'.at = "floorA" /\ job'.v = Active /\ job'.rev = rev /\ Active > Floor(file)
         \/ /\ job'.op = "resume" /\ job'.at = "build" /\ job'.v = Floor(file) /\ job'.rev = rev
            /\ Floor(file) > Active /\ Intact(Floor(file))
         \/ job'.op = job.op /\ job'.at = "lkg" /\ job'.rev = job.rev
  <2>1. /\ pub' = pub /\ gen' = gen /\ file' = file /\ view' = view /\ got' = got
        /\ etag' = etag /\ rev' = rev /\ owed' = owed /\ peak' = peak /\ spare' = spare
        /\ job.at = "boot"
    BY DEF Recover
  <2>2. /\ FeedTypeOK /\ job \in Job /\ {"floorA", "build", "lkg"} \subseteq Stages
        /\ Floor(file) \in FeedVersion
    BY FloorFacts DEF FeedInv, FeedTypeOK, Stages
  <2>3. CASE Active > Floor(file)
    <3>1. Active = file.act /\ Active \in FeedVersion /\ ~(Floor(file) > Active)
      BY <2>2, <2>3, FilesFacts DEF FeedTypeOK
    <3>2. Start("raise", "floorA", Active)
      BY <2>3, <3>1 DEF Recover
    <3>3. job' \in Job /\ job'.op = "raise" /\ job'.at = "floorA" /\ job'.v = Active /\ job'.rev = rev
      BY <2>2, <3>1, <3>2, StartFacts
    <3> QED
      BY <2>1, <2>3, <3>3
  <2>4. CASE Floor(file) > Active /\ Intact(Floor(file))
    <3>1. ~(Active > Floor(file))
      BY <2>2, <2>4, FilesFacts DEF FeedTypeOK
    <3>2. Start("resume", "build", Floor(file))
      BY <2>4, <3>1 DEF Recover
    <3>3. /\ job' \in Job /\ job'.op = "resume" /\ job'.at = "build" /\ job'.v = Floor(file)
          /\ job'.rev = rev
      BY <2>2, <3>2, StartFacts
    <3> QED
      BY <2>1, <2>4, <3>3
  <2>5. CASE ~(Active > Floor(file)) /\ ~(Floor(file) > Active /\ Intact(Floor(file)))
    <3>1. Goto("lkg")
      BY <2>5 DEF Recover
    <3>2. job' \in Job /\ job'.op = job.op /\ job'.at = "lkg" /\ job'.rev = job.rev
      BY <2>2, <3>1, GotoFacts
    <3> QED
      BY <2>1, <3>2
  <2> QED
    BY <2>3, <2>4, <2>5
<1>a. /\ Floor(file) \in FeedVersion /\ Floor(file) \in Int /\ Floor(file) >= peak
      /\ file.act # Damaged => Floor(file) >= file.act
  BY FloorCovers
<1>b. gen[Floor(file)] # "none" \/ ~Intact(Floor(file))
  BY DEF Intact
<1>2. FeedTypeOK'
  BY <1>1, FilesFacts DEF FeedInv, FeedTypeOK
<1>3. RecordInv'
  BY <1>1, FilesFacts DEF FeedInv, FeedTypeOK, RecordInv
<1>4. JobInv'
  <2>1. CASE job'.op = "raise" /\ job'.at = "floorA"
    <3>1. job'.v = Active /\ Active \in Int /\ Active > 0 /\ Active >= peak
      BY <1>1, <1>a, <2>1, ActiveCovers, FilesFacts DEF FeedInv, FeedTypeOK, JobInv
    <3>2. file.act # Damaged => Active >= file.act
      BY <3>1, ActiveCovers
    <3> QED
      BY <1>1, <2>1, <3>1, <3>2 DEF JobInv
  <2>2. CASE job'.op = "resume" /\ job'.at = "build"
    <3>1. job'.v = Floor(file) /\ gen[Floor(file)] # "none" /\ Floor(file) > 0
      BY <1>1, <1>b, <2>2 DEF Intact, FeedInv, JobInv
    <3> QED
      BY <1>1, <1>a, <2>2, <3>1 DEF JobInv
  <2>3. CASE job'.op = job.op /\ job'.at = "lkg"
    BY <1>1, <2>3 DEF FeedInv, JobInv
  <2> QED
    BY <1>1, <2>1, <2>2, <2>3
<1>5. RevInv'
  BY <1>1, JobFacts DEF FeedInv, FeedTypeOK, RevInv, JobInv, Whole
<1> QED
  BY <1>2, <1>3, <1>4, <1>5 DEF FeedInv

\* What is recorded is served, or the embedded baseline.
LEMMA ServeLKGKeeps ==
  ASSUME FeedInv, ServeLKG
  PROVE  FeedInv'
<1>1. /\ pub' = pub /\ gen' = gen /\ file' = file /\ view' = view /\ got' = got
      /\ etag' = etag /\ rev' = rev /\ owed' = owed /\ peak' = peak /\ spare' = spare
      /\ job' \in Job /\ job.at = "lkg" /\ job'.op = "serve" /\ job'.at = "swap"
      /\ job'.v \in {0, Active} /\ job'.rev = rev
  BY StartFacts, FilesFacts DEF ServeLKG, FeedInv, FeedTypeOK, Stages
<1>a. /\ file.a # Damaged => file.a >= 0
      /\ file.b # Damaged => file.b >= 0
      /\ file.act # Damaged => file.act >= 0
  BY FilesFacts DEF FeedInv, FeedTypeOK
<1>2. FeedTypeOK'
  BY <1>1, FilesFacts DEF FeedInv, FeedTypeOK
<1>3. RecordInv'
  BY <1>1, FilesFacts DEF FeedInv, FeedTypeOK, RecordInv
<1>4. JobInv'
  BY <1>1, <1>a, FilesFacts, ActiveCovers DEF JobInv
<1>5. RevInv'
  BY <1>1, JobFacts DEF FeedInv, FeedTypeOK, RevInv, JobInv, Whole
<1> QED
  BY <1>2, <1>3, <1>4, <1>5 DEF FeedInv

\* A write fails with the old or the new content, and the transaction ends.
LEMMA WriteFails ==
  ASSUME FeedTypeOK, Use("faults"), GiveUp
  PROVE  /\ spare' \in [crashes : Nat, faults : Nat, damage : Nat, edits : Nat]
         /\ got' \in FeedVersion /\ job' \in Job
         /\ \/ job.op = "activate" /\ job'.op = "none" /\ job'.at = "idle"
            \/ job.op # "activate" /\ job'.op = job.op /\ job'.at = "lkg" /\ job'.rev = job.rev
BY UseFacts, GiveUpFacts

\* The first floor record.
LEMMA FloorAKeeps ==
  ASSUME FeedInv, FloorA
  PROVE  FeedInv'
<1>1. /\ job.at = "floorA" /\ job \in Job /\ file' \in Files
      /\ pub' = pub /\ gen' = gen /\ view' = view /\ etag' = etag /\ rev' = rev /\ owed' = owed
      /\ peak' = peak /\ spare' \in [crashes : Nat, faults : Nat, damage : Nat, edits : Nat]
      /\ got' \in FeedVersion /\ job' \in Job
      /\ file'.a \in {file.a, job.v} /\ file'.b = file.b /\ file'.act = file.act
      /\ \/ job'.op = job.op /\ job'.at = "floorB" /\ job'.v = job.v /\ job'.rev = job.rev
         \/ job.op = "activate" /\ job'.op = "none" /\ job'.at = "idle"
         \/ job.op # "activate" /\ job'.op = job.op /\ job'.at = "lkg" /\ job'.rev = job.rev
  <2> DEFINE new == [file EXCEPT !.a = job.v]
  <2>1. job.at = "floorA" /\ job \in Job /\ file \in Files /\ FeedTypeOK
    BY DEF FloorA, FeedInv, FeedTypeOK
  <2>2. new \in Files /\ new.a = job.v /\ new.b = file.b /\ new.act = file.act
    BY <2>1, JobFacts, FilesFacts DEF Files, FeedRecord
  <2>3. /\ pub' = pub /\ gen' = gen /\ view' = view /\ etag' = etag /\ rev' = rev /\ owed' = owed
        /\ peak' = peak
    BY DEF FloorA, Write
  <2>4. \/ Use("faults") /\ GiveUp /\ file' \in {new, file}
        \/ file' = new /\ Goto("floorB") /\ got' = got /\ spare' = spare
    BY DEF FloorA, Write
  <2>5. CASE Use("faults") /\ GiveUp /\ file' \in {new, file}
    <3>1. file' \in Files /\ file'.a \in {file.a, job.v} /\ file'.b = file.b /\ file'.act = file.act
      BY <2>1, <2>2, <2>5
    <3> QED
      BY <2>1, <2>3, <2>5, <3>1, WriteFails
  <2>6. CASE file' = new /\ Goto("floorB") /\ got' = got /\ spare' = spare
    <3>1. /\ job' \in Job /\ job'.op = job.op /\ job'.at = "floorB" /\ job'.v = job.v /\ job'.rev = job.rev
      BY <2>1, <2>6, GotoFacts DEF Stages
    <3> QED
      BY <2>1, <2>2, <2>3, <2>6, <3>1 DEF FeedTypeOK
  <2> QED
    BY <2>4, <2>5, <2>6
<1>2. FeedTypeOK'
  BY <1>1 DEF FeedInv, FeedTypeOK
<1>3. RecordInv'
  <2>1. job.v \in Int /\ peak \in Int /\ job.v > 0 /\ job.v >= peak /\ (file.act # Damaged => job.v >= file.act)
    BY <1>1, FilesFacts, JobFacts DEF FeedInv, FeedTypeOK, JobInv
  <2>2. job.v # Damaged
    BY <2>1 DEF Damaged
  <2> QED
    BY <1>1, <2>1, <2>2 DEF FeedInv, RecordInv
<1>4. JobInv'
  BY <1>1, FilesFacts, JobFacts DEF FeedInv, FeedTypeOK, JobInv
<1>5. RevInv'
  BY <1>1, JobFacts DEF FeedInv, FeedTypeOK, RevInv, JobInv, Whole
<1> QED
  BY <1>2, <1>3, <1>4, <1>5 DEF FeedInv

\* The second one, and both read back.
LEMMA FloorBKeeps ==
  ASSUME FeedInv, FloorB
  PROVE  FeedInv'
<1>1. /\ job.at = "floorB" /\ job \in Job /\ file' \in Files
      /\ pub' = pub /\ gen' = gen /\ view' = view /\ etag' = etag /\ rev' = rev /\ owed' = owed
      /\ peak' = peak /\ spare' \in [crashes : Nat, faults : Nat, damage : Nat, edits : Nat]
      /\ got' \in FeedVersion /\ job' \in Job
      /\ file'.a = file.a /\ file'.b \in {file.b, job.v} /\ file'.act = file.act
      /\ \/ /\ job'.op = job.op /\ job'.v = job.v /\ job'.rev = job.rev
            /\ job'.at = IF job.op = "raise" THEN "lkg" ELSE "check"
            /\ file'.b = job.v /\ file.a = job.v
         \/ job.op = "activate" /\ job'.op = "none" /\ job'.at = "idle"
         \/ job.op # "activate" /\ job'.op = job.op /\ job'.at = "lkg" /\ job'.rev = job.rev
  <2> DEFINE new == [file EXCEPT !.b = job.v]
  <2>1. job.at = "floorB" /\ job \in Job /\ file \in Files /\ FeedTypeOK
    BY DEF FloorB, FeedInv, FeedTypeOK
  <2>2. new \in Files /\ new.a = file.a /\ new.b = job.v /\ new.act = file.act
    BY <2>1, JobFacts, FilesFacts DEF Files, FeedRecord
  <2>3. /\ pub' = pub /\ gen' = gen /\ view' = view /\ etag' = etag /\ rev' = rev /\ owed' = owed
        /\ peak' = peak
    BY DEF FloorB, Write
  <2>4. \/ Use("faults") /\ GiveUp /\ file' \in {new, file}
        \/ file' = new /\ GiveUp /\ spare' = spare
        \/ /\ file' = new /\ file.a = job.v /\ got' = got /\ spare' = spare
           /\ Goto(IF job.op = "raise" THEN "lkg" ELSE "check")
    BY DEF FloorB, Write
  <2>5. CASE Use("faults") /\ GiveUp /\ file' \in {new, file}
    <3>1. file' \in Files /\ file'.a = file.a /\ file'.b \in {file.b, job.v} /\ file'.act = file.act
      BY <2>1, <2>2, <2>5
    <3> QED
      BY <2>1, <2>3, <2>5, <3>1, WriteFails
  <2>6. CASE file' = new /\ GiveUp /\ spare' = spare
    BY <2>1, <2>2, <2>3, <2>6, GiveUpFacts DEF FeedTypeOK
  <2>7. CASE /\ file' = new /\ file.a = job.v /\ got' = got /\ spare' = spare
             /\ Goto(IF job.op = "raise" THEN "lkg" ELSE "check")
    <3>1. (IF job.op = "raise" THEN "lkg" ELSE "check") \in Stages
      BY DEF Stages
    <3>2. /\ job' \in Job /\ job'.op = job.op /\ job'.v = job.v /\ job'.rev = job.rev
          /\ job'.at = IF job.op = "raise" THEN "lkg" ELSE "check"
      BY <2>1, <2>7, <3>1, GotoFacts
    <3> QED
      BY <2>1, <2>2, <2>3, <2>7, <3>2 DEF FeedTypeOK
  <2> QED
    BY <2>4, <2>5, <2>6, <2>7
<1>2. FeedTypeOK'
  BY <1>1 DEF FeedInv, FeedTypeOK
<1>3. RecordInv'
  <2>1. job.v \in Int /\ peak \in Int /\ job.v > 0 /\ job.v >= peak /\ (file.act # Damaged => job.v >= file.act)
    BY <1>1, FilesFacts, JobFacts DEF FeedInv, FeedTypeOK, JobInv
  <2>2. job.v # Damaged
    BY <2>1 DEF Damaged
  <2> QED
    BY <1>1, <2>1, <2>2 DEF FeedInv, RecordInv
<1>4. JobInv'
  <2>1. CASE job'.op = job.op /\ job'.at = "check" /\ job'.v = job.v /\ job.op # "raise" /\ file'.b = job.v /\ file.a = job.v
    <3>1. job.v \in Int
      BY <1>1, FilesFacts, JobFacts DEF FeedInv, FeedTypeOK
    <3> QED
      BY <1>1, <2>1, <3>1 DEF FeedInv, JobInv
  <2>2. CASE (job'.op = "none" /\ job'.at = "idle") \/ (job.op # "activate" /\ job'.op = job.op /\ job'.at = "lkg")
    BY <1>1, <2>2 DEF JobInv
  <2> QED
    BY <1>1, <2>1, <2>2
<1>5. RevInv'
  BY <1>1, JobFacts DEF FeedInv, FeedTypeOK, RevInv, JobInv, Whole
<1> QED
  BY <1>2, <1>3, <1>4, <1>5 DEF FeedInv

\* The activation record, once both floor records have the version.
LEMMA CommitRecordKeeps ==
  ASSUME FeedInv, CommitRecord
  PROVE  FeedInv'
<1>1. /\ job.at = "commit" /\ job \in Job /\ file' \in Files
      /\ pub' = pub /\ gen' = gen /\ view' = view /\ etag' = etag /\ rev' = rev /\ owed' = owed
      /\ peak' = peak /\ spare' \in [crashes : Nat, faults : Nat, damage : Nat, edits : Nat]
      /\ got' \in FeedVersion /\ job' \in Job
      /\ file'.a = file.a /\ file'.b = file.b /\ file'.act \in {file.act, job.v}
      /\ \/ /\ job'.op = job.op /\ job'.at = "swap" /\ job'.v = job.v /\ job'.rev = job.rev
            /\ file'.act = job.v
         \/ job.op = "activate" /\ job'.op = "none" /\ job'.at = "idle"
         \/ job.op # "activate" /\ job'.op = job.op /\ job'.at = "lkg" /\ job'.rev = job.rev
  <2> DEFINE new == [file EXCEPT !.act = job.v, !.tag = IF job.op = "activate" THEN job.v ELSE 0]
  <2>1. job.at = "commit" /\ job \in Job /\ file \in Files /\ FeedTypeOK
    BY DEF CommitRecord, FeedInv, FeedTypeOK
  <2>2. new \in Files /\ new.a = file.a /\ new.b = file.b /\ new.act = job.v
    BY <2>1, JobFacts, FilesFacts DEF Files, FeedRecord
  <2>3. /\ pub' = pub /\ gen' = gen /\ view' = view /\ etag' = etag /\ rev' = rev /\ owed' = owed
        /\ peak' = peak
    BY DEF CommitRecord, Write
  <2>4. \/ Use("faults") /\ GiveUp /\ file' \in {new, file}
        \/ file' = new /\ Goto("swap") /\ got' = got /\ spare' = spare
    BY DEF CommitRecord, Write
  <2>5. CASE Use("faults") /\ GiveUp /\ file' \in {new, file}
    <3>1. file' \in Files /\ file'.a = file.a /\ file'.b = file.b /\ file'.act \in {file.act, job.v}
      BY <2>1, <2>2, <2>5
    <3> QED
      BY <2>1, <2>3, <2>5, <3>1, WriteFails
  <2>6. CASE file' = new /\ Goto("swap") /\ got' = got /\ spare' = spare
    <3>1. /\ job' \in Job /\ job'.op = job.op /\ job'.at = "swap" /\ job'.v = job.v /\ job'.rev = job.rev
      BY <2>1, <2>6, GotoFacts DEF Stages
    <3> QED
      BY <2>1, <2>2, <2>3, <2>6, <3>1 DEF FeedTypeOK
  <2> QED
    BY <2>4, <2>5, <2>6
<1>2. FeedTypeOK'
  BY <1>1 DEF FeedInv, FeedTypeOK
<1>3. RecordInv'
  BY <1>1, FilesFacts, JobFacts DEF FeedInv, FeedTypeOK, RecordInv, JobInv
<1>4. JobInv'
  <2>1. CASE job'.op = job.op /\ job'.at = "swap" /\ job'.v = job.v /\ file'.act = job.v
    <3>1. job.v \in Int
      BY <1>1, FilesFacts, JobFacts DEF FeedInv, FeedTypeOK
    <3> QED
      BY <1>1, <2>1, <3>1 DEF FeedInv, JobInv
  <2>2. CASE (job'.op = "none" /\ job'.at = "idle") \/ (job.op # "activate" /\ job'.op = job.op /\ job'.at = "lkg")
    BY <1>1, <2>2 DEF JobInv
  <2> QED
    BY <1>1, <2>1, <2>2
<1>5. RevInv'
  BY <1>1, JobFacts DEF FeedInv, FeedTypeOK, RevInv, JobInv, Whole
<1> QED
  BY <1>2, <1>3, <1>4, <1>5 DEF FeedInv

\* A generation or one record goes bad.
LEMMA DamageKeeps ==
  ASSUME FeedInv, Damage
  PROVE  FeedInv'
<1>1. /\ pub' = pub /\ view' = view /\ etag' = etag /\ rev' = rev /\ owed' = owed /\ job' = job
      /\ peak' = peak /\ spare' \in [crashes : Nat, faults : Nat, damage : Nat, edits : Nat] /\ got' = got
      /\ gen' \in [1..MaxFeed -> {"none", "ok", "damaged"}]
      /\ \A v \in 1..MaxFeed : (gen'[v] = "none" <=> gen[v] = "none") /\ (gen[v] = "damaged" => gen'[v] = "damaged")
  BY UseFacts DEF Damage, FeedInv, FeedTypeOK
<1>2. /\ file' \in Files
      /\ \/ file' = file
         \/ /\ file.a # Damaged /\ file.b # Damaged
            /\ file'.a \in {file.a, Damaged} /\ file'.b \in {file.b, Damaged}
            /\ file'.act \in {file.act, Damaged} /\ (file'.a # Damaged \/ file'.b # Damaged)
  <2>1. file \in Files
    BY DEF FeedInv, FeedTypeOK
  <2>2. CASE file' = file
    BY <2>1, <2>2
  <2>3. CASE /\ Damaged \notin {file.a, file.b, file.act}
             /\ \E r \in {"a", "b", "act"} : file[r] # 0 /\ file' = [file EXCEPT ![r] = Damaged]
    <3>1. file' \in {[file EXCEPT !.a = Damaged], [file EXCEPT !.b = Damaged], [file EXCEPT !.act = Damaged]}
      BY <2>3
    <3> QED
      BY <2>1, <2>3, <3>1 DEF Files, FeedRecord
  <2> QED
    BY <2>2, <2>3 DEF Damage
<1>3. FeedTypeOK'
  BY <1>1, <1>2 DEF FeedInv, FeedTypeOK
<1>4. RecordInv'
  <2>1. /\ file.act > 0 => file.act \in 1..MaxFeed
        /\ Damaged = -1 /\ ~(Damaged > 0)
    BY FilesFacts DEF FeedInv, FeedTypeOK
  <2>2. file'.act > 0 => gen'[file'.act] # "none"
    BY <1>1, <1>2, <2>1 DEF FeedInv, RecordInv
  <2>3. CASE file' = file
    BY <1>1, <2>2, <2>3 DEF FeedInv, RecordInv
  <2>4. CASE file' # file
    BY <1>1, <1>2, <2>2, <2>4 DEF FeedInv, RecordInv
  <2> QED
    BY <2>3, <2>4
<1>5. JobInv'
  BY <1>1, <1>2, FilesFacts, JobFacts DEF FeedInv, FeedTypeOK, JobInv
<1>6. RevInv'
  BY <1>1, <1>2 DEF FeedInv, RevInv, Whole
<1> QED
  BY <1>3, <1>4, <1>5, <1>6 DEF FeedInv

\* Nothing was ever served.
LEMMA FeedInitInv ==
  ASSUME FeedInit
  PROVE  FeedInv
<1>1. job \in Job /\ job.at = "down" /\ job.op = "none"
  BY IdleFacts DEF FeedInit, Job, Stages
<1>2. 0 \in FeedVersion
  BY FeedAssumption DEF FeedVersion
<1>3. file \in Files /\ file.a = 0 /\ file.b = 0 /\ file.act = 0
  BY <1>2 DEF FeedInit, Files, FeedRecord
<1>4. FeedTypeOK
  BY <1>1, <1>2, <1>3, FeedAssumption DEF FeedInit, FeedTypeOK
<1>5. RecordInv /\ JobInv /\ RevInv
  BY <1>1, <1>3 DEF FeedInit, RecordInv, JobInv, RevInv, Damaged
<1> QED
  BY <1>4, <1>5 DEF FeedInv

\* Every step keeps the invariant.
LEMMA FeedNextInv ==
  ASSUME FeedInv, [FeedNext]_feedVars
  PROVE  FeedInv'
<1>1. CASE UNCHANGED feedVars
  BY <1>1 DEF feedVars, FeedInv, FeedTypeOK, RecordInv, JobInv, RevInv, Whole
<1> QED
  BY <1>1, PublishKeeps, FetchKeeps, ActivateKeeps, BuildViewKeeps, FloorAKeeps, FloorBKeeps, CheckKeeps,
     CommitRecordKeeps, SwapKeeps, EditKeeps, RebuildKeeps, FeedCrashKeeps, FeedStartKeeps, RecoverKeeps,
     ServeLKGKeeps, DamageKeeps DEF FeedNext, JobStep

\* The invariant holds throughout.
LEMMA FeedInvariant == FeedSpec => []FeedInv
BY FeedInitInv, FeedNextInv, PTL DEF FeedSpec

\* The variables of the feed keep their types.
THEOREM FeedTypeCorrect == FeedSpec => []FeedTypeOK
<1>1. FeedInv => FeedTypeOK
  BY DEF FeedInv
<1> QED
  BY <1>1, FeedInvariant, PTL

\* The floor a refresh is measured against is at least every version that was
\* ever served, for any number of versions, crashes, failing writes and damaged
\* files, as long as one record at a time is damaged.
THEOREM FloorHolds == FeedSpec => []FloorProvesServed
<1>1. FeedInv => FloorProvesServed
  BY FloorCovers DEF FloorProvesServed
<1> QED
  BY <1>1, FeedInvariant, PTL

\* No step, be it of an activation, a resume, a rebuild or a recovery, puts a
\* version live that is older than one that has been live before.
THEOREM FeedNeverGoesBack == FeedSpec => NoFeedRollback
<1>1. ASSUME FeedInv, [FeedNext]_feedVars
      PROVE  [view'.ver \notin {0, view.ver} => view'.ver >= peak]_feedVars
  <2>1. CASE Swap
    <3>1. view'.ver = job.v /\ job.at = "swap"
      BY <2>1 DEF Swap
    <3>2. job.v = 0 \/ job.v >= peak
      BY <1>1, <3>1 DEF FeedInv, JobInv
    <3> QED
      BY <3>1, <3>2
  <2>2. CASE ~Swap
    <3>1. view'.ver \in {0, view.ver}
      BY <1>1, <2>2 DEF FeedNext, JobStep, Publish, Fetch, Activate, BuildView, FloorA, FloorB, Check,
         CommitRecord, Write, Edit, Rebuild, FeedCrash, FeedStart, Recover, ServeLKG, Damage, feedVars
    <3> QED
      BY <3>1
  <2> QED
    BY <2>1, <2>2
<1> QED
  BY <1>1, FeedInvariant, PTL DEF FeedSpec, NoFeedRollback

\* With the coordinator idle and no rebuild outstanding, the live view carries
\* the current overrides.
THEOREM OverridesNeverLost == FeedSpec => []OverridesSettle
<1>1. FeedInv => OverridesSettle
  BY DEF FeedInv, RevInv, Whole, OverridesSettle
<1> QED
  BY <1>1, FeedInvariant, PTL

-----------------------------------------------------------------------------
(* PolicyDraft: the inductive invariant.                                   *)

\* A draft is being opened: no client has seen its candidate yet.
Pending == write.at = "fork" \/ (write.at = "settle" /\ write.prev = NoRules)

\* How far the versions go beyond the bound on beginning an operation.
VersionBounds ==
  /\ run.v >= 1 /\ run.v <= MaxPolicy + 2
  /\ pfile.meta >= 1 /\ pfile.meta <= MaxPolicy + 2
  /\ saving.by # "none" => saving.v >= 1 /\ saving.v <= MaxPolicy + 2
  /\ draft.base <= MaxPolicy + 2 /\ pfile.draft.base <= MaxPolicy + 2
  /\ pfile.draft # NoFile => pfile.draft.base >= 1
  /\ draft.on => draft.base >= 1 /\ cand.v >= 1 /\ cand.v <= MaxPolicy + 1
  /\ write.at = "fork" => write.base >= 1 /\ write.base < MaxPolicy
  /\ write.at = "settle" => cand.v <= MaxPolicy
  /\ write.at \in {"save", "meta"} => run.v <= MaxPolicy + 1
  /\ gate /\ draft.on /\ write.at = "free" => run.v <= MaxPolicy /\ cand.v < MaxPolicy

\* What the operation in the lock, the gate and the two savers exclude.
WriteShape ==
  /\ write.op = "none" <=> write.at = "free"
  /\ write.op = "stage" <=> write.at \in {"fork", "settle"}
  /\ write.at = "fork" => ~draft.on /\ write.prev = NoRules
  /\ write.at = "settle" => draft.on /\ (write.prev = NoRules => cand.v = write.base + 1)
  /\ write.at \in {"save", "meta"} => write.prev \in Rules
  /\ write.op = "commit" => draft.on /\ gate
  /\ gate => write.op \in {"none", "commit"}
  /\ gate /\ draft.on => tails.meta = 0 /\ tails.remove = 0
  /\ write.at = "meta" => saving.by = "write"
  /\ rolling = "meta" => saving.by = "roll"
  /\ pfile.draft = NoFile \/ pfile.draft.c \in Rules

\* A version shown is not above its counter, and at it only with its content;
\* what replaces a candidate is above every version the candidate had.
TokenInv ==
  "torn" \notin odd /\ "restarted" \notin odd =>
    /\ draft.on \/ write.op = "stage" => commitMode
    /\ Pending => write.base <= run.v
    /\ write.op = "commit" => run.v > cand.v
    /\ token.of = "running" => token.v <= run.v /\ (token.v = run.v => token.c = run.c)
    /\ token.of # "running" =>
         /\ draft.on => token.v <= cand.v /\ (token.v = cand.v => token.c = cand.c)
         /\ ~draft.on \/ Pending =>
              token.v <= run.v /\ (token.of = "effective" /\ token.v = run.v => token.c = run.c)
         /\ Pending => token.v <= write.base

\* The version a draft was forked from tells whether running has moved since.
BaseInv ==
  "torn" \notin odd =>
    /\ draft.on => draft.base <= run.v
    /\ pfile.draft.base <= run.v
    /\ write.at = "fork" => write.base <= run.v
    /\ "raced" \notin odd /\ outside =>
         /\ draft.on => draft.base < run.v /\ ~gate
         /\ write.at = "fork" => write.base < run.v

\* The files follow the store and the candidate, one write behind.
DurableInv ==
  /\ draft.on /\ "swept" \notin odd =>
       IF write.at = "settle" THEN write.prev \in {NoRules, pfile.draft.c} ELSE pfile.draft.c = cand.c
  /\ rolling # "save" /\ "unsaved" \notin odd /\ "raced" \notin odd =>
       pfile.rules = IF write.at = "save" THEN write.prev ELSE run.c

PolicyInv == PolicyTypeOK /\ VersionBounds /\ WriteShape /\ TokenInv /\ BaseInv /\ DurableInv

-----------------------------------------------------------------------------
(* The records of the store and what changes them.                         *)

\* The versions.
LEMMA GenerationFacts ==
  /\ MaxPolicy \in Int /\ MaxPolicy >= 1 /\ NoRules \notin Rules
  /\ \A x : x \in Generation <=> (x \in Int /\ 0 <= x /\ x <= MaxPolicy + 3)
BY PolicyAssumption DEF Generation

\* The fields of the variables.
LEMMA PolicyFields ==
  ASSUME PolicyTypeOK
  PROVE  /\ run \in Store /\ run.c \in Rules /\ run.v \in Int /\ run.v >= 0
         /\ draft.on \in BOOLEAN /\ draft.base \in Int /\ draft.base >= 0
         /\ draft.on => cand \in Store /\ cand.c \in Rules /\ cand.v \in Int /\ cand.v >= 0
         /\ ~draft.on => cand = NoCand
         /\ write.prev \in Rules \cup {NoRules} /\ write.base \in Int /\ write.base >= 0
         /\ write.op \in {"none", "stage", "edit", "commit"}
         /\ write.at \in {"free", "fork", "settle", "save", "meta"}
         /\ tails.meta \in Nat /\ tails.remove \in Nat
         /\ saving.v \in Int /\ saving.v >= 0
         /\ pfile.rules \in Rules /\ pfile.meta \in Int /\ pfile.meta >= 0 /\ pfile.draft \in DraftFile
         /\ pfile.draft.base \in Int /\ pfile.draft.base >= 0 /\ pfile.armed \in BOOLEAN
         /\ pfile.draft.c \in Rules \cup {NoRules}
         /\ token.v \in Int /\ token.v >= 0 /\ token.of \in {"running", "effective", "candidate"}
<1>1. run \in Store /\ run.c \in Rules /\ run.v \in Generation
  BY DEF PolicyTypeOK, Store
<1>2. draft.on \in BOOLEAN /\ draft.base \in Generation
  BY DEF PolicyTypeOK, DraftState
<1>3. draft.on => cand \in Store /\ cand.c \in Rules /\ cand.v \in Generation
  BY DEF PolicyTypeOK, Store
<1>4. ~draft.on => cand = NoCand
  BY DEF PolicyTypeOK
<1>5. /\ write.prev \in Rules \cup {NoRules} /\ write.base \in Generation
      /\ write.op \in {"none", "stage", "edit", "commit"}
      /\ write.at \in {"free", "fork", "settle", "save", "meta"}
  BY DEF PolicyTypeOK, Held
<1>6. tails.meta \in Nat /\ tails.remove \in Nat /\ saving.v \in Generation
  BY DEF PolicyTypeOK
<1>7. /\ pfile.rules \in Rules /\ pfile.meta \in Generation /\ pfile.draft \in DraftFile /\ pfile.armed \in BOOLEAN
      /\ pfile.draft.base \in Generation /\ pfile.draft.c \in Rules \cup {NoRules}
  BY DEF PolicyTypeOK, PolicyFiles, DraftFile
<1>8. token.v \in Generation /\ token.of \in {"running", "effective", "candidate"}
  BY DEF PolicyTypeOK, Token
<1> QED
  BY <1>1, <1>2, <1>3, <1>4, <1>5, <1>6, <1>7, <1>8, GenerationFacts

\* The values for nothing.
LEMMA NothingFacts ==
  /\ Free \in Held /\ Free.op = "none" /\ Free.at = "free" /\ Free.prev = NoRules /\ Free.base = 0
  /\ NoDraft \in DraftState /\ NoDraft.on = FALSE /\ NoDraft.base = 0
  /\ NoFile \in DraftFile /\ NoFile.c = NoRules /\ NoFile.base = 0
  /\ NoCand.c = NoRules /\ NoCand \notin Store
  /\ NoSave \in [by : {"none", "write", "roll"}, v : Generation] /\ NoSave.by = "none"
<1>1. 0 \in Generation
  BY GenerationFacts
<1>2. Free \in Held /\ Free.op = "none" /\ Free.at = "free" /\ Free.prev = NoRules /\ Free.base = 0
  BY <1>1 DEF Free, Held
<1>3. /\ NoDraft \in DraftState /\ NoDraft.on = FALSE /\ NoDraft.base = 0
      /\ NoFile \in DraftFile /\ NoFile.c = NoRules /\ NoFile.base = 0
  BY <1>1 DEF NoDraft, DraftState, NoFile, DraftFile
<1>4. NoCand.c = NoRules /\ NoCand \notin Store
  BY GenerationFacts DEF NoCand, Store
<1>5. NoSave \in [by : {"none", "write", "roll"}, v : Generation] /\ NoSave.by = "none"
  BY <1>1 DEF NoSave
<1> QED
  BY <1>2, <1>3, <1>4, <1>5

\* A store with its next version.
LEMMA BumpFacts ==
  ASSUME NEW s \in Store, NEW c \in Rules, s.v <= MaxPolicy + 2
  PROVE  Bumped(s, c) \in Store /\ Bumped(s, c).c = c /\ Bumped(s, c).v = s.v + 1
<1>1. s.v \in Generation
  BY DEF Store
<1>2. s.v + 1 \in Generation
  BY <1>1, GenerationFacts
<1> QED
  BY <1>2 DEF Bumped, Store

\* The counter above a floor.
LEMMA AboveFacts ==
  ASSUME NEW v \in Int, NEW f \in Int
  PROVE  /\ Above(v, f) \in Int /\ Above(v, f) >= v /\ Above(v, f) > f
         /\ Above(v, f) = v \/ Above(v, f) = f + 1
BY DEF Above

\* A store that keeps its rules at another version.
LEMMA VersionFacts ==
  ASSUME run \in Store, NEW x \in Generation
  PROVE  /\ [run EXCEPT !.v = x] \in Store
         /\ [run EXCEPT !.v = x].c = run.c /\ [run EXCEPT !.v = x].v = x
BY DEF Store

\* The operation that takes the lock.
LEMMA HoldFacts ==
  ASSUME NEW w, NEW op \in {"stage", "edit", "commit"}, NEW at \in {"fork", "settle", "save", "meta"},
         NEW prev \in Rules \cup {NoRules}, NEW base \in Generation,
         w = [op |-> op, at |-> at, prev |-> prev, base |-> base]
  PROVE  w \in Held /\ w # Free /\ w.op = op /\ w.at = at /\ w.prev = prev /\ w.base = base
<1>1. w \in Held /\ w.op = op /\ w.at = at /\ w.prev = prev /\ w.base = base
  BY DEF Held
<1> QED
  BY <1>1, NothingFacts

\* One chance is used.
LEMMA TakeFacts ==
  ASSUME PolicyTypeOK, NEW what \in {"rollbacks", "crashes", "faults"}, Take(what)
  PROVE  chances' \in [rollbacks : Nat, crashes : Nat, faults : Nat]
<1>1. /\ chances \in [rollbacks : Nat, crashes : Nat, faults : Nat]
      /\ chances[what] > 0 /\ chances' = [chances EXCEPT ![what] = @ - 1]
  BY DEF PolicyTypeOK, Take
<1>2. CASE what = "rollbacks"
  BY <1>1, <1>2
<1>3. CASE what = "crashes"
  BY <1>1, <1>3
<1>4. CASE what = "faults"
  BY <1>1, <1>4
<1> QED
  BY <1>2, <1>3, <1>4

\* The files, one of them replaced.
LEMMA PolicyFileFacts ==
  ASSUME pfile \in PolicyFiles, NEW c \in Rules, NEW v \in Generation, NEW d \in DraftFile, NEW m \in BOOLEAN
  PROVE  /\ LET f == [pfile EXCEPT !.rules = c]
            IN f \in PolicyFiles /\ f.rules = c /\ f.meta = pfile.meta /\ f.draft = pfile.draft
         /\ LET f == [pfile EXCEPT !.meta = v]
            IN f \in PolicyFiles /\ f.rules = pfile.rules /\ f.meta = v /\ f.draft = pfile.draft
         /\ LET f == [pfile EXCEPT !.draft = d]
            IN f \in PolicyFiles /\ f.rules = pfile.rules /\ f.meta = pfile.meta /\ f.draft = d
         /\ LET f == [pfile EXCEPT !.armed = m]
            IN f \in PolicyFiles /\ f.rules = pfile.rules /\ f.meta = pfile.meta /\ f.draft = pfile.draft
BY DEF PolicyFiles

-----------------------------------------------------------------------------
(* The steps.                                                              *)

\* A client is shown a version.
LEMMA LoadPolicy ==
  ASSUME PolicyInv, Load
  PROVE  PolicyInv'
<1>0. PolicyTypeOK
  BY DEF PolicyInv
<1>1. /\ run' = run /\ cand' = cand /\ draft' = draft /\ commitMode' = commitMode /\ write' = write
      /\ gate' = gate /\ tails' = tails /\ rolling' = rolling /\ saving' = saving /\ pfile' = pfile
      /\ outside' = outside /\ odd' = odd /\ chances' = chances
      /\ token' \in Token
      /\ \/ token'.of = "running" /\ token'.v = run.v /\ token'.c = run.c
         \/ /\ token'.of = "effective" /\ write.at = "free"
            /\ IF commitMode /\ draft.on THEN token'.v = cand.v /\ token'.c = cand.c
                                         ELSE token'.v = run.v /\ token'.c = run.c
         \/ token'.of = "candidate" /\ write.at = "free" /\ draft.on /\ token'.v = cand.v /\ token'.c = cand.c
  <2>1. PICK of \in {"running", "effective", "candidate"} :
          /\ of = "running" \/ write = Free
          /\ of = "candidate" => draft.on
          /\ token' = [of |-> of, v |-> Shown(of).v, c |-> Shown(of).c]
    BY DEF Load
  <2>2. CASE of = "running"
    <3>1. Shown(of) = run
      BY <2>2 DEF Shown
    <3> QED
      BY <1>0, <2>1, <2>2, <3>1 DEF Load, files, control, Token, Store, PolicyTypeOK
  <2>3. CASE of = "effective"
    <3>1. Shown(of) = IF commitMode /\ draft.on THEN cand ELSE run
      BY <2>3 DEF Shown, Effective, Engaged
    <3>2. Shown(of) \in Store
      BY <1>0, <3>1, PolicyFields
    <3> QED
      BY <1>0, <2>1, <2>3, <3>1, <3>2, NothingFacts DEF Load, files, control, Token, Store
  <2>4. CASE of = "candidate"
    <3>1. Shown(of) = cand
      BY <2>4 DEF Shown
    <3> QED
      BY <1>0, <2>1, <2>4, <3>1, PolicyFields, NothingFacts DEF Load, files, control, Token, Store
  <2> QED
    BY <2>2, <2>3, <2>4
<1>2. PolicyTypeOK'
  BY <1>0, <1>1, NothingFacts DEF PolicyTypeOK
<1>3. VersionBounds'
  BY <1>0, <1>1, PolicyFields, GenerationFacts, NothingFacts DEF PolicyInv, VersionBounds, WriteShape
<1>4. WriteShape'
  BY <1>0, <1>1, PolicyFields, GenerationFacts, NothingFacts DEF PolicyInv, WriteShape
<1>5. TokenInv'
  BY <1>0, <1>1, PolicyFields, GenerationFacts, NothingFacts DEF PolicyInv, VersionBounds, WriteShape, TokenInv, Pending
<1>6. BaseInv'
  BY <1>0, <1>1, PolicyFields, GenerationFacts, NothingFacts DEF PolicyInv, VersionBounds, WriteShape, BaseInv
<1>7. DurableInv'
  BY <1>0, <1>1, PolicyFields, GenerationFacts, NothingFacts DEF PolicyInv, WriteShape, DurableInv
<1> QED
  BY <1>2, <1>3, <1>4, <1>5, <1>6, <1>7 DEF PolicyInv

\* An edit of the running store begins.
LEMMA EditRunningPolicy ==
  ASSUME PolicyInv, EditRunning
  PROVE  PolicyInv'
<1>0. PolicyTypeOK
  BY DEF PolicyInv
<1>1. /\ cand' = cand /\ draft' = draft /\ commitMode' = commitMode /\ gate' = gate /\ tails' = tails
      /\ rolling' = rolling /\ saving' = saving /\ pfile' = pfile /\ token' = token /\ odd' = odd
      /\ chances' = chances
      /\ write.at = "free" /\ ~gate /\ run.v < MaxPolicy /\ outside' = TRUE
      /\ run' \in Store /\ run'.v = run.v + 1 /\ run'.c \in Rules
      /\ write' \in Held /\ write' # Free /\ write'.op = "edit" /\ write'.at = "save" /\ write'.prev = run.c
  <2>1. write = Free /\ ~gate /\ run.v < MaxPolicy /\ outside' = TRUE
    BY DEF EditRunning, MayBegin
  <2>2. PICK c \in Rules : run' = Bumped(run, c)
    BY DEF EditRunning
  <2>3. run' \in Store /\ run'.v = run.v + 1 /\ run'.c \in Rules
    BY <1>0, <2>1, <2>2, BumpFacts, PolicyFields, GenerationFacts
  <2>4. write' = [op |-> "edit", at |-> "save", prev |-> run.c, base |-> 0]
    BY DEF EditRunning, Free
  <2>5. write' \in Held /\ write' # Free /\ write'.op = "edit" /\ write'.at = "save" /\ write'.prev = run.c
    BY <1>0, <2>4, HoldFacts, PolicyFields, GenerationFacts
  <2> QED
    BY <2>1, <2>3, <2>5, NothingFacts DEF EditRunning, files, control
<1>2. PolicyTypeOK'
  BY <1>0, <1>1, NothingFacts DEF PolicyTypeOK
<1>3. VersionBounds'
  BY <1>0, <1>1, PolicyFields, GenerationFacts, NothingFacts DEF PolicyInv, VersionBounds, WriteShape
<1>4. WriteShape'
  BY <1>0, <1>1, PolicyFields, GenerationFacts, NothingFacts DEF PolicyInv, WriteShape
<1>5. TokenInv'
  BY <1>0, <1>1, PolicyFields, GenerationFacts, NothingFacts DEF PolicyInv, VersionBounds, WriteShape, TokenInv, Pending
<1>6. BaseInv'
  BY <1>0, <1>1, PolicyFields, GenerationFacts, NothingFacts DEF PolicyInv, VersionBounds, WriteShape, BaseInv
<1>7. DurableInv'
  BY <1>0, <1>1, PolicyFields, GenerationFacts, NothingFacts DEF PolicyInv, WriteShape, DurableInv
<1> QED
  BY <1>2, <1>3, <1>4, <1>5, <1>6, <1>7 DEF PolicyInv

\* A staged edit begins.
LEMMA StagePolicy ==
  ASSUME PolicyInv, Stage
  PROVE  PolicyInv'
<1>0. PolicyTypeOK
  BY DEF PolicyInv
<1>1. /\ run' = run /\ draft' = draft /\ commitMode' = commitMode /\ gate' = gate /\ tails' = tails
      /\ rolling' = rolling /\ saving' = saving /\ pfile' = pfile /\ token' = token /\ odd' = odd
      /\ chances' = chances
      /\ write.at = "free" /\ ~gate /\ commitMode /\ write' \in Held /\ write' # Free /\ write'.op = "stage"
      /\ \/ /\ ~draft.on /\ run.v < MaxPolicy /\ cand' = cand /\ outside' = FALSE
            /\ write'.at = "fork" /\ write'.prev = NoRules /\ write'.base = run.v
         \/ /\ draft.on /\ cand.v < MaxPolicy /\ outside' = outside
            /\ cand' \in Store /\ cand'.c \in Rules /\ cand'.v = cand.v + 1
            /\ write'.at = "settle" /\ write'.prev = cand.c
  <2>1. write = Free /\ ~gate /\ commitMode
    BY DEF Stage, MayBegin
  <2>2. CASE ~draft.on
    <3>1. /\ ~draft.on /\ run.v < MaxPolicy /\ cand' = cand /\ outside' = FALSE
          /\ write' = [op |-> "stage", at |-> "fork", prev |-> NoRules, base |-> run.v]
      BY <2>2 DEF Stage, Free
    <3>2. /\ write' \in Held /\ write' # Free /\ write'.op = "stage"
          /\ write'.at = "fork" /\ write'.prev = NoRules /\ write'.base = run.v
      <4>1. run.v \in Generation
        BY <1>0 DEF PolicyTypeOK, Store
      <4> QED
        BY <3>1, <4>1, HoldFacts
    <3> QED
      BY <2>1, <3>1, <3>2, NothingFacts DEF Stage, files, control
  <2>3. CASE draft.on
    <3>1. /\ cand.v < MaxPolicy /\ outside' = outside
          /\ write' = [op |-> "stage", at |-> "settle", prev |-> cand.c, base |-> 0]
      BY <2>3 DEF Stage, Free
    <3>2. PICK c \in Rules : cand' = Bumped(cand, c)
      BY <2>3 DEF Stage
    <3>3. cand' \in Store /\ cand'.v = cand.v + 1 /\ cand'.c \in Rules
      BY <1>0, <2>3, <3>1, <3>2, BumpFacts, PolicyFields, GenerationFacts
    <3>4. write' \in Held /\ write' # Free /\ write'.op = "stage" /\ write'.at = "settle" /\ write'.prev = cand.c
      BY <1>0, <2>3, <3>1, HoldFacts, PolicyFields, GenerationFacts
    <3> QED
      BY <2>1, <2>3, <3>1, <3>3, <3>4, NothingFacts DEF Stage, files, control
  <2> QED
    BY <1>0, <2>2, <2>3, PolicyFields
<1>2. PolicyTypeOK'
  BY <1>0, <1>1, NothingFacts DEF PolicyTypeOK
<1>3. VersionBounds'
  BY <1>0, <1>1, PolicyFields, GenerationFacts, NothingFacts DEF PolicyInv, VersionBounds, WriteShape
<1>4. WriteShape'
  BY <1>0, <1>1, PolicyFields, GenerationFacts, NothingFacts DEF PolicyInv, WriteShape
<1>5. TokenInv'
  BY <1>0, <1>1, PolicyFields, GenerationFacts, NothingFacts DEF PolicyInv, VersionBounds, WriteShape, TokenInv, Pending
<1>6. BaseInv'
  BY <1>0, <1>1, PolicyFields, GenerationFacts, NothingFacts DEF PolicyInv, VersionBounds, WriteShape, BaseInv
<1>7. DurableInv'
  BY <1>0, <1>1, PolicyFields, GenerationFacts, NothingFacts DEF PolicyInv, WriteShape, DurableInv
<1> QED
  BY <1>2, <1>3, <1>4, <1>5, <1>6, <1>7 DEF PolicyInv

\* The draft is forked, or the edit refused.
LEMMA ForkPolicy ==
  ASSUME PolicyInv, Fork
  PROVE  PolicyInv'
<1>0. PolicyTypeOK
  BY DEF PolicyInv
<1>1. /\ run' = run /\ commitMode' = commitMode /\ gate' = gate /\ tails' = tails
      /\ rolling' = rolling /\ saving' = saving /\ pfile' = pfile /\ token' = token
      /\ outside' = outside /\ odd' = odd /\ chances' = chances
      /\ write.at = "fork"
      /\ \/ /\ cand' \in Store /\ cand'.c \in Rules /\ cand'.v = write.base + 1
            /\ draft' \in DraftState /\ draft'.on = TRUE /\ draft'.base = write.base
            /\ write' \in Held /\ write' # Free /\ write'.op = write.op /\ write'.at = "settle"
            /\ write'.prev = write.prev /\ write'.base = write.base
         \/ write' = Free /\ cand' = cand /\ draft' = draft
  <2>1. write.at = "fork" /\ write.base \in Generation /\ write \in Held
    BY <1>0 DEF Fork, PolicyTypeOK, Held
  <2>2. CASE write' = Free /\ UNCHANGED <<cand, draft>>
    BY <2>1, <2>2 DEF Fork, files, control
  <2>3. CASE /\ \E c \in Rules \ {run.c} : cand' = [c |-> c, v |-> write.base + 1]
             /\ draft' = [on |-> TRUE, base |-> write.base]
             /\ write' = [write EXCEPT !.at = "settle"]
    <3>1. PICK c \in Rules : cand' = [c |-> c, v |-> write.base + 1]
      BY <2>3
    <3>2. write.base + 1 \in Generation
      BY <1>0, <2>1, PolicyFields, GenerationFacts DEF PolicyInv, VersionBounds
    <3>3. cand' \in Store /\ cand'.c \in Rules /\ cand'.v = write.base + 1
      BY <3>1, <3>2 DEF Store
    <3>4. draft' \in DraftState /\ draft'.on = TRUE /\ draft'.base = write.base
      BY <2>1, <2>3 DEF DraftState
    <3>5. /\ write' \in Held /\ write'.op = write.op /\ write'.at = "settle"
          /\ write'.prev = write.prev /\ write'.base = write.base
      BY <2>1, <2>3 DEF Held
    <3> QED
      BY <2>1, <3>3, <3>4, <3>5, NothingFacts DEF Fork, files, control
  <2> QED
    BY <2>2, <2>3 DEF Fork
<1>2. PolicyTypeOK'
  BY <1>0, <1>1, NothingFacts DEF PolicyTypeOK
<1>3. VersionBounds'
  BY <1>0, <1>1, PolicyFields, GenerationFacts, NothingFacts DEF PolicyInv, VersionBounds, WriteShape
<1>4. WriteShape'
  BY <1>0, <1>1, PolicyFields, GenerationFacts, NothingFacts DEF PolicyInv, WriteShape
<1>5. TokenInv'
  BY <1>0, <1>1, PolicyFields, GenerationFacts, NothingFacts DEF PolicyInv, VersionBounds, WriteShape, TokenInv, Pending
<1>6. BaseInv'
  BY <1>0, <1>1, PolicyFields, GenerationFacts, NothingFacts DEF PolicyInv, VersionBounds, WriteShape, BaseInv
<1>7. DurableInv'
  BY <1>0, <1>1, PolicyFields, GenerationFacts, NothingFacts DEF PolicyInv, WriteShape, DurableInv
<1> QED
  BY <1>2, <1>3, <1>4, <1>5, <1>6, <1>7 DEF PolicyInv

\* A staged edit is persisted, undone, or ends the draft.
LEMMA SettlePolicy ==
  ASSUME PolicyInv, Settle
  PROVE  PolicyInv'
<1>0. PolicyTypeOK
  BY DEF PolicyInv
<1>1. /\ commitMode' = commitMode /\ gate' = gate /\ rolling' = rolling /\ saving' = saving
      /\ token' = token /\ outside' = outside
      /\ write.at = "settle" /\ write' = Free /\ draft.on
      /\ \/ /\ cand.c = run.c /\ cand' = NoCand /\ draft' = NoDraft
            /\ run' \in Store /\ run'.c = run.c /\ run'.v \in {run.v, cand.v + 1} /\ run'.v >= run.v /\ run'.v > cand.v
            /\ tails' \in [meta : Nat, remove : Nat] /\ pfile' = pfile /\ odd' = odd /\ chances' = chances
         \/ /\ run' = run /\ cand' = cand /\ draft' = draft /\ tails' = tails /\ chances' = chances
            /\ pfile' \in PolicyFiles /\ pfile'.rules = pfile.rules /\ pfile'.meta = pfile.meta
            /\ pfile'.draft.c = cand.c /\ pfile'.draft.base = draft.base
            /\ odd' = odd \ {"swept"}
         \/ /\ run' = run /\ pfile' = pfile /\ tails' = tails /\ odd' = odd
            /\ chances' \in [rollbacks : Nat, crashes : Nat, faults : Nat]
            /\ \/ write.prev = NoRules /\ cand' = NoCand /\ draft' = NoDraft
               \/ /\ write.prev # NoRules /\ draft' = draft
                  /\ cand' \in Store /\ cand'.c = write.prev /\ cand'.v = cand.v + 1
  <2>1. write.at = "settle" /\ write' = Free /\ draft.on /\ cand \in Store /\ pfile \in PolicyFiles
    BY <1>0, PolicyFields DEF Settle, PolicyInv, WriteShape, PolicyTypeOK
  <2>2. CASE /\ cand.c = run.c /\ run' = [run EXCEPT !.v = Above(@, cand.v)]
             /\ tails' = [tails EXCEPT !.meta = @ + 1] /\ cand' = NoCand /\ draft' = NoDraft
             /\ UNCHANGED <<pfile, odd, chances>>
    <3> DEFINE up == Above(run.v, cand.v)
    <3>1. up \in {run.v, cand.v + 1} /\ up >= run.v /\ up > cand.v
      BY <1>0, <2>1, AboveFacts, PolicyFields
    <3>2. up \in Generation
      BY <1>0, <2>1, <3>1, PolicyFields, GenerationFacts DEF PolicyInv, VersionBounds
    <3>3. run' = [run EXCEPT !.v = up] /\ run \in Store
      BY <1>0, <2>2 DEF PolicyTypeOK
    <3> HIDE DEF up
    <3>4. run' \in Store /\ run'.c = run.c /\ run'.v = up
      BY <3>2, <3>3, VersionFacts
    <3>5. tails' \in [meta : Nat, remove : Nat]
      BY <1>0, <2>2 DEF PolicyTypeOK
    <3> QED
      BY <2>1, <2>2, <3>1, <3>4, <3>5 DEF Settle, control
  <2>3. CASE /\ pfile' = [pfile EXCEPT !.draft = [c |-> cand.c, base |-> draft.base]]
             /\ odd' = odd \ {"swept"} /\ UNCHANGED <<run, cand, draft, tails, chances>>
    <3> DEFINE d == [c |-> cand.c, base |-> draft.base]
    <3>1. d \in DraftFile /\ d.c = cand.c /\ d.base = draft.base
      BY <1>0, <2>1 DEF DraftFile, Store, PolicyTypeOK, DraftState
    <3>2. pfile' = [pfile EXCEPT !.draft = d]
      BY <2>3
    <3> HIDE DEF d
    <3>3. pfile' \in PolicyFiles /\ pfile'.rules = pfile.rules /\ pfile'.meta = pfile.meta /\ pfile'.draft = d
      BY <2>1, <3>1, <3>2 DEF PolicyFiles
    <3> QED
      BY <2>1, <2>3, <3>1, <3>3 DEF Settle, control
  <2>4. CASE /\ Take("faults")
             /\ IF write.prev = NoRules THEN cand' = NoCand /\ draft' = NoDraft
                ELSE cand' = Bumped(cand, write.prev) /\ UNCHANGED draft
             /\ UNCHANGED <<run, pfile, tails, odd>>
    <3>1. chances' \in [rollbacks : Nat, crashes : Nat, faults : Nat]
      BY <1>0, <2>4, TakeFacts
    <3>2. CASE write.prev # NoRules
      <4>1. write.prev \in Rules /\ cand.v <= MaxPolicy + 2
        BY <1>0, <2>1, <3>2, PolicyFields, GenerationFacts DEF PolicyInv, VersionBounds
      <4>2. cand' \in Store /\ cand'.c = write.prev /\ cand'.v = cand.v + 1
        BY <2>1, <2>4, <3>2, <4>1, BumpFacts
      <4> QED
        BY <2>1, <2>4, <3>1, <3>2, <4>2 DEF Settle, control
    <3> QED
      BY <2>1, <2>4, <3>1, <3>2 DEF Settle, control
  <2> QED
    BY <2>2, <2>3, <2>4 DEF Settle
<1>2. PolicyTypeOK'
  <2>1. draft' \in DraftState /\ (draft'.on <=> cand' # NoCand) /\ cand' \in Store \cup {NoCand}
    BY <1>0, <1>1, NothingFacts DEF PolicyTypeOK
  <2>2. odd' \subseteq {"torn", "restarted", "raced", "swept", "unsaved"}
    BY <1>0, <1>1 DEF PolicyTypeOK
  <2> QED
    BY <1>0, <1>1, <2>1, <2>2, NothingFacts DEF PolicyTypeOK
<1>3. VersionBounds'
  BY <1>0, <1>1, PolicyFields, GenerationFacts, NothingFacts DEF PolicyInv, VersionBounds, WriteShape
<1>4. WriteShape'
  BY <1>0, <1>1, PolicyFields, GenerationFacts, NothingFacts DEF PolicyInv, WriteShape
<1>5. TokenInv'
  BY <1>0, <1>1, PolicyFields, GenerationFacts, NothingFacts DEF PolicyInv, VersionBounds, WriteShape, TokenInv, Pending
<1>6. BaseInv'
  BY <1>0, <1>1, PolicyFields, GenerationFacts, NothingFacts DEF PolicyInv, VersionBounds, WriteShape, BaseInv
<1>7. DurableInv'
  BY <1>0, <1>1, PolicyFields, GenerationFacts, NothingFacts DEF PolicyInv, WriteShape, DurableInv
<1> QED
  BY <1>2, <1>3, <1>4, <1>5, <1>6, <1>7 DEF PolicyInv

\* The .meta file gets the current version.
LEMMA RefreshPolicy ==
  ASSUME PolicyInv, Refresh
  PROVE  PolicyInv'
<1>0. PolicyTypeOK
  BY DEF PolicyInv
<1>1. /\ run' = run /\ cand' = cand /\ draft' = draft /\ commitMode' = commitMode /\ write' = write
      /\ gate' = gate /\ rolling' = rolling /\ saving' = saving /\ token' = token
      /\ outside' = outside /\ odd' = odd
      /\ chances' \in [rollbacks : Nat, crashes : Nat, faults : Nat]
      /\ tails' \in [meta : Nat, remove : Nat] /\ tails.meta > 0
      /\ pfile' \in PolicyFiles /\ pfile'.rules = pfile.rules /\ pfile'.meta \in {pfile.meta, run.v}
      /\ pfile'.draft = pfile.draft
  <2>1. /\ pfile' \in {pfile, [pfile EXCEPT !.meta = run.v]} /\ pfile \in PolicyFiles
        /\ run.v \in Generation
    BY <1>0 DEF Refresh, Ignored, PolicyTypeOK, Store
  <2>2. /\ pfile' \in PolicyFiles /\ pfile'.rules = pfile.rules /\ pfile'.draft = pfile.draft
        /\ pfile'.meta \in {pfile.meta, run.v}
    BY <2>1 DEF PolicyFiles
  <2>c. chances' \in [rollbacks : Nat, crashes : Nat, faults : Nat]
    BY <1>0, TakeFacts DEF Refresh, Ignored, PolicyTypeOK
  <2>3. tails' \in [meta : Nat, remove : Nat] /\ tails.meta > 0
    <3>1. tails.meta - 1 \in Nat /\ tails.remove + 1 \in Nat
      BY <1>0, PolicyFields DEF Refresh
    <3> QED
      BY <3>1 DEF Refresh
  <2> QED
    BY <2>2, <2>c, <2>3 DEF Refresh, control
<1>2. PolicyTypeOK'
  BY <1>0, <1>1, NothingFacts DEF PolicyTypeOK
<1>3. VersionBounds'
  BY <1>0, <1>1, PolicyFields, GenerationFacts, NothingFacts DEF PolicyInv, VersionBounds, WriteShape
<1>4. WriteShape'
  BY <1>0, <1>1, PolicyFields, GenerationFacts, NothingFacts DEF PolicyInv, WriteShape
<1>5. TokenInv'
  BY <1>0, <1>1, PolicyFields, GenerationFacts, NothingFacts DEF PolicyInv, VersionBounds, WriteShape, TokenInv, Pending
<1>6. BaseInv'
  BY <1>0, <1>1, PolicyFields, GenerationFacts, NothingFacts DEF PolicyInv, VersionBounds, WriteShape, BaseInv
<1>7. DurableInv'
  BY <1>0, <1>1, PolicyFields, GenerationFacts, NothingFacts DEF PolicyInv, WriteShape, DurableInv
<1> QED
  BY <1>2, <1>3, <1>4, <1>5, <1>6, <1>7 DEF PolicyInv

\* The file of an ended draft is removed.
LEMMA RemovePolicy ==
  ASSUME PolicyInv, Remove
  PROVE  PolicyInv'
<1>0. PolicyTypeOK
  BY DEF PolicyInv
<1>1. /\ run' = run /\ cand' = cand /\ draft' = draft /\ commitMode' = commitMode /\ write' = write
      /\ rolling' = rolling /\ saving' = saving /\ token' = token /\ outside' = outside
      /\ chances' \in [rollbacks : Nat, crashes : Nat, faults : Nat]
      /\ tails' \in [meta : Nat, remove : Nat] /\ tails.remove > 0 /\ ~gate' /\ gate' \in BOOLEAN
      /\ pfile' \in PolicyFiles /\ pfile'.rules = pfile.rules /\ pfile'.meta = pfile.meta
      /\ \/ pfile'.draft = pfile.draft /\ odd' = odd
         \/ pfile'.draft = NoFile /\ odd' = IF draft.on THEN odd \cup {"swept"} ELSE odd
  <2>1. /\ pfile \in PolicyFiles
        /\ \/ pfile' = pfile /\ odd' = odd
           \/ /\ pfile' = [pfile EXCEPT !.draft = NoFile]
              /\ odd' = IF draft.on THEN odd \cup {"swept"} ELSE odd
    BY <1>0 DEF Remove, Ignored, PolicyTypeOK
  <2>2. /\ pfile' \in PolicyFiles /\ pfile'.rules = pfile.rules /\ pfile'.meta = pfile.meta
        /\ \/ pfile'.draft = pfile.draft /\ odd' = odd
           \/ pfile'.draft = NoFile /\ odd' = IF draft.on THEN odd \cup {"swept"} ELSE odd
    BY <2>1, NothingFacts DEF PolicyFiles
  <2>c. chances' \in [rollbacks : Nat, crashes : Nat, faults : Nat]
    BY <1>0, TakeFacts DEF Remove, Ignored, PolicyTypeOK
  <2>3. tails' \in [meta : Nat, remove : Nat] /\ tails.remove > 0
    BY <1>0 DEF Remove, PolicyTypeOK
  <2> QED
    BY <2>2, <2>c, <2>3 DEF Remove
<1>2. PolicyTypeOK'
  BY <1>0, <1>1, NothingFacts DEF PolicyTypeOK
<1>3. VersionBounds'
  BY <1>0, <1>1, PolicyFields, GenerationFacts, NothingFacts DEF PolicyInv, VersionBounds, WriteShape
<1>4. WriteShape'
  BY <1>0, <1>1, PolicyFields, GenerationFacts, NothingFacts DEF PolicyInv, WriteShape
<1>5. TokenInv'
  BY <1>0, <1>1, PolicyFields, GenerationFacts, NothingFacts DEF PolicyInv, VersionBounds, WriteShape, TokenInv, Pending
<1>6. BaseInv'
  BY <1>0, <1>1, PolicyFields, GenerationFacts, NothingFacts DEF PolicyInv, VersionBounds, WriteShape, BaseInv
<1>7. DurableInv'
  BY <1>0, <1>1, PolicyFields, GenerationFacts, NothingFacts DEF PolicyInv, WriteShape, DurableInv
<1> QED
  BY <1>2, <1>3, <1>4, <1>5, <1>6, <1>7 DEF PolicyInv

\* A commit has compared the base with the running version.
LEMMA CommitCheckPolicy ==
  ASSUME PolicyInv, CommitCheck
  PROVE  PolicyInv'
<1>0. PolicyTypeOK
  BY DEF PolicyInv
<1>1. /\ run' = run /\ cand' = cand /\ draft' = draft /\ commitMode' = commitMode /\ write' = write
      /\ tails' = tails /\ rolling' = rolling /\ saving' = saving /\ pfile' = pfile /\ token' = token
      /\ outside' = outside /\ odd' = odd /\ chances' = chances
      /\ gate' \in BOOLEAN /\ gate' /\ write.at = "free" /\ draft.on /\ tails.meta = 0 /\ tails.remove = 0
      /\ run.v = draft.base /\ run.v < MaxPolicy /\ cand.v < MaxPolicy
  BY NothingFacts DEF CommitCheck, Exclusive, MayBegin, files
<1>2. PolicyTypeOK'
  BY <1>0, <1>1, NothingFacts DEF PolicyTypeOK
<1>3. VersionBounds'
  BY <1>0, <1>1, PolicyFields, GenerationFacts, NothingFacts DEF PolicyInv, VersionBounds, WriteShape
<1>4. WriteShape'
  BY <1>0, <1>1, PolicyFields, GenerationFacts, NothingFacts DEF PolicyInv, WriteShape
<1>5. TokenInv'
  BY <1>0, <1>1, PolicyFields, GenerationFacts, NothingFacts DEF PolicyInv, VersionBounds, WriteShape, TokenInv, Pending
<1>6. BaseInv'
  BY <1>0, <1>1, PolicyFields, GenerationFacts, NothingFacts DEF PolicyInv, VersionBounds, WriteShape, BaseInv
<1>7. DurableInv'
  BY <1>0, <1>1, PolicyFields, GenerationFacts, NothingFacts DEF PolicyInv, WriteShape, DurableInv
<1> QED
  BY <1>2, <1>3, <1>4, <1>5, <1>6, <1>7 DEF PolicyInv

\* Running becomes the candidate.
LEMMA CommitActivatePolicy ==
  ASSUME PolicyInv, CommitActivate
  PROVE  PolicyInv'
<1>0. PolicyTypeOK
  BY DEF PolicyInv
<1>1. /\ cand' = cand /\ draft' = draft /\ commitMode' = commitMode /\ gate' = gate /\ tails' = tails
      /\ rolling' = rolling /\ saving' = saving /\ pfile' = pfile /\ token' = token
      /\ outside' = outside /\ odd' = odd /\ chances' = chances
      /\ gate /\ write.at = "free" /\ draft.on
      /\ run' \in Store /\ run'.c = cand.c /\ run'.v > run.v /\ run'.v > cand.v /\ run'.v <= MaxPolicy + 1
      /\ run'.v \in Int
      /\ write' \in Held /\ write' # Free /\ write'.op = "commit" /\ write'.at = "save" /\ write'.prev = run.c
  <2>1. gate /\ write = Free /\ draft.on /\ write.at = "free" /\ run.v <= MaxPolicy /\ cand.v < MaxPolicy
    BY NothingFacts DEF CommitActivate, PolicyInv, VersionBounds
  <2>2. write' = [op |-> "commit", at |-> "save", prev |-> run.c, base |-> 0]
    BY DEF CommitActivate, Free
  <2>3. write' \in Held /\ write' # Free /\ write'.op = "commit" /\ write'.at = "save" /\ write'.prev = run.c
    BY <1>0, <2>2, HoldFacts, PolicyFields, GenerationFacts
  <2> DEFINE up == Above(run.v + 1, cand.v)
  <2>4. up \in {run.v + 1, cand.v + 1} /\ up > run.v /\ up > cand.v /\ up \in Int
    <3>1. run.v + 1 \in Int /\ cand.v \in Int /\ run.v \in Int
      BY <1>0, <2>1, PolicyFields
    <3>2. up \in Int /\ up >= run.v + 1 /\ up > cand.v /\ (up = run.v + 1 \/ up = cand.v + 1)
      BY <3>1, AboveFacts
    <3> QED
      BY <3>1, <3>2
  <2>5. up \in Generation /\ up <= MaxPolicy + 1
    BY <1>0, <2>1, <2>4, PolicyFields, GenerationFacts
  <2>6. run' = [c |-> cand.c, v |-> up] /\ cand.c \in Rules
    BY <1>0, <2>1, PolicyFields DEF CommitActivate
  <2> HIDE DEF up
  <2>7. run' \in Store /\ run'.c = cand.c /\ run'.v = up
    BY <2>5, <2>6 DEF Store
  <2> QED
    BY <2>1, <2>3, <2>4, <2>5, <2>7 DEF CommitActivate, files, control
<1>2. PolicyTypeOK'
  BY <1>0, <1>1, NothingFacts DEF PolicyTypeOK
<1>3. VersionBounds'
  BY <1>0, <1>1, PolicyFields, GenerationFacts, NothingFacts DEF PolicyInv, VersionBounds, WriteShape
<1>4. WriteShape'
  BY <1>0, <1>1, PolicyFields, GenerationFacts, NothingFacts DEF PolicyInv, WriteShape
<1>5. TokenInv'
  BY <1>0, <1>1, PolicyFields, GenerationFacts, NothingFacts DEF PolicyInv, VersionBounds, WriteShape, TokenInv, Pending
<1>6. BaseInv'
  BY <1>0, <1>1, PolicyFields, GenerationFacts, NothingFacts DEF PolicyInv, VersionBounds, WriteShape, BaseInv
<1>7. DurableInv'
  BY <1>0, <1>1, PolicyFields, GenerationFacts, NothingFacts DEF PolicyInv, WriteShape, DurableInv
<1> QED
  BY <1>2, <1>3, <1>4, <1>5, <1>6, <1>7 DEF PolicyInv

\* The candidate is dropped and the running counter passes it.
LEMMA RevertPolicy ==
  ASSUME PolicyInv, Revert
  PROVE  PolicyInv'
<1>0. PolicyTypeOK
  BY DEF PolicyInv
<1>1. /\ commitMode' = commitMode /\ write' = write /\ rolling' = rolling /\ saving' = saving
      /\ pfile' = pfile /\ token' = token /\ outside' = outside /\ odd' = odd /\ chances' = chances
      /\ gate' \in BOOLEAN /\ write.at = "free" /\ cand' = NoCand /\ draft' = NoDraft /\ draft.on /\ cand.v < MaxPolicy
      /\ run' \in Store /\ run'.c = run.c /\ run'.v \in {run.v, cand.v + 1} /\ run'.v >= run.v /\ run'.v > cand.v
      /\ tails' \in [meta : Nat, remove : Nat]
  <2>1. write = Free /\ draft.on /\ cand.v < MaxPolicy /\ gate' = TRUE /\ run \in Store
    BY <1>0 DEF Revert, Exclusive, MayBegin, PolicyTypeOK
  <2> DEFINE up == Above(run.v, cand.v)
  <2>2. up \in {run.v, cand.v + 1} /\ up >= run.v /\ up > cand.v
    BY <1>0, <2>1, AboveFacts, PolicyFields
  <2>3. up \in Generation
    BY <1>0, <2>1, <2>2, PolicyFields, GenerationFacts DEF PolicyInv, VersionBounds
  <2>4. run' = [run EXCEPT !.v = up]
    BY DEF Revert
  <2> HIDE DEF up
  <2>5. run' \in Store /\ run'.c = run.c /\ run'.v = up
    BY <2>1, <2>3, <2>4, VersionFacts
  <2>6. tails' \in [meta : Nat, remove : Nat]
    BY <1>0 DEF Revert, PolicyTypeOK
  <2> QED
    BY <2>1, <2>2, <2>5, <2>6, NothingFacts DEF Revert, files
<1>2. PolicyTypeOK'
  BY <1>0, <1>1, NothingFacts DEF PolicyTypeOK
<1>3. VersionBounds'
  BY <1>0, <1>1, PolicyFields, GenerationFacts, NothingFacts DEF PolicyInv, VersionBounds, WriteShape
<1>4. WriteShape'
  BY <1>0, <1>1, PolicyFields, GenerationFacts, NothingFacts DEF PolicyInv, WriteShape
<1>5. TokenInv'
  BY <1>0, <1>1, PolicyFields, GenerationFacts, NothingFacts DEF PolicyInv, VersionBounds, WriteShape, TokenInv, Pending
<1>6. BaseInv'
  BY <1>0, <1>1, PolicyFields, GenerationFacts, NothingFacts DEF PolicyInv, VersionBounds, WriteShape, BaseInv
<1>7. DurableInv'
  BY <1>0, <1>1, PolicyFields, GenerationFacts, NothingFacts DEF PolicyInv, WriteShape, DurableInv
<1> QED
  BY <1>2, <1>3, <1>4, <1>5, <1>6, <1>7 DEF PolicyInv

\* A rollback replaces the running rules, past the lock.
LEMMA RollbackPolicy ==
  ASSUME PolicyInv, Rollback
  PROVE  PolicyInv'
<1>0. PolicyTypeOK
  BY DEF PolicyInv
<1>1. /\ cand' = cand /\ draft' = draft /\ commitMode' = commitMode /\ write' = write /\ gate' = gate
      /\ tails' = tails /\ saving' = saving /\ pfile' = pfile /\ token' = token
      /\ run' \in Store /\ run'.c \in Rules /\ run'.v = run.v + 1 /\ run.v < MaxPolicy
      /\ rolling = "no" /\ rolling' = "save" /\ outside' = TRUE
      /\ odd' = IF gate \/ write.op \in {"edit", "commit"} THEN odd \cup {"raced"} ELSE odd
      /\ chances' \in [rollbacks : Nat, crashes : Nat, faults : Nat]
  <2>1. PICK c \in Rules : run' = Bumped(run, c)
    BY DEF Rollback
  <2>2. run.v < MaxPolicy
    BY DEF Rollback
  <2>3. run' \in Store /\ run'.c \in Rules /\ run'.v = run.v + 1
    BY <1>0, <2>1, <2>2, BumpFacts, PolicyFields, GenerationFacts
  <2>4. chances' \in [rollbacks : Nat, crashes : Nat, faults : Nat]
    BY <1>0, TakeFacts DEF Rollback
  <2> QED
    BY <2>2, <2>3, <2>4 DEF Rollback, Saved, files
<1>2. PolicyTypeOK'
  BY <1>0, <1>1, NothingFacts DEF PolicyTypeOK
<1>3. VersionBounds'
  BY <1>0, <1>1, PolicyFields, GenerationFacts, NothingFacts DEF PolicyInv, VersionBounds, WriteShape
<1>4. WriteShape'
  BY <1>0, <1>1, PolicyFields, GenerationFacts, NothingFacts DEF PolicyInv, WriteShape
<1>5. TokenInv'
  BY <1>0, <1>1, PolicyFields, GenerationFacts, NothingFacts DEF PolicyInv, VersionBounds, WriteShape, TokenInv, Pending
<1>6. BaseInv'
  BY <1>0, <1>1, PolicyFields, GenerationFacts, NothingFacts DEF PolicyInv, VersionBounds, WriteShape, BaseInv
<1>7. DurableInv'
  BY <1>0, <1>1, PolicyFields, GenerationFacts, NothingFacts DEF PolicyInv, WriteShape, DurableInv
<1> QED
  BY <1>2, <1>3, <1>4, <1>5, <1>6, <1>7 DEF PolicyInv

\* The rollback saves its rules, or fails to.
LEMMA RollbackSavePolicy ==
  ASSUME PolicyInv, RollbackSave
  PROVE  PolicyInv'
<1>0. PolicyTypeOK
  BY DEF PolicyInv
<1>1. /\ run' = run /\ cand' = cand /\ draft' = draft /\ commitMode' = commitMode /\ write' = write
      /\ gate' = gate /\ tails' = tails /\ token' = token /\ outside' = outside
      /\ rolling = "save" /\ write.at # "meta"
      /\ \/ /\ pfile' \in PolicyFiles /\ pfile'.rules = run.c /\ pfile'.meta = pfile.meta /\ pfile'.draft = pfile.draft
            /\ odd' = (odd \ {"unsaved"}) \cup (IF write.op \in {"edit", "commit"} THEN {"raced"} ELSE {})
            /\ saving' \in [by : {"none", "write", "roll"}, v : Generation] /\ saving'.by = "roll" /\ saving'.v = run.v
            /\ rolling' = "meta" /\ chances' = chances
         \/ /\ odd' = odd \cup {"unsaved"} /\ rolling' = "no" /\ pfile' = pfile /\ saving' = saving
            /\ chances' \in [rollbacks : Nat, crashes : Nat, faults : Nat]
  <2>1. rolling = "save" /\ write.at # "meta" /\ pfile \in PolicyFiles /\ run.c \in Rules /\ run.v \in Generation
    BY <1>0, NothingFacts DEF RollbackSave, PolicyInv, WriteShape, PolicyTypeOK, Store
  <2>2. CASE Take("faults") /\ odd' = odd \cup {"unsaved"} /\ rolling' = "no" /\ UNCHANGED <<pfile, saving>>
    BY <1>0, <2>1, <2>2, TakeFacts DEF RollbackSave
  <2>3. CASE /\ pfile' = [pfile EXCEPT !.rules = run.c]
             /\ odd' = (odd \ {"unsaved"}) \cup (IF Saved THEN {"raced"} ELSE {})
             /\ saving' = [by |-> "roll", v |-> run.v] /\ rolling' = "meta"
             /\ UNCHANGED chances
    <3>1. pfile' \in PolicyFiles /\ pfile'.rules = run.c /\ pfile'.meta = pfile.meta /\ pfile'.draft = pfile.draft
      BY <2>1, <2>3 DEF PolicyFiles
    <3>2. saving' \in [by : {"none", "write", "roll"}, v : Generation] /\ saving'.by = "roll" /\ saving'.v = run.v
      BY <2>1, <2>3
    <3> QED
      BY <2>1, <2>3, <3>1, <3>2 DEF RollbackSave, Saved
  <2> QED
    BY <2>2, <2>3 DEF RollbackSave
<1>2. PolicyTypeOK'
  BY <1>0, <1>1, NothingFacts DEF PolicyTypeOK
<1>3. VersionBounds'
  BY <1>0, <1>1, PolicyFields, GenerationFacts, NothingFacts DEF PolicyInv, VersionBounds, WriteShape
<1>4. WriteShape'
  BY <1>0, <1>1, PolicyFields, GenerationFacts, NothingFacts DEF PolicyInv, WriteShape
<1>5. TokenInv'
  BY <1>0, <1>1, PolicyFields, GenerationFacts, NothingFacts DEF PolicyInv, VersionBounds, WriteShape, TokenInv, Pending
<1>6. BaseInv'
  BY <1>0, <1>1, PolicyFields, GenerationFacts, NothingFacts DEF PolicyInv, VersionBounds, WriteShape, BaseInv
<1>7. DurableInv'
  BY <1>0, <1>1, PolicyFields, GenerationFacts, NothingFacts DEF PolicyInv, WriteShape, DurableInv
<1> QED
  BY <1>2, <1>3, <1>4, <1>5, <1>6, <1>7 DEF PolicyInv

\* The rollback writes .meta.
LEMMA RollbackMetaPolicy ==
  ASSUME PolicyInv, RollbackMeta
  PROVE  PolicyInv'
<1>0. PolicyTypeOK
  BY DEF PolicyInv
<1>1. /\ run' = run /\ cand' = cand /\ draft' = draft /\ commitMode' = commitMode /\ write' = write
      /\ gate' = gate /\ tails' = tails /\ token' = token /\ outside' = outside /\ odd' = odd
      /\ chances' \in [rollbacks : Nat, crashes : Nat, faults : Nat]
      /\ rolling = "meta" /\ rolling' = "no" /\ saving' = NoSave /\ saving.by = "roll"
      /\ pfile' \in PolicyFiles /\ pfile'.rules = pfile.rules /\ pfile'.meta \in {pfile.meta, saving.v}
      /\ pfile'.draft = pfile.draft
  <2>1. /\ pfile' \in {pfile, [pfile EXCEPT !.meta = saving.v]} /\ pfile \in PolicyFiles
        /\ saving.v \in Generation
    BY <1>0 DEF RollbackMeta, Ignored, PolicyTypeOK
  <2>2. /\ pfile' \in PolicyFiles /\ pfile'.rules = pfile.rules /\ pfile'.draft = pfile.draft
        /\ pfile'.meta \in {pfile.meta, saving.v}
    BY <2>1 DEF PolicyFiles
  <2>c. chances' \in [rollbacks : Nat, crashes : Nat, faults : Nat]
    BY <1>0, TakeFacts DEF RollbackMeta, Ignored, PolicyTypeOK
  <2> QED
    BY <2>2, <2>c DEF RollbackMeta, PolicyInv, WriteShape
<1>2. PolicyTypeOK'
  BY <1>0, <1>1, NothingFacts DEF PolicyTypeOK
<1>3. VersionBounds'
  BY <1>0, <1>1, PolicyFields, GenerationFacts, NothingFacts DEF PolicyInv, VersionBounds, WriteShape
<1>4. WriteShape'
  BY <1>0, <1>1, PolicyFields, GenerationFacts, NothingFacts DEF PolicyInv, WriteShape
<1>5. TokenInv'
  BY <1>0, <1>1, PolicyFields, GenerationFacts, NothingFacts DEF PolicyInv, VersionBounds, WriteShape, TokenInv, Pending
<1>6. BaseInv'
  BY <1>0, <1>1, PolicyFields, GenerationFacts, NothingFacts DEF PolicyInv, VersionBounds, WriteShape, BaseInv
<1>7. DurableInv'
  BY <1>0, <1>1, PolicyFields, GenerationFacts, NothingFacts DEF PolicyInv, WriteShape, DurableInv
<1> QED
  BY <1>2, <1>3, <1>4, <1>5, <1>6, <1>7 DEF PolicyInv

\* Require Commit is armed or disarmed.
LEMMA SetModePolicy ==
  ASSUME PolicyInv, SetMode
  PROVE  PolicyInv'
<1>0. PolicyTypeOK
  BY DEF PolicyInv
<1>1. /\ run' = run /\ cand' = cand /\ draft' = draft /\ write' = write /\ gate' = gate
      /\ tails' = tails /\ rolling' = rolling /\ saving' = saving /\ pfile' = pfile /\ token' = token
      /\ outside' = outside /\ odd' = odd /\ chances' = chances
      /\ commitMode' \in BOOLEAN /\ (commitMode => write.at = "free" /\ ~draft.on) /\ (commitMode' <=> ~commitMode)
  BY NothingFacts DEF SetMode, files
<1>2. PolicyTypeOK'
  BY <1>0, <1>1, NothingFacts DEF PolicyTypeOK
<1>3. VersionBounds'
  BY <1>0, <1>1, PolicyFields, GenerationFacts, NothingFacts DEF PolicyInv, VersionBounds, WriteShape
<1>4. WriteShape'
  BY <1>0, <1>1, PolicyFields, GenerationFacts, NothingFacts DEF PolicyInv, WriteShape
<1>5. TokenInv'
  BY <1>0, <1>1, PolicyFields, GenerationFacts, NothingFacts DEF PolicyInv, VersionBounds, WriteShape, TokenInv, Pending
<1>6. BaseInv'
  BY <1>0, <1>1, PolicyFields, GenerationFacts, NothingFacts DEF PolicyInv, VersionBounds, WriteShape, BaseInv
<1>7. DurableInv'
  BY <1>0, <1>1, PolicyFields, GenerationFacts, NothingFacts DEF PolicyInv, WriteShape, DurableInv
<1> QED
  BY <1>2, <1>3, <1>4, <1>5, <1>6, <1>7 DEF PolicyInv

\* The mode is saved.
LEMMA SaveModePolicy ==
  ASSUME PolicyInv, SaveMode
  PROVE  PolicyInv'
<1>0. PolicyTypeOK
  BY DEF PolicyInv
<1>1. /\ run' = run /\ cand' = cand /\ draft' = draft /\ commitMode' = commitMode /\ write' = write
      /\ gate' = gate /\ tails' = tails /\ rolling' = rolling /\ saving' = saving /\ token' = token
      /\ outside' = outside /\ odd' = odd /\ chances' = chances
      /\ pfile' \in PolicyFiles /\ pfile'.rules = pfile.rules /\ pfile'.meta = pfile.meta /\ pfile'.draft = pfile.draft
  <2>1. pfile' = [pfile EXCEPT !.armed = commitMode] /\ pfile \in PolicyFiles /\ commitMode \in BOOLEAN
    BY <1>0 DEF SaveMode, PolicyTypeOK
  <2>2. pfile' \in PolicyFiles /\ pfile'.rules = pfile.rules /\ pfile'.meta = pfile.meta /\ pfile'.draft = pfile.draft
    BY <2>1 DEF PolicyFiles
  <2> QED
    BY <2>2 DEF SaveMode, control
<1>2. PolicyTypeOK'
  BY <1>0, <1>1, NothingFacts DEF PolicyTypeOK
<1>3. VersionBounds'
  BY <1>0, <1>1, PolicyFields, GenerationFacts, NothingFacts DEF PolicyInv, VersionBounds, WriteShape
<1>4. WriteShape'
  BY <1>0, <1>1, PolicyFields, GenerationFacts, NothingFacts DEF PolicyInv, WriteShape
<1>5. TokenInv'
  BY <1>0, <1>1, PolicyFields, GenerationFacts, NothingFacts DEF PolicyInv, VersionBounds, WriteShape, TokenInv, Pending
<1>6. BaseInv'
  BY <1>0, <1>1, PolicyFields, GenerationFacts, NothingFacts DEF PolicyInv, VersionBounds, WriteShape, BaseInv
<1>7. DurableInv'
  BY <1>0, <1>1, PolicyFields, GenerationFacts, NothingFacts DEF PolicyInv, WriteShape, DurableInv
<1> QED
  BY <1>2, <1>3, <1>4, <1>5, <1>6, <1>7 DEF PolicyInv

\* A write of the running store is done.
LEMMA SucceedFacts ==
  ASSUME PolicyTypeOK, Succeed
  PROVE  /\ write' = Free /\ run' = run /\ gate' = gate
         /\ \/ write.op # "commit" /\ cand' = cand /\ draft' = draft /\ tails' = tails
            \/ /\ write.op = "commit" /\ cand' = NoCand /\ draft' = NoDraft
               /\ tails' \in [meta : Nat, remove : Nat]
<1>1. CASE write.op = "commit"
  <2>1. tails' \in [meta : Nat, remove : Nat]
    BY <1>1 DEF Succeed, PolicyTypeOK
  <2> QED
    BY <1>1, <2>1 DEF Succeed
<1> QED
  BY <1>1 DEF Succeed

\* A write of the running store is undone.
LEMMA FailFacts ==
  ASSUME PolicyInv, write.at = "save", Fail
  PROVE  /\ write' = Free /\ gate' \in BOOLEAN /\ ~gate' /\ cand' = cand /\ tails' = tails
         /\ run' \in Store /\ run'.c = write.prev /\ run'.v = run.v + 1
         /\ \/ write.op # "commit" /\ draft' = draft /\ pfile' = pfile
            \/ /\ write.op = "commit" /\ draft.on
               /\ draft' \in DraftState /\ draft'.on = TRUE /\ draft'.base = run.v + 1
               /\ pfile' \in PolicyFiles /\ pfile'.rules = pfile.rules /\ pfile'.meta = pfile.meta
               /\ \/ pfile' = pfile
                  \/ pfile'.draft \in DraftFile /\ pfile'.draft.c = cand.c /\ pfile'.draft.base = run.v + 1
<1>1. PolicyTypeOK /\ write.prev \in Rules /\ run.v <= MaxPolicy + 1 /\ run \in Store /\ pfile \in PolicyFiles
  BY DEF PolicyInv, PolicyTypeOK, WriteShape, VersionBounds
<1>2. run' \in Store /\ run'.c = write.prev /\ run'.v = run.v + 1
  <2>1. run.v <= MaxPolicy + 2
    BY <1>1, PolicyFields, GenerationFacts
  <2> QED
    BY <1>1, <2>1, BumpFacts DEF Fail
<1>3. CASE write.op = "commit"
  <2> DEFINE d == [draft EXCEPT !.base = run.v + 1]
             f == [c |-> cand.c, base |-> run.v + 1]
  <2>1. run.v + 1 \in Generation /\ draft.on /\ draft \in DraftState /\ cand.c \in Rules
    BY <1>1, <1>3, PolicyFields, GenerationFacts DEF PolicyInv, WriteShape, PolicyTypeOK
  <2>2. d \in DraftState /\ d.on = draft.on /\ d.base = run.v + 1
    BY <2>1 DEF DraftState
  <2>3. f \in DraftFile /\ f.c = cand.c /\ f.base = run.v + 1
    BY <2>1 DEF DraftFile
  <2>4. draft' = d /\ (pfile' = [pfile EXCEPT !.draft = f] \/ pfile' = pfile)
    BY <1>3, <2>2 DEF Fail
  <2> HIDE DEF d, f
  <2>5. CASE pfile' = [pfile EXCEPT !.draft = f]
    <3>1. pfile' \in PolicyFiles /\ pfile'.rules = pfile.rules /\ pfile'.meta = pfile.meta /\ pfile'.draft = f
      BY <1>1, <2>3, <2>5 DEF PolicyFiles
    <3> QED
      BY <1>2, <1>3, <2>1, <2>2, <2>3, <2>4, <3>1 DEF Fail
  <2>6. CASE pfile' = pfile
    BY <1>1, <1>2, <1>3, <2>1, <2>2, <2>4, <2>6 DEF Fail
  <2> QED
    BY <2>4, <2>5, <2>6
<1>4. CASE write.op # "commit"
  BY <1>2, <1>4 DEF Fail
<1> QED
  BY <1>3, <1>4

\* The rules of the running store are written, or the write undone.
LEMMA WriteRulesPolicy ==
  ASSUME PolicyInv, WriteRules
  PROVE  PolicyInv'
<1>0. PolicyTypeOK
  BY DEF PolicyInv
<1>1. /\ commitMode' = commitMode /\ rolling' = rolling /\ token' = token /\ outside' = outside
      /\ write.at = "save"
      /\ \/ /\ run' = run /\ cand' = cand /\ draft' = draft /\ gate' = gate /\ tails' = tails /\ chances' = chances
            /\ pfile' \in PolicyFiles /\ pfile'.rules = run.c /\ pfile'.meta = pfile.meta /\ pfile'.draft = pfile.draft
            /\ saving' \in [by : {"none", "write", "roll"}, v : Generation] /\ saving'.by = "write" /\ saving'.v = run.v
            /\ write' \in Held /\ write' # Free /\ write'.op = write.op /\ write'.at = "meta" /\ write'.prev = write.prev
            /\ rolling # "meta" /\ odd' = odd \ {"unsaved"}
         \/ /\ chances' \in [rollbacks : Nat, crashes : Nat, faults : Nat] /\ saving' = saving
            /\ pfile' \in PolicyFiles /\ pfile'.rules = run.c /\ pfile'.meta = pfile.meta /\ pfile'.draft = pfile.draft
            /\ odd' = odd \ {"unsaved"} /\ write' = Free /\ run' = run /\ gate' = gate
            /\ \/ write.op # "commit" /\ cand' = cand /\ draft' = draft /\ tails' = tails
               \/ /\ write.op = "commit" /\ cand' = NoCand /\ draft' = NoDraft
                  /\ tails' \in [meta : Nat, remove : Nat]
         \/ /\ chances' \in [rollbacks : Nat, crashes : Nat, faults : Nat] /\ saving' = saving /\ odd' = odd
            /\ write' = Free /\ gate' \in BOOLEAN /\ ~gate' /\ cand' = cand /\ tails' = tails
            /\ run' \in Store /\ run'.c = write.prev /\ run'.v = run.v + 1
            /\ \/ write.op # "commit" /\ draft' = draft /\ pfile' = pfile
               \/ /\ write.op = "commit" /\ draft.on
                  /\ draft' \in DraftState /\ draft'.on = TRUE /\ draft'.base = run.v + 1
                  /\ pfile' \in PolicyFiles /\ pfile'.rules = pfile.rules /\ pfile'.meta = pfile.meta
                  /\ \/ pfile' = pfile
                     \/ pfile'.draft \in DraftFile /\ pfile'.draft.c = cand.c /\ pfile'.draft.base = run.v + 1
  <2>1. /\ write.at = "save" /\ rolling # "meta" /\ write \in Held /\ pfile \in PolicyFiles
        /\ run.c \in Rules /\ run.v \in Generation
    BY <1>0, NothingFacts DEF WriteRules, PolicyInv, WriteShape, PolicyTypeOK, Store
  <2>2. pfile' = [pfile EXCEPT !.rules = run.c] =>
          pfile' \in PolicyFiles /\ pfile'.rules = run.c /\ pfile'.meta = pfile.meta /\ pfile'.draft = pfile.draft
    BY <2>1 DEF PolicyFiles
  <2>3. CASE /\ pfile' = [pfile EXCEPT !.rules = run.c]
             /\ saving' = [by |-> "write", v |-> run.v]
             /\ write' = [write EXCEPT !.at = "meta"]
             /\ odd' = odd \ {"unsaved"}
             /\ UNCHANGED <<run, cand, draft, gate, tails, chances>>
    <3>1. write' \in Held /\ write'.op = write.op /\ write'.at = "meta" /\ write'.prev = write.prev
      BY <2>1, <2>3 DEF Held
    <3>2. saving' \in [by : {"none", "write", "roll"}, v : Generation] /\ saving'.by = "write" /\ saving'.v = run.v
      BY <2>1, <2>3
    <3> QED
      BY <2>1, <2>2, <2>3, <3>1, <3>2, NothingFacts DEF WriteRules
  <2>4. CASE /\ Take("faults") /\ pfile' = [pfile EXCEPT !.rules = run.c] /\ Succeed
             /\ odd' = odd \ {"unsaved"} /\ UNCHANGED saving
    BY <1>0, <2>1, <2>2, <2>4, TakeFacts, SucceedFacts DEF WriteRules
  <2>5. CASE Take("faults") /\ Fail /\ UNCHANGED <<saving, odd>>
    BY <1>0, <2>1, <2>5, TakeFacts, FailFacts DEF WriteRules
  <2> QED
    BY <2>3, <2>4, <2>5 DEF WriteRules
<1>2. PolicyTypeOK'
  BY <1>0, <1>1, NothingFacts DEF PolicyTypeOK
<1>3. VersionBounds'
  BY <1>0, <1>1, PolicyFields, GenerationFacts, NothingFacts DEF PolicyInv, VersionBounds, WriteShape
<1>4. WriteShape'
  BY <1>0, <1>1, PolicyFields, GenerationFacts, NothingFacts DEF PolicyInv, WriteShape
<1>5. TokenInv'
  BY <1>0, <1>1, PolicyFields, GenerationFacts, NothingFacts DEF PolicyInv, VersionBounds, WriteShape, TokenInv, Pending
<1>6. BaseInv'
  BY <1>0, <1>1, PolicyFields, GenerationFacts, NothingFacts DEF PolicyInv, VersionBounds, WriteShape, BaseInv
<1>7. DurableInv'
  BY <1>0, <1>1, PolicyFields, GenerationFacts, NothingFacts DEF PolicyInv, WriteShape, DurableInv
<1> QED
  BY <1>2, <1>3, <1>4, <1>5, <1>6, <1>7 DEF PolicyInv

\* The .meta file follows, and the write is done.
LEMMA WriteMetaPolicy ==
  ASSUME PolicyInv, WriteMeta
  PROVE  PolicyInv'
<1>0. PolicyTypeOK
  BY DEF PolicyInv
<1>1. /\ run' = run /\ commitMode' = commitMode /\ gate' = gate /\ rolling' = rolling
      /\ token' = token /\ outside' = outside /\ odd' = odd
      /\ write.at = "meta" /\ saving' = NoSave /\ saving.by = "write" /\ rolling # "meta"
      /\ write' = Free /\ chances' \in [rollbacks : Nat, crashes : Nat, faults : Nat]
      /\ pfile' \in PolicyFiles /\ pfile'.rules = pfile.rules /\ pfile'.meta \in {pfile.meta, saving.v}
      /\ pfile'.draft = pfile.draft
      /\ \/ write.op # "commit" /\ cand' = cand /\ draft' = draft /\ tails' = tails
         \/ /\ write.op = "commit" /\ cand' = NoCand /\ draft' = NoDraft
            /\ tails' \in [meta : Nat, remove : Nat]
  <2>1. /\ write.at = "meta" /\ saving' = NoSave /\ saving.by = "write" /\ rolling # "meta"
        /\ pfile \in PolicyFiles /\ saving.v \in Generation /\ Succeed
    BY <1>0 DEF WriteMeta, PolicyInv, WriteShape, PolicyTypeOK
  <2>2. /\ pfile' \in PolicyFiles /\ pfile'.rules = pfile.rules /\ pfile'.meta \in {pfile.meta, saving.v}
        /\ pfile'.draft = pfile.draft
    <3>1. pfile' = [pfile EXCEPT !.meta = saving.v] \/ pfile' = pfile
      BY DEF WriteMeta, Ignored
    <3> QED
      BY <2>1, <3>1 DEF PolicyFiles
  <2>3. chances' \in [rollbacks : Nat, crashes : Nat, faults : Nat]
    BY <1>0, TakeFacts DEF WriteMeta, Ignored, PolicyTypeOK
  <2> QED
    BY <1>0, <2>1, <2>2, <2>3, SucceedFacts DEF WriteMeta
<1>2. PolicyTypeOK'
  BY <1>0, <1>1, NothingFacts DEF PolicyTypeOK
<1>3. VersionBounds'
  BY <1>0, <1>1, PolicyFields, GenerationFacts, NothingFacts DEF PolicyInv, VersionBounds, WriteShape
<1>4. WriteShape'
  BY <1>0, <1>1, PolicyFields, GenerationFacts, NothingFacts DEF PolicyInv, WriteShape
<1>5. TokenInv'
  BY <1>0, <1>1, PolicyFields, GenerationFacts, NothingFacts DEF PolicyInv, VersionBounds, WriteShape, TokenInv, Pending
<1>6. BaseInv'
  BY <1>0, <1>1, PolicyFields, GenerationFacts, NothingFacts DEF PolicyInv, VersionBounds, WriteShape, BaseInv
<1>7. DurableInv'
  BY <1>0, <1>1, PolicyFields, GenerationFacts, NothingFacts DEF PolicyInv, WriteShape, DurableInv
<1> QED
  BY <1>2, <1>3, <1>4, <1>5, <1>6, <1>7 DEF PolicyInv

\* A restart reads the files.
LEMMA RestartPolicy ==
  ASSUME PolicyInv, Restart
  PROVE  PolicyInv'
<1>0. PolicyTypeOK
  BY DEF PolicyInv
<1>1. /\ pfile' = pfile /\ token' = token
      /\ commitMode' \in BOOLEAN /\ write' = Free /\ gate' \in BOOLEAN /\ ~gate'
      /\ tails' \in [meta : Nat, remove : Nat]
      /\ rolling' = "no" /\ saving' = NoSave /\ chances' \in [rollbacks : Nat, crashes : Nat, faults : Nat]
      /\ run' \in Store /\ run'.c = pfile.rules /\ run'.v = pfile.meta /\ outside' \in BOOLEAN
      /\ odd' \subseteq {"torn", "restarted", "raced", "swept", "unsaved"}
      /\ odd \ {"unsaved", "swept"} \subseteq odd'
      /\ \/ pfile.draft = NoFile /\ cand' = NoCand /\ draft' = NoDraft
         \/ /\ pfile.draft # NoFile /\ cand' \in Store /\ cand'.c = pfile.draft.c /\ cand'.v = 1
            /\ draft' \in DraftState /\ draft'.on = TRUE /\ draft'.base = pfile.draft.base /\ "restarted" \in odd'
      /\ "torn" \notin odd' => run' = run /\ (draft.on => pfile.draft.base = draft.base)
      /\ outside' <=> IF draft.on THEN outside ELSE pfile.draft.base # pfile.meta
  <2>1. /\ run' = [c |-> pfile.rules, v |-> pfile.meta] /\ pfile.rules \in Rules /\ pfile.meta \in Generation
        /\ pfile.draft \in DraftFile /\ pfile.armed \in BOOLEAN
    BY <1>0 DEF Restart, PolicyTypeOK, PolicyFiles
  <2>2. run' \in Store /\ run'.c = pfile.rules /\ run'.v = pfile.meta
    BY <2>1 DEF Store
  <2>3. \/ pfile.draft = NoFile /\ cand' = NoCand /\ draft' = NoDraft
        \/ /\ pfile.draft # NoFile /\ cand' \in Store /\ cand'.c = pfile.draft.c /\ cand'.v = 1
           /\ draft' \in DraftState /\ draft'.on = TRUE /\ draft'.base = pfile.draft.base
    <3>1. CASE pfile.draft = NoFile
      BY <3>1 DEF Restart
    <3>2. CASE pfile.draft # NoFile
      <4>1. cand' = [c |-> pfile.draft.c, v |-> 1] /\ draft' = [on |-> TRUE, base |-> pfile.draft.base]
        BY <3>2 DEF Restart
      <4>2. pfile.draft.c \in Rules /\ 1 \in Generation /\ pfile.draft.base \in Generation
        BY <2>1, <3>2, GenerationFacts DEF PolicyInv, WriteShape, DraftFile
      <4> QED
        BY <3>2, <4>1, <4>2 DEF Store, DraftState
    <3> QED
      BY <3>1, <3>2
  <2>4. /\ odd' \subseteq {"torn", "restarted", "raced", "swept", "unsaved"}
        /\ odd \ {"unsaved", "swept"} \subseteq odd'
        /\ pfile.draft # NoFile => "restarted" \in odd'
    BY <1>0 DEF Restart, PolicyTypeOK
  <2>5. "torn" \notin odd' => run' = run /\ (draft.on => pfile.draft.base = draft.base)
    BY <2>1 DEF Restart
  <2>6. chances' \in [rollbacks : Nat, crashes : Nat, faults : Nat] /\ tails' \in [meta : Nat, remove : Nat]
    BY <1>0, TakeFacts DEF Restart
  <2>7. outside' \in BOOLEAN /\ (outside' <=> IF draft.on THEN outside ELSE pfile.draft.base # pfile.meta)
    BY <1>0 DEF Restart, PolicyTypeOK
  <2>8. /\ write' = Free /\ gate' \in BOOLEAN /\ ~gate' /\ rolling' = "no" /\ saving' = NoSave
        /\ pfile' = pfile /\ token' = token /\ commitMode' = pfile.armed
    BY DEF Restart
  <2> QED
    BY <2>1, <2>2, <2>3, <2>4, <2>5, <2>6, <2>7, <2>8
<1>2. PolicyTypeOK'
  BY <1>0, <1>1, NothingFacts DEF PolicyTypeOK
<1>3. VersionBounds'
  BY <1>0, <1>1, PolicyFields, GenerationFacts, NothingFacts DEF PolicyInv, VersionBounds, WriteShape
<1>4. WriteShape'
  BY <1>0, <1>1, PolicyFields, GenerationFacts, NothingFacts DEF PolicyInv, WriteShape
<1>5. TokenInv'
  BY <1>0, <1>1, PolicyFields, GenerationFacts, NothingFacts DEF PolicyInv, VersionBounds, WriteShape, TokenInv, Pending
<1>6. BaseInv'
  BY <1>0, <1>1, PolicyFields, GenerationFacts, NothingFacts DEF PolicyInv, VersionBounds, WriteShape, BaseInv
<1>7. DurableInv'
  BY <1>0, <1>1, PolicyFields, GenerationFacts, NothingFacts DEF PolicyInv, WriteShape, DurableInv
<1> QED
  BY <1>2, <1>3, <1>4, <1>5, <1>6, <1>7 DEF PolicyInv

\* The store as it starts.
LEMMA PolicyInitInv ==
  ASSUME PolicyInit
  PROVE  PolicyInv
<1>1. PICK c \in Rules : run = [c |-> c, v |-> 1] /\ pfile = [rules |-> c, meta |-> 1, draft |-> NoFile, armed |-> TRUE]
  BY DEF PolicyInit
<1>2. 1 \in Generation /\ 0 \in Generation
  BY GenerationFacts
<1>3. run \in Store /\ run.c = c /\ run.v = 1
  BY <1>1, <1>2 DEF Store
<1>4. pfile \in PolicyFiles /\ pfile.rules = c /\ pfile.meta = 1 /\ pfile.draft = NoFile
  BY <1>1, <1>2, NothingFacts DEF PolicyFiles
<1>5. token \in Token /\ token.of = "running" /\ token.v = 0
  BY <1>2 DEF PolicyInit, Token
<1>6. PolicyTypeOK
  BY <1>3, <1>4, <1>5, NothingFacts, PolicyAssumption DEF PolicyInit, PolicyTypeOK
<1>7. VersionBounds /\ WriteShape
  BY <1>3, <1>4, NothingFacts, GenerationFacts DEF PolicyInit, VersionBounds, WriteShape
<1>8. TokenInv /\ BaseInv /\ DurableInv
  BY <1>3, <1>4, <1>5, NothingFacts DEF PolicyInit, TokenInv, Pending, BaseInv, DurableInv
<1> QED
  BY <1>6, <1>7, <1>8 DEF PolicyInv

\* Every step keeps the invariant.
LEMMA PolicyNextInv ==
  ASSUME PolicyInv, [PolicyNext]_policyVars
  PROVE  PolicyInv'
<1>1. CASE UNCHANGED policyVars
  BY <1>1 DEF policyVars, PolicyInv, PolicyTypeOK, VersionBounds, WriteShape, TokenInv, Pending, BaseInv, DurableInv
<1> QED
  BY <1>1, LoadPolicy, EditRunningPolicy, StagePolicy, ForkPolicy, SettlePolicy, RefreshPolicy, RemovePolicy,
     CommitCheckPolicy, CommitActivatePolicy, RevertPolicy, WriteRulesPolicy, WriteMetaPolicy, RollbackPolicy,
     RollbackSavePolicy, RollbackMetaPolicy, SetModePolicy, SaveModePolicy, RestartPolicy DEF PolicyNext

\* The invariant holds throughout.
LEMMA PolicyInvariant == PolicySpec => []PolicyInv
BY PolicyInitInv, PolicyNextInv, PTL DEF PolicySpec

\* The variables of the policy store keep their types: no version passes the
\* bound by more than the operations under way, and there is a candidate
\* exactly while the draft is on.
THEOREM PolicyTypeCorrect == PolicySpec => []PolicyTypeOK
<1>1. PolicyInv => PolicyTypeOK
  BY DEF PolicyInv
<1> QED
  BY <1>1, PolicyInvariant, PTL

\* A version that a client was shown never comes to stand for other rules
\* (fencedMutate), for any rules, versions and mix of edits, drafts, commits,
\* rollbacks and failing writes, and for restarts that recover what was shown.
THEOREM VersionsHonest == PolicySpec => []TokensHonest
<1>1. PolicyInv => TokensHonest
  <2> SUFFICES ASSUME PolicyInv, odd \cap {"torn", "restarted"} = {}, write = Free,
                      token.of = "candidate" => draft.on, token.v = Shown(token.of).v
               PROVE  token.c = Shown(token.of).c
    BY DEF TokensHonest, Never
  <2>1. PolicyTypeOK /\ write.at = "free" /\ "torn" \notin odd /\ "restarted" \notin odd
    BY NothingFacts DEF PolicyInv
  <2>2. CASE token.of = "running"
    BY <2>1, <2>2 DEF PolicyInv, TokenInv, Shown
  <2>3. CASE token.of = "effective"
    <3>1. Shown(token.of) = IF commitMode /\ draft.on THEN cand ELSE run
      BY <2>3 DEF Shown, Effective, Engaged
    <3>2. draft.on => commitMode
      BY <2>1 DEF PolicyInv, TokenInv
    <3> QED
      BY <2>1, <2>3, <3>1, <3>2 DEF PolicyInv, TokenInv
  <2>4. CASE token.of = "candidate"
    <3>1. Shown(token.of) = cand
      BY <2>4 DEF Shown
    <3> QED
      BY <2>1, <2>4, <3>1 DEF PolicyInv, TokenInv
  <2> QED
    BY <2>1, <2>2, <2>3, <2>4, PolicyFields
<1> QED
  BY <1>1, PolicyInvariant, PTL

\* A commit clobbers no change that was made past the draft
\* (baseGenerationStale), except by a rollback that lands after the check.
THEOREM CommitClobbersNothing == PolicySpec => NoClobber
<1>1. PolicyInv /\ [PolicyNext]_policyVars =>
        [(write.op # "commit" /\ write'.op = "commit" /\ Never({"torn", "raced"})) => ~outside]_policyVars
  <2> SUFFICES ASSUME PolicyInv, PolicyNext, write.op # "commit", write'.op = "commit", Never({"torn", "raced"})
               PROVE  ~outside
    OBVIOUS
  <2>1. "torn" \notin odd /\ "raced" \notin odd
    BY DEF Never
  <2>2. PolicyTypeOK
    BY DEF PolicyInv
  <2>3. CASE CommitActivate
    <3>1. gate /\ draft.on
      BY <2>3 DEF CommitActivate
    <3> QED
      BY <2>1, <3>1 DEF PolicyInv, BaseInv
  <2>4. CASE EditRunning
    BY <2>4 DEF EditRunning, Free
  <2>5. CASE Stage
    <3>1. \/ write' = [op |-> "stage", at |-> "fork", prev |-> NoRules, base |-> run.v]
          \/ write' = [op |-> "stage", at |-> "settle", prev |-> cand.c, base |-> 0]
      BY <2>5 DEF Stage, Free
    <3> QED
      BY <3>1
  <2>6. CASE Fork
    BY <2>2, <2>6, NothingFacts DEF Fork, PolicyTypeOK, Held
  <2>7. CASE Settle \/ WriteMeta \/ Restart
    BY <2>7, NothingFacts DEF Settle, WriteMeta, Succeed, Restart
  <2>8. CASE WriteRules
    BY <2>2, <2>8, NothingFacts DEF WriteRules, Succeed, Fail, PolicyTypeOK, Held
  <2>9. CASE Load \/ Refresh \/ Remove \/ CommitCheck \/ Revert
    BY <2>9 DEF Load, Refresh, Remove, CommitCheck, Revert
  <2>10. CASE Rollback \/ RollbackSave \/ RollbackMeta \/ SetMode \/ SaveMode
    BY <2>10 DEF Rollback, RollbackSave, RollbackMeta, SetMode, SaveMode
  <2> QED
    BY <2>3, <2>4, <2>5, <2>6, <2>7, <2>8, <2>9, <2>10 DEF PolicyNext
<1> QED
  BY <1>1, PolicyInvariant, PTL DEF PolicySpec, NoClobber

\* What was acknowledged is in the files between writes, whatever write failed
\* (persistLocked, SaveErr), with the exceptions AckedDurable names.
THEOREM AcknowledgedIsSaved == PolicySpec => []AckedDurable
<1>1. PolicyInv => AckedDurable
  <2> SUFFICES ASSUME PolicyInv, write = Free
               PROVE  /\ draft.on /\ Never({"swept"}) => pfile.draft.c = cand.c
                      /\ rolling = "no" /\ Never({"unsaved", "raced"}) => pfile.rules = run.c
    BY DEF AckedDurable
  <2>1. write.at = "free"
    BY NothingFacts
  <2> QED
    BY <2>1 DEF PolicyInv, DurableInv, Never
<1> QED
  BY <1>1, PolicyInvariant, PTL

=============================================================================
