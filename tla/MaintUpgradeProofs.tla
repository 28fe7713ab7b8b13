------------------------- MODULE MaintUpgradeProofs -------------------------
(***************************************************************************)
(* Proofs about the destructive operations of the maintenance agent        *)
(* (MaintUpgrade).  What a property says of the operation that moved the   *)
(* tag, or that is about to report its end, has to be known of every stage *)
(* before it: what the operation has pinned, captured and pulled (OpInv),  *)
(* what its record on disk says of that (RecordInv), and that nothing but  *)
(* its own removal touches the record of an operation that was cut short   *)
(* (MoverInv).                                                             *)
(***************************************************************************)
EXTENDS MaintUpgrade, FiniteSetTheorems, TLAPS

-----------------------------------------------------------------------------
(* The inductive invariant.                                                *)

Quiet == {"idle", "down"}
Early == {"resolve", "backup", "pull", "barrier"}
Moving == {"tag", "up", "mark", "health", "verify"}
Back == {"rb_pull", "rb_tag", "rb_up", "rb_health", "rb_verify"}
DataStages == {"stop", "commit", "start", "check"}
Ended == {"succeeded", "rolledback", "failed"}

\* The operation in flight is the last one begun, and history says what it is.
SelfInv ==
  /\ op.at \in Quiet => op.id = 0
  /\ op.at \notin Quiet =>
       /\ op.id = begun /\ begun > 0
       /\ hist[op.id].kind = op.kind /\ hist[op.id].end = "running" /\ hist[op.id].to = op.req.img
       /\ op.kind = "apply" => hist[op.id].was = op.pid
  /\ \A o \in OpId : hist[o].end = "running" => op.at \notin Quiet /\ o = op.id
  /\ \A o \in retire : o <= begun /\ hist[o].end \in Ended

\* Its stage tells what it is and has found out.
OpInv ==
  /\ op.at = "capture" => op.kind \in {"apply", "image"} /\ op.pid = NoImage
  /\ op.at \in {"capture", "resolve"} => op.pin = NoRef
  /\ op.at \in Early \cup Moving => op.kind = "apply"
  /\ op.at \in {"capture"} \cup Early \cup Moving => ~op.failed /\ ~op.restored /\ ~op.post /\ ~op.inline
  /\ op.at \in {"backup", "pull", "barrier"} \cup Moving => op.pin = op.req
  /\ op.at \in Back =>
       /\ op.kind \in {"apply", "image"} /\ ~op.restored
       /\ op.kind = "apply" => op.failed /\ op.inline /\ op.pref # NoRef
       /\ op.kind = "image" => ~op.failed
  /\ op.at \in DataStages => op.kind \in {"data", "restore"}
  /\ op.kind \in {"apply", "image"} => op.req # NoRef
  /\ op.pref # NoRef => op.pref.img = op.pid

\* What it has done to Docker by then.
HostInv ==
  /\ op.at = "resolve" /\ op.pid # NoImage => docker.run \in {op.pid, NoImage}
  /\ op.at \in {"barrier"} \cup Moving => op.pin.d \in docker.names[op.pin.img]
  /\ op.at \in Back \ {"rb_pull"} => Core.d \in docker.names[Core.img]
  /\ op.at \in {"rb_up", "rb_health", "rb_verify"} => docker.tag = Core.img

\* Its record.
RecordInv ==
  /\ op.at \notin Quiet /\ op.kind = "apply" =>
       /\ journal[op.id] = NoRecord \/ journal[op.id].kind = "apply"
       /\ journal[op.id].pid \in {NoImage, op.pid}
  /\ op.at \in Moving \/ (op.at \in Back /\ op.kind = "apply") =>
       /\ journal[op.id].phase \in DangerPhases
       /\ journal[op.id].tref = op.pin /\ journal[op.id].pid = op.pid
  /\ op.at \notin Quiet /\ op.kind = "image" =>
       journal[op.id].kind = "image" /\ journal[op.id].tref = op.req

\* The operation that moved the tag, until it has ended.
MoverInv ==
  /\ mover <= begun
  /\ op.at \in {"capture", "tag"} \cup Early => mover < op.id
  /\ mover # 0 /\ hist[mover].end \in {"running", "cut"} =>
       /\ hist[mover].kind \in {"apply", "image"} /\ journal[mover].kind = hist[mover].kind
       /\ journal[mover].tref # NoRef /\ journal[mover].tref.img = docker.tag
       /\ journal[mover].tref.d \in docker.names[docker.tag]
       /\ hist[mover].kind = "apply" =>
            journal[mover].phase \in DangerPhases /\ journal[mover].pid = hist[mover].was

MaintInv == MaintTypeOK /\ SelfInv /\ OpInv /\ HostInv /\ RecordInv /\ MoverInv /\ OutcomeHonest

-----------------------------------------------------------------------------
(* The records of the model and what changes them.                         *)

\* References.
LEMMA RefFacts ==
  /\ NoImage \notin Image /\ NoRef \notin Ref /\ NoRef.img = NoImage
  /\ \A r \in Ref : r.img \in Image /\ r.d \in Digests
BY MaintAssumption DEF Ref, NoRef

\* The fields of the variables.
LEMMA TypeFields ==
  ASSUME MaintTypeOK
  PROVE  /\ op.id \in Int /\ op.id >= 0 /\ op.id <= MaxOps /\ (op.id > 0 => op.id \in OpId)
         /\ begun \in Int /\ begun >= 0 /\ begun <= MaxOps /\ MaxOps \in Int
         /\ mover \in Int /\ mover >= 0 /\ (mover # 0 => mover \in OpId)
         /\ \A o \in OpId : o \in Int /\ o > 0 /\ o <= MaxOps
         /\ \A o \in Int : o > 0 /\ o <= MaxOps => o \in OpId
BY MaintAssumption DEF MaintTypeOK, InFlight, OpId

\* The fields of the operation.
LEMMA OpFields ==
  ASSUME NEW x \in InFlight
  PROVE  /\ x.kind \in Kinds /\ x.at \in Stages /\ x.req \in Ref \cup {NoRef}
         /\ x.pref \in Ref \cup {NoRef} /\ x.pin \in Ref \cup {NoRef}
         /\ x.pid \in Image \cup {NoImage} /\ x.tid \in Image \cup {NoImage} /\ x.id \in 0..MaxOps
         /\ x.failed \in BOOLEAN /\ x.post \in BOOLEAN /\ x.inline \in BOOLEAN /\ x.restored \in BOOLEAN
         /\ x.undo \in BOOLEAN /\ x.names \in SUBSET Digests
BY DEF InFlight

\* The operation goes on.
LEMMA ToFacts ==
  ASSUME op \in InFlight, NEW stage \in Stages, op' = [op EXCEPT !.at = stage]
  PROVE  /\ op' \in InFlight /\ op'.at = stage /\ op'.id = op.id /\ op'.kind = op.kind /\ op'.req = op.req
         /\ op'.pid = op.pid /\ op'.pref = op.pref /\ op'.pin = op.pin /\ op'.failed = op.failed
         /\ op'.restored = op.restored /\ op'.post = op.post /\ op'.inline = op.inline
BY DEF InFlight

\* A stage that failed: the recovery stages follow, or the end.
LEMMA FailedFacts ==
  ASSUME op \in InFlight, FailWith(op) \/ (FailPost /\ op.kind = "apply")
  PROVE  /\ op' \in InFlight /\ op'.id = op.id /\ op'.kind = op.kind /\ op'.req = op.req
         /\ op'.pid = op.pid /\ op'.pref = op.pref /\ op'.pin = op.pin
         /\ op'.failed = TRUE /\ op'.restored = op.restored
         /\ \/ op'.at = "finish"
            \/ /\ op'.at = "rb_pull" /\ op.kind = "apply" /\ op.pref # NoRef /\ ~op.inline /\ op'.inline = TRUE
               /\ FailWith(op) => op.post
<1>1. CASE FailWith(op)
  <2> DEFINE back == RollsBack(op)
  <2>1. /\ op' = [op EXCEPT !.failed = TRUE, !.inline = back,
                            !.at = IF back /\ ~op.inline THEN "rb_pull" ELSE "finish"]
        /\ back \in BOOLEAN
        /\ back <=> op.kind = "apply" /\ op.post /\ op.undo /\ op.pref # NoRef
    BY <1>1, OpFields DEF FailWith, RollsBack
  <2> HIDE DEF back
  <2>2. op' \in InFlight
    <3> DEFINE go == IF back /\ ~op.inline THEN "rb_pull" ELSE "finish"
    <3>1. go \in Stages /\ op' = [op EXCEPT !.failed = TRUE, !.inline = back, !.at = go]
      BY <2>1 DEF Stages
    <3> HIDE DEF go
    <3> QED
      BY <2>1, <3>1 DEF InFlight
  <2>3. /\ op'.id = op.id /\ op'.kind = op.kind /\ op'.req = op.req /\ op'.pid = op.pid
        /\ op'.pref = op.pref /\ op'.pin = op.pin /\ op'.failed = TRUE /\ op'.restored = op.restored
        /\ op'.inline = back /\ op'.at = IF back /\ ~op.inline THEN "rb_pull" ELSE "finish"
    BY <2>1 DEF InFlight
  <2> QED
    BY <2>1, <2>2, <2>3
<1>2. CASE FailPost /\ op.kind = "apply" /\ ~FailWith(op)
  <2> DEFINE acc == [op EXCEPT !.post = op.kind = "apply"]
             back == RollsBack(acc)
  <2>1. /\ acc \in InFlight /\ acc.id = op.id /\ acc.kind = op.kind /\ acc.req = op.req
        /\ acc.pid = op.pid /\ acc.pref = op.pref /\ acc.pin = op.pin /\ acc.restored = op.restored
        /\ acc.inline = op.inline
    BY DEF InFlight
  <2>2. back \in BOOLEAN /\ (back => op.pref # NoRef)
    BY <2>1, OpFields DEF RollsBack
  <2>3. op' = [acc EXCEPT !.failed = TRUE, !.inline = back,
                          !.at = IF back /\ ~acc.inline THEN "rb_pull" ELSE "finish"]
    BY <1>2 DEF FailPost, FailWith
  <2> HIDE DEF acc, back
  <2>4. op' \in InFlight
    <3> DEFINE go == IF back /\ ~acc.inline THEN "rb_pull" ELSE "finish"
    <3>1. go \in Stages /\ op' = [acc EXCEPT !.failed = TRUE, !.inline = back, !.at = go]
      BY <2>3 DEF Stages
    <3> HIDE DEF go
    <3> QED
      BY <2>1, <2>2, <3>1 DEF InFlight
  <2>5. /\ op'.id = acc.id /\ op'.kind = acc.kind /\ op'.req = acc.req /\ op'.pid = acc.pid
        /\ op'.pref = acc.pref /\ op'.pin = acc.pin /\ op'.failed = TRUE /\ op'.restored = acc.restored
        /\ op'.inline = back /\ op'.at = IF back /\ ~acc.inline THEN "rb_pull" ELSE "finish"
    BY <2>1, <2>3 DEF InFlight
  <2> QED
    BY <1>2, <2>1, <2>2, <2>4, <2>5
<1> QED
  BY <1>1, <1>2

\* What is left of the scenario.
LEMMA SpendFacts ==
  ASSUME luck \in Luck, NEW what \in {"crashes", "faults", "disk", "losses", "late", "outages"}, Spend(what)
  PROVE  luck' \in Luck
<1>1. luck[what] > 0 /\ luck' = [luck EXCEPT ![what] = @ - 1]
  BY DEF Spend
<1>2. CASE what = "crashes"
  BY <1>1, <1>2 DEF Luck
<1>3. CASE what = "faults"
  BY <1>1, <1>3 DEF Luck
<1>4. CASE what = "disk"
  BY <1>1, <1>4 DEF Luck
<1>5. CASE what = "losses"
  BY <1>1, <1>5 DEF Luck
<1>6. CASE what = "late"
  BY <1>1, <1>6 DEF Luck
<1>7. CASE what = "outages"
  BY <1>1, <1>7 DEF Luck
<1> QED
  BY <1>2, <1>3, <1>4, <1>5, <1>6, <1>7

\* Commands that run, fail, or find the stack ready or not.
LEMMA CommandFacts ==
  ASSUME luck \in Luck, Runs \/ Fails \/ Ready \/ NotReady
  PROVE  luck' \in Luck
BY SpendFacts DEF Runs, Fails, Ready, NotReady

\* What a capture finds is what runs.
LEMMA CaptureFacts ==
  ASSUME MaintTypeOK, NEW c \in Captures, NEW lk \in Budgets, Capture(c, lk)
  PROVE  /\ lk \in Luck /\ c.id \in Image \cup {NoImage} /\ c.names \in SUBSET Digests
         /\ c.id # NoImage => c.id = docker.run
         /\ c.id = NoImage => c.names = {}
<1>1. lk \in Luck
  BY DEF Budgets, MaintTypeOK, Luck
<1>2. c.id \in Image \cup {NoImage} /\ c.names \in SUBSET Digests
  BY DEF Captures
<1>3. (c.id # NoImage => c.id = docker.run) /\ (c.id = NoImage => c.names = {})
  BY DEF Capture, Nothing
<1> QED
  BY <1>1, <1>2, <1>3

\* A usable prior names the image captured.
LEMMA PriorFacts ==
  ASSUME NEW c, c.id \in Image \cup {NoImage}, c.names \in SUBSET Digests, c.id = NoImage => c.names = {}
  PROVE  PriorRef(c) \in Ref \cup {NoRef} /\ (PriorRef(c) # NoRef => PriorRef(c).img = c.id)
<1>1. CASE Cardinality(c.names) = 1
  <2>1. c.names # {}
    BY <1>1, FS_EmptySet
  <2>2. (CHOOSE n \in c.names : TRUE) \in Digests /\ c.id \in Image
    BY <2>1
  <2>3. PriorRef(c) = [img |-> c.id, d |-> CHOOSE n \in c.names : TRUE]
    BY <1>1 DEF PriorRef
  <2> QED
    BY <2>2, <2>3 DEF Ref
<1>2. CASE Cardinality(c.names) # 1
  BY <1>2 DEF PriorRef
<1> QED
  BY <1>1, <1>2

\* The fields of a record.
LEMMA JournalFields ==
  ASSUME NEW rec \in Record \cup {NoRecord}
  PROVE  /\ rec # NoRecord => rec \in Record /\ rec.kind # "none"
         /\ rec.tref \in Ref \cup {NoRef} /\ rec.pid \in Image \cup {NoImage}
         /\ NoRecord.pid = NoImage /\ NoRecord.kind = "none" /\ NoRecord.phase = "none"
         /\ NoRecord.tref = NoRef
BY DEF Record, NoRecord

\* The identifiers folded into a record.
LEMMA FoldFacts ==
  ASSUME NEW rec \in Record, NEW acc \in InFlight, NEW phase \in SafePhases \cup DangerPhases
  PROVE  /\ Fold(rec, phase, acc) \in Record /\ Fold(rec, phase, acc).kind = rec.kind
         /\ Fold(rec, phase, acc).phase = phase
         /\ Fold(rec, phase, acc).tref = IF acc.pin # NoRef THEN acc.pin ELSE rec.tref
         /\ Fold(rec, phase, acc).pid = IF acc.pid # NoImage THEN acc.pid ELSE rec.pid
<1> DEFINE t == IF acc.pin # NoRef THEN acc.pin ELSE rec.tref
           r == IF acc.pref # NoRef THEN acc.pref ELSE rec.pref
           i == IF acc.pid # NoImage THEN acc.pid ELSE rec.pid
           d == IF acc.tid # NoImage THEN acc.tid ELSE rec.tid
<1>1. /\ t \in Ref \cup {NoRef} /\ r \in Ref \cup {NoRef} /\ i \in Image \cup {NoImage}
      /\ d \in Image \cup {NoImage}
  BY OpFields DEF Record
<1>2. Fold(rec, phase, acc) = [rec EXCEPT !.phase = phase, !.tref = t, !.pref = r, !.pid = i, !.tid = d]
  BY DEF Fold
<1>3. t = (IF acc.pin # NoRef THEN acc.pin ELSE rec.tref) /\ i = (IF acc.pid # NoImage THEN acc.pid ELSE rec.pid)
  OBVIOUS
<1> HIDE DEF t, r, i, d
<1>4. Fold(rec, phase, acc) \in Record
  BY <1>1, <1>2 DEF Record
<1>5. /\ Fold(rec, phase, acc).kind = rec.kind /\ Fold(rec, phase, acc).phase = phase
      /\ Fold(rec, phase, acc).tref = t /\ Fold(rec, phase, acc).pid = i
  BY <1>2 DEF Record
<1> QED
  BY <1>3, <1>4, <1>5

\* The note a stage leaves in the record of its operation, if it can.
LEMMA NoteFacts ==
  ASSUME MaintTypeOK, op.id \in OpId, NEW acc \in InFlight, NEW phase \in SafePhases \cup DangerPhases,
         NEW lk \in Luck, Note(phase, acc, lk)
  PROVE  /\ luck' \in Luck /\ journal' \in [OpId -> Record \cup {NoRecord}]
         /\ \A o \in OpId : o # op.id => journal'[o] = journal[o]
         /\ \/ journal'[op.id] = journal[op.id]
            \/ /\ journal[op.id] # NoRecord /\ journal'[op.id].kind = journal[op.id].kind
               /\ journal'[op.id] # NoRecord
               /\ journal'[op.id].phase = phase
               /\ journal'[op.id].tref = IF acc.pin # NoRef THEN acc.pin ELSE journal[op.id].tref
               /\ journal'[op.id].pid = IF acc.pid # NoImage THEN acc.pid ELSE journal[op.id].pid
<1>0. journal \in [OpId -> Record \cup {NoRecord}]
  BY DEF MaintTypeOK
<1>1. luck' \in Luck
  BY DEF Note, Luck
<1>2. CASE journal' = journal
  BY <1>0, <1>1, <1>2
<1>3. CASE journal[op.id] # NoRecord /\ journal' = [journal EXCEPT ![op.id] = Fold(@, phase, acc)]
  <2>1. journal[op.id] \in Record
    BY <1>0, <1>3
  <2> DEFINE new == Fold(journal[op.id], phase, acc)
  <2>2. /\ new \in Record /\ new.kind = journal[op.id].kind /\ new.phase = phase
        /\ new.tref = IF acc.pin # NoRef THEN acc.pin ELSE journal[op.id].tref
        /\ new.pid = IF acc.pid # NoImage THEN acc.pid ELSE journal[op.id].pid
    BY <2>1, FoldFacts
  <2>3. journal' = [journal EXCEPT ![op.id] = new]
    BY <1>3
  <2>4. new # NoRecord
    BY <2>2 DEF Record, NoRecord
  <2> HIDE DEF new
  <2> QED
    BY <1>0, <1>1, <1>3, <2>2, <2>3, <2>4
<1> QED
  BY <1>2, <1>3 DEF Note

\* Docker: the fields, a pull, a tag, another container.
LEMMA HostFacts ==
  ASSUME docker \in Host
  PROVE  /\ docker.tag \in Image /\ docker.run \in Image \cup {NoImage}
         /\ \A r \in Ref : LET h == Pulled(r) IN
              /\ h \in Host /\ h.tag = docker.tag /\ h.run = docker.run /\ r.d \in h.names[r.img]
              /\ \A i \in Image : docker.names[i] \subseteq h.names[i]
         /\ \A i \in Image : LET h == [docker EXCEPT !.tag = i] IN
              h \in Host /\ h.tag = i /\ h.run = docker.run /\ h.names = docker.names
         /\ \A i \in Image \cup {NoImage} : LET h == [docker EXCEPT !.run = i] IN
              h \in Host /\ h.tag = docker.tag /\ h.run = i /\ h.names = docker.names
<1>1. docker.tag \in Image /\ docker.run \in Image \cup {NoImage} /\ docker.names \in [Image -> SUBSET Digests]
  BY DEF Host
<1>2. ASSUME NEW r \in Ref
      PROVE  LET h == Pulled(r) IN
              /\ h \in Host /\ h.tag = docker.tag /\ h.run = docker.run /\ r.d \in h.names[r.img]
              /\ \A i \in Image : docker.names[i] \subseteq h.names[i]
  <2> DEFINE n == [docker.names EXCEPT ![r.img] = @ \cup {r.d}]
  <2>1. r.img \in Image /\ r.d \in Digests
    BY DEF Ref
  <2>2. /\ n \in [Image -> SUBSET Digests] /\ r.d \in n[r.img]
        /\ \A i \in Image : docker.names[i] \subseteq n[i]
    BY <1>1, <2>1
  <2>3. Pulled(r) = [docker EXCEPT !.names = n]
    BY DEF Pulled, Host
  <2> HIDE DEF n
  <2>4. /\ Pulled(r) \in Host /\ Pulled(r).tag = docker.tag /\ Pulled(r).run = docker.run
        /\ Pulled(r).names = n
    BY <2>2, <2>3 DEF Host
  <2> QED
    BY <2>2, <2>4
<1>3. \A i \in Image : LET h == [docker EXCEPT !.tag = i] IN
        h \in Host /\ h.tag = i /\ h.run = docker.run /\ h.names = docker.names
  BY DEF Host
<1>4. \A i \in Image \cup {NoImage} : LET h == [docker EXCEPT !.run = i] IN
        h \in Host /\ h.tag = docker.tag /\ h.run = i /\ h.names = docker.names
  BY DEF Host
<1> QED
  BY <1>1, <1>2, <1>3, <1>4

\* `compose up` changes what runs, at most.
LEMMA UpFacts ==
  ASSUME docker \in Host, Recreated \/ Indeterminate
  PROVE  docker' \in Host /\ docker'.tag = docker.tag /\ docker'.names = docker.names
<1>1. docker.tag \in Image \cup {NoImage} /\ NoImage \in Image \cup {NoImage}
  BY HostFacts
<1>2. \A i \in Image \cup {NoImage} :
        docker' = [docker EXCEPT !.run = i] =>
          docker' \in Host /\ docker'.tag = docker.tag /\ docker'.names = docker.names
  BY HostFacts
<1>3. docker' = docker \/ \E i \in Image \cup {NoImage} : docker' = [docker EXCEPT !.run = i]
  BY <1>1 DEF Recreated, Indeterminate
<1> QED
  BY <1>2, <1>3

-----------------------------------------------------------------------------
(* The steps.                                                              *)

\* A stage fails: nothing is taken back, and an inline rollback begins only after
\* the restart, with the record in its danger phase.
LEMMA FailureKeeps ==
  ASSUME MaintInv,
         op.at \in Early \cup Moving \cup Back, FailWith(op) \/ (FailPost /\ op.at \in Moving),
         docker' \in Host, docker'.tag = docker.tag, docker'.names = docker.names,
         journal' \in [OpId -> Record \cup {NoRecord}], \A o \in OpId : o # op.id => journal'[o] = journal[o],
         \/ journal'[op.id] = journal[op.id]
         \/ op.at = "barrier" /\ journal'[op.id].kind = "apply" /\ journal'[op.id].pid \in {NoImage, op.pid},
         begun' = begun, retire' = retire, hist' = hist, gated' = gated, mover' = mover, luck' \in Luck
  PROVE  MaintInv'
<1>0. MaintTypeOK
  BY DEF MaintInv
<1>1. /\ op' \in InFlight /\ op'.id = op.id /\ op'.kind = op.kind /\ op'.req = op.req
      /\ op'.pid = op.pid /\ op'.pref = op.pref /\ op'.pin = op.pin
      /\ op'.failed = TRUE /\ op'.restored = op.restored /\ ~op.restored /\ op.id \in OpId
      /\ op.kind \in {"apply", "image"}
      /\ \/ op'.at = "finish"
         \/ /\ op'.at = "rb_pull" /\ op.kind = "apply" /\ op.pref # NoRef /\ op'.inline = TRUE
            /\ op.at \in Moving
  <2>1. op \in InFlight /\ (op.at \in Moving => op.kind = "apply")
    BY <1>0 DEF MaintInv, MaintTypeOK, OpInv
  <2>2. ~op.restored /\ op.id \in OpId /\ op.kind \in {"apply", "image"}
    BY <1>0, TypeFields DEF MaintInv, OpInv, SelfInv, Quiet, Early, Moving, Back
  <2>3. op.at \in Back /\ op.kind = "apply" => op.inline
    BY DEF MaintInv, OpInv
  <2>4. op.at \in Early \cup Moving => ~op.post
    BY DEF MaintInv, OpInv
  <2>5. CASE FailWith(op)
    BY <2>1, <2>2, <2>3, <2>4, <2>5, FailedFacts
  <2>6. CASE FailPost /\ op.at \in Moving
    BY <2>1, <2>2, <2>6, FailedFacts
  <2> QED
    BY <2>5, <2>6
<1>2. MaintTypeOK'
  BY <1>0, <1>1 DEF MaintTypeOK
<1>3. SelfInv'
  BY <1>0, <1>1, TypeFields DEF MaintInv, SelfInv, Quiet, Early, Moving, Back, DataStages
<1>4. OpInv'
  BY <1>0, <1>1 DEF MaintInv, OpInv, Quiet, Early, Moving, Back, DataStages
<1>5. HostInv'
  BY <1>0, <1>1 DEF MaintInv, OpInv, HostInv, Core, Quiet, Early, Moving, Back, DataStages
<1>6. RecordInv'
  BY <1>0, <1>1 DEF MaintInv, SelfInv, OpInv, RecordInv, Quiet, Early, Moving, Back, DataStages
<1>7. MoverInv'
  BY <1>0, <1>1, TypeFields DEF MaintInv, SelfInv, OpInv, MoverInv, Quiet, Early, Moving, Back, DataStages
<1>8. OutcomeHonest'
  BY <1>0, <1>1 DEF MaintInv, SelfInv, OpInv, OutcomeHonest, Quiet, Early, Moving, Back, DataStages
<1> QED
  BY <1>2, <1>3, <1>4, <1>5, <1>6, <1>7, <1>8 DEF MaintInv

\* A restore or a data rollback goes on: it touches neither tag nor record.
LEMMA DataKeeps ==
  ASSUME MaintInv,
         op.at \in DataStages,
         op' \in InFlight, op'.id = op.id, op'.kind = op.kind, op'.req = op.req, op'.pid = op.pid,
         op'.pref = op.pref,
         op'.at \in DataStages \cup {"finish"},
         docker' \in Host, docker'.tag = docker.tag, docker'.names = docker.names, journal' = journal,
         begun' = begun, retire' = retire, hist' = hist, gated' = gated, mover' = mover, luck' \in Luck
  PROVE  MaintInv'
<1>0. MaintTypeOK
  BY DEF MaintInv
<1>2. MaintTypeOK'
  BY <1>0 DEF MaintTypeOK
<1>3. SelfInv'
  BY <1>0, TypeFields DEF MaintInv, SelfInv, Quiet, Early, Moving, Back, DataStages
<1>4. OpInv'
  BY <1>0 DEF MaintInv, OpInv, Quiet, Early, Moving, Back, DataStages
<1>5. HostInv'
  BY <1>0 DEF MaintInv, OpInv, HostInv, Core, Quiet, Early, Moving, Back, DataStages
<1>6. RecordInv'
  BY <1>0 DEF MaintInv, SelfInv, OpInv, RecordInv, Quiet, Early, Moving, Back, DataStages
<1>7. MoverInv'
  BY <1>0, TypeFields DEF MaintInv, SelfInv, OpInv, MoverInv, Quiet, Early, Moving, Back, DataStages
<1>8. OutcomeHonest'
  BY <1>0 DEF MaintInv, SelfInv, OpInv, OutcomeHonest, Quiet, Early, Moving, Back, DataStages
<1> QED
  BY <1>2, <1>3, <1>4, <1>5, <1>6, <1>7, <1>8 DEF MaintInv

\* The backup is made.
LEMMA BackupDoneKeeps ==
  ASSUME MaintInv, op.at = "backup", Runs, To("pull"), UNCHANGED <<docker, journal, begun, retire, hist, gated, mover>>
  PROVE  MaintInv'
<1>0. MaintTypeOK
  BY DEF MaintInv
<1>1. /\ docker' = docker /\ journal' = journal /\ begun' = begun /\ retire' = retire
      /\ hist' = hist /\ gated' = gated /\ mover' = mover
      /\ op.at = "backup" /\ op.id \in OpId /\ luck' \in Luck /\ op'.at = "pull"
      /\ op' \in InFlight /\ op'.id = op.id /\ op'.kind = op.kind /\ op'.req = op.req /\ op'.pref = op.pref
      /\ op'.failed = op.failed /\ op'.restored = op.restored /\ op'.post = op.post /\ op'.inline = op.inline
      /\ op'.pid = op.pid /\ op'.pin = op.pin
  <2>1. op \in InFlight /\ op.id \in OpId /\ docker \in Host /\ luck \in Luck /\ op.at = "backup"
    BY <1>0, TypeFields DEF MaintInv, MaintTypeOK, SelfInv, Quiet
  <2>2. luck' \in Luck
    BY <2>1, CommandFacts
  <2>3. op'.at = "pull" /\ op' \in InFlight /\ op'.id = op.id /\ op'.kind = op.kind /\ op'.req = op.req /\ op'.pref = op.pref
        /\ op'.failed = op.failed /\ op'.restored = op.restored /\ op'.post = op.post /\ op'.inline = op.inline
        /\ op'.pid = op.pid /\ op'.pin = op.pin
    BY <2>1, ToFacts DEF To, Stages
  <2> QED
    BY <2>1, <2>2, <2>3
<1>2. MaintTypeOK'
  BY <1>0, <1>1 DEF MaintTypeOK
<1>3. SelfInv'
  BY <1>0, <1>1, TypeFields DEF MaintInv, SelfInv, Quiet, Early, Moving, Back, DataStages
<1>4. OpInv'
  BY <1>0, <1>1 DEF MaintInv, OpInv, Quiet, Early, Moving, Back, DataStages
<1>5. HostInv'
  BY <1>0, <1>1, RefFacts DEF MaintInv, OpInv, HostInv, Core, Quiet, Early, Moving, Back, DataStages
<1>6. RecordInv'
  BY <1>0, <1>1 DEF MaintInv, SelfInv, OpInv, RecordInv, Quiet, Early, Moving, Back, DataStages
<1>7. MoverInv'
  BY <1>0, <1>1, TypeFields DEF MaintInv, SelfInv, OpInv, MoverInv, Quiet, Early, Moving, Back, DataStages
<1>8. OutcomeHonest'
  BY <1>0, <1>1, RefFacts DEF MaintInv, SelfInv, OpInv, HostInv, OutcomeHonest, Quiet, Early, Moving, Back, DataStages
<1> QED
  BY <1>2, <1>3, <1>4, <1>5, <1>6, <1>7, <1>8 DEF MaintInv

\* The probe passes.
LEMMA HealthDoneKeeps ==
  ASSUME MaintInv, op.at = "health", Ready, To("verify"), UNCHANGED <<docker, journal, begun, retire, hist, gated, mover>>
  PROVE  MaintInv'
<1>0. MaintTypeOK
  BY DEF MaintInv
<1>1. /\ docker' = docker /\ journal' = journal /\ begun' = begun /\ retire' = retire
      /\ hist' = hist /\ gated' = gated /\ mover' = mover
      /\ op.at = "health" /\ op.id \in OpId /\ luck' \in Luck /\ op'.at = "verify"
      /\ op' \in InFlight /\ op'.id = op.id /\ op'.kind = op.kind /\ op'.req = op.req /\ op'.pref = op.pref
      /\ op'.failed = op.failed /\ op'.restored = op.restored /\ op'.post = op.post /\ op'.inline = op.inline
      /\ op'.pid = op.pid /\ op'.pin = op.pin
  <2>1. op \in InFlight /\ op.id \in OpId /\ docker \in Host /\ luck \in Luck /\ op.at = "health"
    BY <1>0, TypeFields DEF MaintInv, MaintTypeOK, SelfInv, Quiet
  <2>2. luck' \in Luck
    BY <2>1, CommandFacts
  <2>3. op'.at = "verify" /\ op' \in InFlight /\ op'.id = op.id /\ op'.kind = op.kind /\ op'.req = op.req /\ op'.pref = op.pref
        /\ op'.failed = op.failed /\ op'.restored = op.restored /\ op'.post = op.post /\ op'.inline = op.inline
        /\ op'.pid = op.pid /\ op'.pin = op.pin
    BY <2>1, ToFacts DEF To, Stages
  <2> QED
    BY <2>1, <2>2, <2>3
<1>2. MaintTypeOK'
  BY <1>0, <1>1 DEF MaintTypeOK
<1>3. SelfInv'
  BY <1>0, <1>1, TypeFields DEF MaintInv, SelfInv, Quiet, Early, Moving, Back, DataStages
<1>4. OpInv'
  BY <1>0, <1>1 DEF MaintInv, OpInv, Quiet, Early, Moving, Back, DataStages
<1>5. HostInv'
  BY <1>0, <1>1, RefFacts DEF MaintInv, OpInv, HostInv, Core, Quiet, Early, Moving, Back, DataStages
<1>6. RecordInv'
  BY <1>0, <1>1 DEF MaintInv, SelfInv, OpInv, RecordInv, Quiet, Early, Moving, Back, DataStages
<1>7. MoverInv'
  BY <1>0, <1>1, TypeFields DEF MaintInv, SelfInv, OpInv, MoverInv, Quiet, Early, Moving, Back, DataStages
<1>8. OutcomeHonest'
  BY <1>0, <1>1, RefFacts DEF MaintInv, SelfInv, OpInv, HostInv, OutcomeHonest, Quiet, Early, Moving, Back, DataStages
<1> QED
  BY <1>2, <1>3, <1>4, <1>5, <1>6, <1>7, <1>8 DEF MaintInv

\* The probe passes after a rollback.
LEMMA BackHealthDoneKeeps ==
  ASSUME MaintInv, op.at = "rb_health", Ready, To("rb_verify"), UNCHANGED <<docker, journal, begun, retire, hist, gated, mover>>
  PROVE  MaintInv'
<1>0. MaintTypeOK
  BY DEF MaintInv
<1>1. /\ docker' = docker /\ journal' = journal /\ begun' = begun /\ retire' = retire
      /\ hist' = hist /\ gated' = gated /\ mover' = mover
      /\ op.at = "rb_health" /\ op.id \in OpId /\ luck' \in Luck /\ op'.at = "rb_verify"
      /\ op' \in InFlight /\ op'.id = op.id /\ op'.kind = op.kind /\ op'.req = op.req /\ op'.pref = op.pref
      /\ op'.failed = op.failed /\ op'.restored = op.restored /\ op'.post = op.post /\ op'.inline = op.inline
      /\ op'.pid = op.pid /\ op'.pin = op.pin
  <2>1. op \in InFlight /\ op.id \in OpId /\ docker \in Host /\ luck \in Luck /\ op.at = "rb_health"
    BY <1>0, TypeFields DEF MaintInv, MaintTypeOK, SelfInv, Quiet
  <2>2. luck' \in Luck
    BY <2>1, CommandFacts
  <2>3. op'.at = "rb_verify" /\ op' \in InFlight /\ op'.id = op.id /\ op'.kind = op.kind /\ op'.req = op.req /\ op'.pref = op.pref
        /\ op'.failed = op.failed /\ op'.restored = op.restored /\ op'.post = op.post /\ op'.inline = op.inline
        /\ op'.pid = op.pid /\ op'.pin = op.pin
    BY <2>1, ToFacts DEF To, Stages
  <2> QED
    BY <2>1, <2>2, <2>3
<1>2. MaintTypeOK'
  BY <1>0, <1>1 DEF MaintTypeOK
<1>3. SelfInv'
  BY <1>0, <1>1, TypeFields DEF MaintInv, SelfInv, Quiet, Early, Moving, Back, DataStages
<1>4. OpInv'
  BY <1>0, <1>1 DEF MaintInv, OpInv, Quiet, Early, Moving, Back, DataStages
<1>5. HostInv'
  BY <1>0, <1>1, RefFacts DEF MaintInv, OpInv, HostInv, Core, Quiet, Early, Moving, Back, DataStages
<1>6. RecordInv'
  BY <1>0, <1>1 DEF MaintInv, SelfInv, OpInv, RecordInv, Quiet, Early, Moving, Back, DataStages
<1>7. MoverInv'
  BY <1>0, <1>1, TypeFields DEF MaintInv, SelfInv, OpInv, MoverInv, Quiet, Early, Moving, Back, DataStages
<1>8. OutcomeHonest'
  BY <1>0, <1>1, RefFacts DEF MaintInv, SelfInv, OpInv, HostInv, OutcomeHonest, Quiet, Early, Moving, Back, DataStages
<1> QED
  BY <1>2, <1>3, <1>4, <1>5, <1>6, <1>7, <1>8 DEF MaintInv

\* The target is started.
LEMMA UpDoneKeeps ==
  ASSUME MaintInv, op.at = "up", Runs, Recreated, To("mark"), UNCHANGED <<journal, begun, retire, hist, gated, mover>>
  PROVE  MaintInv'
<1>0. MaintTypeOK
  BY DEF MaintInv
<1>1. /\ journal' = journal /\ begun' = begun /\ retire' = retire /\ hist' = hist /\ gated' = gated
      /\ mover' = mover
      /\ op.at = "up" /\ op.id \in OpId /\ luck' \in Luck /\ op'.at = "mark"
      /\ op' \in InFlight /\ op'.id = op.id /\ op'.kind = op.kind /\ op'.req = op.req /\ op'.pref = op.pref
      /\ op'.failed = op.failed /\ op'.restored = op.restored /\ op'.post = op.post /\ op'.inline = op.inline
      /\ op'.pid = op.pid /\ op'.pin = op.pin
      /\ docker' \in Host /\ docker'.tag = docker.tag /\ docker'.names = docker.names
  <2>1. op \in InFlight /\ op.id \in OpId /\ docker \in Host /\ luck \in Luck /\ op.at = "up"
    BY <1>0, TypeFields DEF MaintInv, MaintTypeOK, SelfInv, Quiet
  <2>2. luck' \in Luck
    BY <2>1, CommandFacts
  <2>3. op'.at = "mark" /\ op' \in InFlight /\ op'.id = op.id /\ op'.kind = op.kind /\ op'.req = op.req /\ op'.pref = op.pref
        /\ op'.failed = op.failed /\ op'.restored = op.restored /\ op'.post = op.post /\ op'.inline = op.inline
        /\ op'.pid = op.pid /\ op'.pin = op.pin
    BY <2>1, ToFacts DEF To, Stages
  <2> QED
    BY <2>1, <2>2, <2>3, UpFacts
<1>2. MaintTypeOK'
  BY <1>0, <1>1 DEF MaintTypeOK
<1>3. SelfInv'
  BY <1>0, <1>1, TypeFields DEF MaintInv, SelfInv, Quiet, Early, Moving, Back, DataStages
<1>4. OpInv'
  BY <1>0, <1>1 DEF MaintInv, OpInv, Quiet, Early, Moving, Back, DataStages
<1>5. HostInv'
  BY <1>0, <1>1, RefFacts DEF MaintInv, OpInv, HostInv, Core, Quiet, Early, Moving, Back, DataStages
<1>6. RecordInv'
  BY <1>0, <1>1 DEF MaintInv, SelfInv, OpInv, RecordInv, Quiet, Early, Moving, Back, DataStages
<1>7. MoverInv'
  BY <1>0, <1>1, TypeFields DEF MaintInv, SelfInv, OpInv, MoverInv, Quiet, Early, Moving, Back, DataStages
<1>8. OutcomeHonest'
  BY <1>0, <1>1, RefFacts DEF MaintInv, SelfInv, OpInv, HostInv, OutcomeHonest, Quiet, Early, Moving, Back, DataStages
<1> QED
  BY <1>2, <1>3, <1>4, <1>5, <1>6, <1>7, <1>8 DEF MaintInv

\* The image rolled back to is started.
LEMMA BackUpDoneKeeps ==
  ASSUME MaintInv, op.at = "rb_up", Runs, Recreated, To("rb_health"), UNCHANGED <<journal, begun, retire, hist, gated, mover>>
  PROVE  MaintInv'
<1>0. MaintTypeOK
  BY DEF MaintInv
<1>1. /\ journal' = journal /\ begun' = begun /\ retire' = retire /\ hist' = hist /\ gated' = gated
      /\ mover' = mover
      /\ op.at = "rb_up" /\ op.id \in OpId /\ luck' \in Luck /\ op'.at = "rb_health"
      /\ op' \in InFlight /\ op'.id = op.id /\ op'.kind = op.kind /\ op'.req = op.req /\ op'.pref = op.pref
      /\ op'.failed = op.failed /\ op'.restored = op.restored /\ op'.post = op.post /\ op'.inline = op.inline
      /\ op'.pid = op.pid /\ op'.pin = op.pin
      /\ docker' \in Host /\ docker'.tag = docker.tag /\ docker'.names = docker.names
  <2>1. op \in InFlight /\ op.id \in OpId /\ docker \in Host /\ luck \in Luck /\ op.at = "rb_up"
    BY <1>0, TypeFields DEF MaintInv, MaintTypeOK, SelfInv, Quiet
  <2>2. luck' \in Luck
    BY <2>1, CommandFacts
  <2>3. op'.at = "rb_health" /\ op' \in InFlight /\ op'.id = op.id /\ op'.kind = op.kind /\ op'.req = op.req /\ op'.pref = op.pref
        /\ op'.failed = op.failed /\ op'.restored = op.restored /\ op'.post = op.post /\ op'.inline = op.inline
        /\ op'.pid = op.pid /\ op'.pin = op.pin
    BY <2>1, ToFacts DEF To, Stages
  <2> QED
    BY <2>1, <2>2, <2>3, UpFacts
<1>2. MaintTypeOK'
  BY <1>0, <1>1 DEF MaintTypeOK
<1>3. SelfInv'
  BY <1>0, <1>1, TypeFields DEF MaintInv, SelfInv, Quiet, Early, Moving, Back, DataStages
<1>4. OpInv'
  BY <1>0, <1>1 DEF MaintInv, OpInv, Quiet, Early, Moving, Back, DataStages
<1>5. HostInv'
  BY <1>0, <1>1, RefFacts DEF MaintInv, OpInv, HostInv, Core, Quiet, Early, Moving, Back, DataStages
<1>6. RecordInv'
  BY <1>0, <1>1 DEF MaintInv, SelfInv, OpInv, RecordInv, Quiet, Early, Moving, Back, DataStages
<1>7. MoverInv'
  BY <1>0, <1>1, TypeFields DEF MaintInv, SelfInv, OpInv, MoverInv, Quiet, Early, Moving, Back, DataStages
<1>8. OutcomeHonest'
  BY <1>0, <1>1, RefFacts DEF MaintInv, SelfInv, OpInv, HostInv, OutcomeHonest, Quiet, Early, Moving, Back, DataStages
<1> QED
  BY <1>2, <1>3, <1>4, <1>5, <1>6, <1>7, <1>8 DEF MaintInv

\* The image to roll back to is pulled.
LEMMA BackPullDoneKeeps ==
  ASSUME MaintInv, op.at = "rb_pull", Runs, docker' = Pulled(Core), To("rb_tag"), UNCHANGED <<journal, begun, retire, hist, gated, mover>>
  PROVE  MaintInv'
<1>0. MaintTypeOK
  BY DEF MaintInv
<1>1. /\ journal' = journal /\ begun' = begun /\ retire' = retire /\ hist' = hist /\ gated' = gated
      /\ mover' = mover
      /\ op.at = "rb_pull" /\ op.id \in OpId /\ luck' \in Luck /\ op'.at = "rb_tag"
      /\ op' \in InFlight /\ op'.id = op.id /\ op'.kind = op.kind /\ op'.req = op.req /\ op'.pref = op.pref
      /\ op'.failed = op.failed /\ op'.restored = op.restored /\ op'.post = op.post /\ op'.inline = op.inline
      /\ op'.pid = op.pid /\ op'.pin = op.pin
      /\ docker' \in Host /\ docker'.tag = docker.tag /\ docker.tag \in Image /\ Core \in Ref
      /\ Core.d \in docker'.names[Core.img] /\ \A i \in Image : docker.names[i] \subseteq docker'.names[i]
  <2>1. op \in InFlight /\ op.id \in OpId /\ docker \in Host /\ luck \in Luck /\ op.at = "rb_pull"
    BY <1>0, TypeFields DEF MaintInv, MaintTypeOK, SelfInv, Quiet
  <2>2. luck' \in Luck
    BY <2>1, CommandFacts
  <2>3. op'.at = "rb_tag" /\ op' \in InFlight /\ op'.id = op.id /\ op'.kind = op.kind /\ op'.req = op.req /\ op'.pref = op.pref
        /\ op'.failed = op.failed /\ op'.restored = op.restored /\ op'.post = op.post /\ op'.inline = op.inline
        /\ op'.pid = op.pid /\ op'.pin = op.pin
    BY <2>1, ToFacts DEF To, Stages
  <2>4. Core \in Ref
    BY <2>1, OpFields DEF MaintInv, OpInv, Core, Back
  <2> QED
    BY <2>1, <2>2, <2>3, <2>4, HostFacts
<1>2. MaintTypeOK'
  BY <1>0, <1>1 DEF MaintTypeOK
<1>3. SelfInv'
  BY <1>0, <1>1, TypeFields DEF MaintInv, SelfInv, Quiet, Early, Moving, Back, DataStages
<1>4. OpInv'
  BY <1>0, <1>1 DEF MaintInv, OpInv, Quiet, Early, Moving, Back, DataStages
<1>5. HostInv'
  BY <1>0, <1>1, RefFacts DEF MaintInv, OpInv, HostInv, Core, Quiet, Early, Moving, Back, DataStages
<1>6. RecordInv'
  BY <1>0, <1>1 DEF MaintInv, SelfInv, OpInv, RecordInv, Quiet, Early, Moving, Back, DataStages
<1>7. MoverInv'
  BY <1>0, <1>1, TypeFields DEF MaintInv, SelfInv, OpInv, MoverInv, Quiet, Early, Moving, Back, DataStages
<1>8. OutcomeHonest'
  BY <1>0, <1>1, RefFacts DEF MaintInv, SelfInv, OpInv, HostInv, OutcomeHonest, Quiet, Early, Moving, Back, DataStages
<1> QED
  BY <1>2, <1>3, <1>4, <1>5, <1>6, <1>7, <1>8 DEF MaintInv

\* The tag goes back.
LEMMA BackTagDoneKeeps ==
  ASSUME MaintInv, op.at = "rb_tag", (Runs /\ To("rb_up")) \/ (Fails /\ FailWith(op)), Tagged(Core.img),
         mover' = (IF op.kind = "apply" THEN 0 ELSE op.id), UNCHANGED <<journal, begun, retire, hist, gated>>
  PROVE  MaintInv'
<1>0. MaintTypeOK
  BY DEF MaintInv
<1>1. /\ journal' = journal /\ begun' = begun /\ retire' = retire /\ hist' = hist /\ gated' = gated
      /\ op.at = "rb_tag" /\ op.id \in OpId /\ luck' \in Luck
      /\ op' \in InFlight /\ op'.id = op.id /\ op'.kind = op.kind /\ op'.req = op.req /\ op'.pref = op.pref
      /\ op'.restored = op.restored /\ op'.pid = op.pid /\ op'.pin = op.pin
      /\ \/ /\ op'.at = "rb_up" /\ op'.failed = op.failed /\ op'.post = op.post /\ op'.inline = op.inline
         \/ op'.at = "finish" /\ op'.failed = TRUE
      /\ docker' \in Host /\ docker'.tag = Core.img /\ docker'.names = docker.names /\ Core \in Ref
      /\ mover' \in 0..MaxOps /\ (mover' = IF op.kind = "apply" THEN 0 ELSE op.id)
  <2>1. /\ op \in InFlight /\ op.id \in OpId /\ docker \in Host /\ luck \in Luck /\ op.at = "rb_tag"
        /\ op.kind = "apply" => op.inline
    BY <1>0, TypeFields DEF MaintInv, MaintTypeOK, SelfInv, OpInv, Quiet, Back
  <2>2. luck' \in Luck
    BY <2>1, CommandFacts
  <2>3. op' \in InFlight /\ op'.id = op.id /\ op'.kind = op.kind /\ op'.req = op.req /\ op'.pref = op.pref
        /\ op'.restored = op.restored /\ op'.pid = op.pid /\ op'.pin = op.pin
        /\ \/ /\ op'.at = "rb_up" /\ op'.failed = op.failed /\ op'.post = op.post /\ op'.inline = op.inline
           \/ op'.at = "finish" /\ op'.failed = TRUE
    <3>1. CASE To("rb_up")
      BY <2>1, <3>1, ToFacts DEF To, Stages
    <3>2. CASE FailWith(op)
      BY <2>1, <3>2, FailedFacts
    <3> QED
      BY <3>1, <3>2
  <2>4. Core \in Ref
    BY <2>1, OpFields DEF MaintInv, OpInv, Core, Back
  <2>5. Core.img \in Image
    BY <2>4, RefFacts
  <2>6. docker' \in Host /\ docker'.tag = Core.img /\ docker'.names = docker.names
    BY <2>1, <2>5, HostFacts DEF Tagged
  <2>7. mover' \in 0..MaxOps
    BY <1>0, TypeFields, MaintAssumption DEF MaintTypeOK, InFlight
  <2> QED
    BY <2>1, <2>2, <2>3, <2>4, <2>6, <2>7
<1>2. MaintTypeOK'
  BY <1>0, <1>1 DEF MaintTypeOK
<1>3. SelfInv'
  BY <1>0, <1>1, TypeFields DEF MaintInv, SelfInv, Quiet, Early, Moving, Back, DataStages
<1>4. OpInv'
  BY <1>0, <1>1 DEF MaintInv, OpInv, Quiet, Early, Moving, Back, DataStages
<1>5. HostInv'
  BY <1>0, <1>1, RefFacts DEF MaintInv, OpInv, HostInv, Core, Quiet, Early, Moving, Back, DataStages
<1>6. RecordInv'
  BY <1>0, <1>1 DEF MaintInv, SelfInv, OpInv, RecordInv, Quiet, Early, Moving, Back, DataStages
<1>7. MoverInv'
  <2>1. op.kind \in {"apply", "image"} /\ op.id = begun /\ begun > 0
    BY <1>1 DEF MaintInv, OpInv, SelfInv, Back, Quiet
  <2>2. CASE op.kind = "apply"
    BY <1>0, <1>1, <2>1, <2>2, TypeFields DEF MoverInv, Early
  <2>3. CASE op.kind = "image"
    <3>1. hist[op.id].kind = "image" /\ journal[op.id].kind = "image" /\ journal[op.id].tref = op.req
      BY <1>1, <2>3 DEF MaintInv, SelfInv, RecordInv, Quiet
    <3>2. Core = op.req /\ Core.d \in docker.names[Core.img]
      BY <1>1, <2>3 DEF MaintInv, HostInv, Core, Back
    <3> QED
      BY <1>0, <1>1, <2>1, <2>3, <3>1, <3>2, TypeFields, RefFacts DEF MoverInv, Early
  <2> QED
    BY <2>1, <2>2, <2>3
<1>8. OutcomeHonest'
  BY <1>0, <1>1, RefFacts DEF MaintInv, SelfInv, OpInv, HostInv, OutcomeHonest, Quiet, Early, Moving, Back, DataStages
<1> QED
  BY <1>2, <1>3, <1>4, <1>5, <1>6, <1>7, <1>8 DEF MaintInv

\* The tag is moved to the target, by a command that reports it or not.
LEMMA TagDoneKeeps ==
  ASSUME MaintInv, op.at = "tag", (Runs /\ To("up")) \/ (Fails /\ FailWith(op)), Tagged(op.pin.img),
         mover' = op.id, UNCHANGED <<journal, begun, retire, hist, gated>>
  PROVE  MaintInv'
<1>0. MaintTypeOK
  BY DEF MaintInv
<1>1. /\ journal' = journal /\ begun' = begun /\ retire' = retire /\ hist' = hist /\ gated' = gated
      /\ op.at = "tag" /\ op.id \in OpId /\ luck' \in Luck
      /\ op' \in InFlight /\ op'.id = op.id /\ op'.kind = op.kind /\ op'.req = op.req /\ op'.pref = op.pref
      /\ op'.restored = op.restored /\ op'.pid = op.pid /\ op'.pin = op.pin
      /\ \/ /\ op'.at = "up" /\ op'.failed = op.failed /\ op'.post = op.post /\ op'.inline = op.inline
         \/ op'.at = "finish" /\ op'.failed = TRUE
      /\ docker' \in Host /\ docker'.tag = op.pin.img /\ docker'.names = docker.names /\ op.pin \in Ref
      /\ mover' \in 0..MaxOps /\ mover' = op.id
  <2>1. op \in InFlight /\ op.id \in OpId /\ docker \in Host /\ luck \in Luck /\ op.at = "tag" /\ ~op.post
    BY <1>0, TypeFields DEF MaintInv, MaintTypeOK, SelfInv, OpInv, Quiet, Moving
  <2>2. luck' \in Luck
    BY <2>1, CommandFacts
  <2>3. op' \in InFlight /\ op'.id = op.id /\ op'.kind = op.kind /\ op'.req = op.req /\ op'.pref = op.pref
        /\ op'.restored = op.restored /\ op'.pid = op.pid /\ op'.pin = op.pin
        /\ \/ /\ op'.at = "up" /\ op'.failed = op.failed /\ op'.post = op.post /\ op'.inline = op.inline
           \/ op'.at = "finish" /\ op'.failed = TRUE
    <3>1. CASE To("up")
      BY <2>1, <3>1, ToFacts DEF To, Stages
    <3>2. CASE FailWith(op)
      BY <2>1, <3>2, FailedFacts
    <3> QED
      BY <3>1, <3>2
  <2>4. op.pin \in Ref
    BY <2>1, OpFields DEF MaintInv, OpInv, Moving
  <2>5. op.pin.img \in Image
    BY <2>4, RefFacts
  <2>6. docker' \in Host /\ docker'.tag = op.pin.img /\ docker'.names = docker.names
    BY <2>1, <2>5, HostFacts DEF Tagged
  <2>7. mover' \in 0..MaxOps
    BY <1>0 DEF MaintTypeOK, InFlight
  <2> QED
    BY <2>1, <2>2, <2>3, <2>4, <2>6, <2>7
<1>2. MaintTypeOK'
  BY <1>0, <1>1 DEF MaintTypeOK
<1>3. SelfInv'
  BY <1>0, <1>1, TypeFields DEF MaintInv, SelfInv, Quiet, Early, Moving, Back, DataStages
<1>4. OpInv'
  BY <1>0, <1>1 DEF MaintInv, OpInv, Quiet, Early, Moving, Back, DataStages
<1>5. HostInv'
  BY <1>0, <1>1, RefFacts DEF MaintInv, OpInv, HostInv, Core, Quiet, Early, Moving, Back, DataStages
<1>6. RecordInv'
  BY <1>0, <1>1 DEF MaintInv, SelfInv, OpInv, RecordInv, Quiet, Early, Moving, Back, DataStages
<1>7. MoverInv'
  <2>1. /\ op.id = begun /\ begun > 0 /\ hist[op.id].kind = "apply" /\ hist[op.id].was = op.pid
        /\ op.pin.d \in docker.names[op.pin.img]
    BY <1>1 DEF MaintInv, OpInv, SelfInv, HostInv, Moving, Quiet
  <2>2. journal[op.id].phase \in DangerPhases /\ journal[op.id].tref = op.pin /\ journal[op.id].pid = op.pid
    BY <1>1 DEF MaintInv, RecordInv, Moving
  <2>3. journal[op.id].kind = "apply"
    <3>1. journal[op.id] # NoRecord
      BY <2>2 DEF NoRecord, DangerPhases
    <3> QED
      BY <1>1, <3>1 DEF MaintInv, OpInv, RecordInv, Quiet, Moving
  <2> QED
    BY <1>0, <1>1, <2>1, <2>2, <2>3, TypeFields, RefFacts DEF MoverInv, Early
<1>8. OutcomeHonest'
  BY <1>0, <1>1, RefFacts DEF MaintInv, SelfInv, OpInv, HostInv, OutcomeHonest, Quiet, Early, Moving, Back, DataStages
<1> QED
  BY <1>2, <1>3, <1>4, <1>5, <1>6, <1>7, <1>8 DEF MaintInv

\* A stage panics: the operation has failed and takes nothing back.
LEMMA StagePanicsKeeps ==
  ASSUME MaintInv, StagePanics
  PROVE  MaintInv'
<1>0. MaintTypeOK
  BY DEF MaintInv
<1>1. /\ docker' = docker /\ journal' = journal /\ begun' = begun /\ retire' = retire /\ hist' = hist
      /\ gated' = gated /\ mover' = mover /\ luck' \in Luck /\ op.at \notin Quiet \cup {"finish"}
      /\ op' \in InFlight /\ op'.at = "finish" /\ op'.id = op.id /\ op'.kind = op.kind /\ op'.req = op.req
      /\ op'.pid = op.pid /\ op'.pref = op.pref /\ op'.pin = op.pin /\ op'.failed = TRUE
      /\ op'.restored = op.restored
  <2>1. op \in InFlight /\ luck \in Luck /\ op.at \notin {"down", "idle", "finish"} /\ Spend("faults")
    BY <1>0 DEF MaintTypeOK, StagePanics
  <2>2. luck' \in Luck
    BY <2>1, SpendFacts
  <2>3. op' = [op EXCEPT !.failed = TRUE, !.at = "finish"] /\ "finish" \in Stages
    BY DEF StagePanics, Stages
  <2>4. /\ op' \in InFlight /\ op'.at = "finish" /\ op'.id = op.id /\ op'.kind = op.kind /\ op'.req = op.req
        /\ op'.pid = op.pid /\ op'.pref = op.pref /\ op'.pin = op.pin /\ op'.failed = TRUE
        /\ op'.restored = op.restored
    BY <2>1, <2>3 DEF InFlight
  <2> QED
    BY <2>1, <2>2, <2>4 DEF StagePanics, Quiet
<1>2. MaintTypeOK'
  BY <1>0, <1>1 DEF MaintTypeOK
<1>3. SelfInv'
  BY <1>0, <1>1, TypeFields DEF MaintInv, SelfInv, Quiet
<1>4. OpInv'
  BY <1>0, <1>1 DEF MaintInv, OpInv, Early, Moving, Back, DataStages
<1>5. HostInv'
  BY <1>1 DEF HostInv, Moving, Back
<1>6. RecordInv'
  BY <1>0, <1>1 DEF MaintInv, RecordInv, Quiet, Moving, Back
<1>7. MoverInv'
  BY <1>0, <1>1 DEF MaintInv, MoverInv, Early
<1>8. ~op.restored \/ op.kind \notin {"apply", "image"}
  <2>1. op.at \in {"capture"} \cup Early \cup Moving \cup Back \cup DataStages
    BY <1>0, <1>1, OpFields DEF MaintTypeOK, Stages, Quiet, Early, Moving, Back, DataStages
  <2> QED
    BY <2>1 DEF MaintInv, OpInv
<1>9. OutcomeHonest'
  BY <1>1, <1>8 DEF OutcomeHonest
<1> QED
  BY <1>2, <1>3, <1>4, <1>5, <1>6, <1>7, <1>9 DEF MaintInv

\* The deadline passes.
LEMMA ExpireKeeps ==
  ASSUME MaintInv, Expire
  PROVE  MaintInv'
<1>0. MaintTypeOK
  BY DEF MaintInv
<1>1. /\ docker' = docker /\ journal' = journal /\ begun' = begun /\ retire' = retire
      /\ hist' = hist /\ gated' = gated /\ mover' = mover
      /\ luck' \in Luck /\ op'.at = op.at
      /\ op' \in InFlight /\ op'.id = op.id /\ op'.kind = op.kind /\ op'.req = op.req /\ op'.pref = op.pref
      /\ op'.failed = op.failed /\ op'.restored = op.restored /\ op'.post = op.post /\ op'.inline = op.inline
      /\ op'.pid = op.pid /\ op'.pin = op.pin
  <2>1. op \in InFlight /\ luck \in Luck
    BY <1>0 DEF MaintTypeOK
  <2>2. luck' \in Luck
    BY <2>1, SpendFacts DEF Expire
  <2>3. /\ op'.at = op.at
        /\ op' \in InFlight /\ op'.id = op.id /\ op'.kind = op.kind /\ op'.req = op.req /\ op'.pref = op.pref
        /\ op'.failed = op.failed /\ op'.restored = op.restored /\ op'.post = op.post /\ op'.inline = op.inline
        /\ op'.pid = op.pid /\ op'.pin = op.pin
    BY <2>1 DEF Expire, InFlight
  <2> QED
    BY <2>2, <2>3 DEF Expire
<1>2. MaintTypeOK'
  BY <1>0, <1>1 DEF MaintTypeOK
<1>3. SelfInv'
  BY <1>0, <1>1, TypeFields DEF MaintInv, SelfInv, Quiet, Early, Moving, Back, DataStages
<1>4. OpInv'
  BY <1>0, <1>1 DEF MaintInv, OpInv, Quiet, Early, Moving, Back, DataStages
<1>5. HostInv'
  BY <1>0, <1>1, RefFacts DEF MaintInv, OpInv, HostInv, Core, Quiet, Early, Moving, Back, DataStages
<1>6. RecordInv'
  BY <1>0, <1>1 DEF MaintInv, SelfInv, OpInv, RecordInv, Quiet, Early, Moving, Back, DataStages
<1>7. MoverInv'
  BY <1>0, <1>1, TypeFields DEF MaintInv, SelfInv, OpInv, MoverInv, Quiet, Early, Moving, Back, DataStages
<1>8. OutcomeHonest'
  BY <1>0, <1>1, RefFacts DEF MaintInv, SelfInv, OpInv, HostInv, OutcomeHonest, Quiet, Early, Moving, Back, DataStages
<1> QED
  BY <1>2, <1>3, <1>4, <1>5, <1>6, <1>7, <1>8 DEF MaintInv

\* The container stops.
LEMMA OutageKeeps ==
  ASSUME MaintInv, Outage
  PROVE  MaintInv'
<1>0. MaintTypeOK
  BY DEF MaintInv
<1>1. /\ journal' = journal /\ op' = op /\ begun' = begun /\ retire' = retire /\ hist' = hist
      /\ gated' = gated /\ mover' = mover
      /\ luck' \in Luck /\ docker' \in Host /\ docker'.run = NoImage /\ docker'.tag = docker.tag /\ docker'.names = docker.names
  <2>1. luck \in Luck /\ docker \in Host
    BY <1>0 DEF MaintTypeOK
  <2>2. luck' \in Luck
    BY <2>1, SpendFacts DEF Outage
  <2>3. docker' \in Host /\ docker'.run = NoImage /\ docker'.tag = docker.tag /\ docker'.names = docker.names
    BY <2>1, HostFacts DEF Outage
  <2> QED
    BY <2>2, <2>3 DEF Outage
<1>2. MaintTypeOK'
  BY <1>0, <1>1 DEF MaintTypeOK
<1>3. SelfInv'
  BY <1>0, <1>1, TypeFields DEF MaintInv, SelfInv, Quiet, Early, Moving, Back, DataStages
<1>4. OpInv'
  BY <1>0, <1>1 DEF MaintInv, OpInv, Quiet, Early, Moving, Back, DataStages
<1>5. HostInv'
  BY <1>0, <1>1, RefFacts DEF MaintInv, OpInv, HostInv, Core, Quiet, Early, Moving, Back, DataStages
<1>6. RecordInv'
  BY <1>0, <1>1 DEF MaintInv, SelfInv, OpInv, RecordInv, Quiet, Early, Moving, Back, DataStages
<1>7. MoverInv'
  BY <1>0, <1>1, TypeFields DEF MaintInv, SelfInv, OpInv, MoverInv, Quiet, Early, Moving, Back, DataStages
<1>8. OutcomeHonest'
  BY <1>0, <1>1, RefFacts DEF MaintInv, SelfInv, OpInv, HostInv, OutcomeHonest, Quiet, Early, Moving, Back, DataStages
<1> QED
  BY <1>2, <1>3, <1>4, <1>5, <1>6, <1>7, <1>8 DEF MaintInv

\* The agent starts again.
LEMMA AgentBootKeeps ==
  ASSUME MaintInv, AgentBoot
  PROVE  MaintInv'
<1>0. MaintTypeOK
  BY DEF MaintInv
<1>1. /\ docker' = docker /\ journal' = journal /\ begun' = begun /\ retire' = retire
      /\ hist' = hist /\ gated' = gated /\ mover' = mover /\ luck' = luck
      /\ op.at = "down" /\ op' = NoOp /\ NoOp \in InFlight /\ NoOp.at = "idle" /\ NoOp.id = 0 /\ NoOp.kind = "none"
      /\ NoOp.pref = NoRef
  <2>1. NoOp \in InFlight
    BY MaintAssumption DEF NoOp, InFlight, Kinds, Stages
  <2>2. NoOp.at = "idle" /\ NoOp.id = 0 /\ NoOp.kind = "none" /\ NoOp.pref = NoRef
    BY DEF NoOp
  <2> QED
    BY <2>1, <2>2 DEF AgentBoot
<1>2. MaintTypeOK'
  BY <1>0, <1>1 DEF MaintTypeOK
<1>3. SelfInv'
  BY <1>0, <1>1, TypeFields DEF MaintInv, SelfInv, Quiet, Early, Moving, Back, DataStages
<1>4. OpInv'
  BY <1>0, <1>1 DEF MaintInv, OpInv, Quiet, Early, Moving, Back, DataStages
<1>5. HostInv'
  BY <1>0, <1>1, RefFacts DEF MaintInv, OpInv, HostInv, Core, Quiet, Early, Moving, Back, DataStages
<1>6. RecordInv'
  BY <1>0, <1>1 DEF MaintInv, SelfInv, OpInv, RecordInv, Quiet, Early, Moving, Back, DataStages
<1>7. MoverInv'
  BY <1>0, <1>1, TypeFields DEF MaintInv, SelfInv, OpInv, MoverInv, Quiet, Early, Moving, Back, DataStages
<1>8. OutcomeHonest'
  BY <1>0, <1>1, RefFacts DEF MaintInv, SelfInv, OpInv, HostInv, OutcomeHonest, Quiet, Early, Moving, Back, DataStages
<1> QED
  BY <1>2, <1>3, <1>4, <1>5, <1>6, <1>7, <1>8 DEF MaintInv

\* A record vanishes before the barrier.
LEMMA RecordLostKeeps ==
  ASSUME MaintInv, RecordLost
  PROVE  MaintInv'
<1>0. MaintTypeOK
  BY DEF MaintInv
<1>1. /\ docker' = docker /\ op' = op /\ begun' = begun /\ retire' = retire /\ hist' = hist
      /\ gated' = gated /\ mover' = mover
      /\ luck' \in Luck /\ op.kind = "apply" /\ op.at \in {"capture"} \cup Early /\ op.id \in OpId
      /\ journal' \in [OpId -> Record \cup {NoRecord}] /\ \A o \in OpId : o # op.id => journal'[o] = journal[o]
      /\ journal'[op.id] = NoRecord /\ NoRecord.pid = NoImage
  <2>1. luck \in Luck /\ journal \in [OpId -> Record \cup {NoRecord}] /\ op.at \in {"capture"} \cup Early
    BY <1>0 DEF MaintTypeOK, RecordLost, Early
  <2>2. op.id \in OpId
    BY <1>0, <2>1, TypeFields DEF MaintInv, SelfInv, Early, Quiet
  <2>3. luck' \in Luck
    BY <2>1, SpendFacts DEF RecordLost
  <2>4. journal' = [journal EXCEPT ![op.id] = NoRecord] /\ NoRecord.pid = NoImage
    BY DEF RecordLost, NoRecord
  <2> QED
    BY <2>1, <2>2, <2>3, <2>4 DEF RecordLost
<1>2. MaintTypeOK'
  BY <1>0, <1>1 DEF MaintTypeOK
<1>3. SelfInv'
  BY <1>0, <1>1, TypeFields DEF MaintInv, SelfInv, Quiet, Early, Moving, Back, DataStages
<1>4. OpInv'
  BY <1>0, <1>1 DEF MaintInv, OpInv, Quiet, Early, Moving, Back, DataStages
<1>5. HostInv'
  BY <1>0, <1>1, RefFacts DEF MaintInv, OpInv, HostInv, Core, Quiet, Early, Moving, Back, DataStages
<1>6. RecordInv'
  BY <1>0, <1>1 DEF MaintInv, SelfInv, OpInv, RecordInv, Quiet, Early, Moving, Back, DataStages
<1>7. MoverInv'
  BY <1>0, <1>1, TypeFields DEF MaintInv, SelfInv, OpInv, MoverInv, Quiet, Early, Moving, Back, DataStages
<1>8. OutcomeHonest'
  BY <1>0, <1>1, RefFacts DEF MaintInv, SelfInv, OpInv, HostInv, OutcomeHonest, Quiet, Early, Moving, Back, DataStages
<1> QED
  BY <1>2, <1>3, <1>4, <1>5, <1>6, <1>7, <1>8 DEF MaintInv

\* The record of an ended operation is removed, or stays.
LEMMA RemoveRecordKeeps ==
  ASSUME MaintInv, NEW o \in OpId, RemoveRecord(o)
  PROVE  MaintInv'
<1>0. MaintTypeOK
  BY DEF MaintInv
<1>1. /\ docker' = docker /\ op' = op /\ begun' = begun /\ hist' = hist /\ gated' = gated
      /\ mover' = mover
      /\ luck' \in Luck /\ retire' \subseteq retire /\ o \in retire /\ journal' \in [OpId -> Record \cup {NoRecord}]
      /\ \A x \in OpId : x # o => journal'[x] = journal[x]
      /\ hist[o].end \in Ended
  <2>1. luck \in Luck /\ journal \in [OpId -> Record \cup {NoRecord}] /\ o \in retire
    BY <1>0 DEF MaintTypeOK, RemoveRecord
  <2>2. luck' \in Luck
    BY <2>1, SpendFacts DEF RemoveRecord
  <2>3. journal' = [journal EXCEPT ![o] = NoRecord] \/ journal' = journal
    BY DEF RemoveRecord
  <2>4. hist[o].end \in Ended
    BY <2>1 DEF MaintInv, SelfInv
  <2> QED
    BY <2>1, <2>2, <2>3, <2>4 DEF RemoveRecord
<1>2. MaintTypeOK'
  BY <1>0, <1>1 DEF MaintTypeOK
<1>3. SelfInv'
  BY <1>0, <1>1, TypeFields DEF MaintInv, SelfInv, Quiet, Early, Moving, Back, DataStages
<1>4. OpInv'
  BY <1>0, <1>1 DEF MaintInv, OpInv, Quiet, Early, Moving, Back, DataStages
<1>5. HostInv'
  BY <1>0, <1>1, RefFacts DEF MaintInv, OpInv, HostInv, Core, Quiet, Early, Moving, Back, DataStages
<1>6. RecordInv'
  <2>1. op.at \notin Quiet => op.id # o
    BY <1>1 DEF MaintInv, SelfInv, Ended
  <2>2. op.at \notin Quiet => op.id \in OpId
    BY <1>0, TypeFields DEF MaintInv, SelfInv
  <2> QED
    BY <1>1, <2>1, <2>2 DEF MaintInv, RecordInv, Quiet, Moving, Back
<1>7. MoverInv'
  <2>1. mover # 0 /\ hist[mover].end \in {"running", "cut"} => mover # o /\ mover \in OpId
    BY <1>0, <1>1, TypeFields DEF Ended
  <2> QED
    BY <1>1, <2>1 DEF MaintInv, MoverInv
<1>8. OutcomeHonest'
  BY <1>0, <1>1, RefFacts DEF MaintInv, SelfInv, OpInv, HostInv, OutcomeHonest, Quiet, Early, Moving, Back, DataStages
<1> QED
  BY <1>2, <1>3, <1>4, <1>5, <1>6, <1>7, <1>8 DEF MaintInv

\* One field of what history says of an operation: the image it found.
LEMMA WasFacts ==
  ASSUME MaintTypeOK, NEW i \in OpId, NEW x \in Image \cup {NoImage}, hist' = [hist EXCEPT ![i].was = x]
  PROVE  /\ hist' \in [OpId -> Past] /\ hist'[i].was = x /\ hist'[i].end = hist[i].end
         /\ hist'[i].kind = hist[i].kind /\ hist'[i].to = hist[i].to
         /\ \A o \in OpId : o # i => hist'[o] = hist[o]
<1>1. hist \in [OpId -> Past] /\ hist[i] \in Past
  BY DEF MaintTypeOK
<1> DEFINE w == [hist[i] EXCEPT !.was = x]
<1>2. w \in Past /\ w.was = x /\ w.end = hist[i].end /\ w.kind = hist[i].kind /\ w.to = hist[i].to
  BY <1>1 DEF Past
<1>3. hist' = [hist EXCEPT ![i] = w]
  OBVIOUS
<1> HIDE DEF w
<1> QED
  BY <1>1, <1>2, <1>3

\* And its end.
LEMMA EndFacts ==
  ASSUME MaintTypeOK, NEW i \in OpId, NEW e \in {"none", "running", "cut", "failed", "succeeded", "rolledback"},
         hist' = [hist EXCEPT ![i].end = e]
  PROVE  /\ hist' \in [OpId -> Past] /\ hist'[i].was = hist[i].was /\ hist'[i].end = e
         /\ hist'[i].kind = hist[i].kind /\ hist'[i].to = hist[i].to
         /\ \A o \in OpId : o # i => hist'[o] = hist[o]
<1>1. hist \in [OpId -> Past] /\ hist[i] \in Past
  BY DEF MaintTypeOK
<1> DEFINE w == [hist[i] EXCEPT !.end = e]
<1>2. w \in Past /\ w.was = hist[i].was /\ w.end = e /\ w.kind = hist[i].kind /\ w.to = hist[i].to
  BY <1>1 DEF Past
<1>3. hist' = [hist EXCEPT ![i] = w]
  OBVIOUS
<1> HIDE DEF w
<1> QED
  BY <1>1, <1>2, <1>3

\* A standalone rollback reads what runs.
LEMMA CaptureImageKeeps ==
  ASSUME MaintInv, op.at = "capture", op.kind = "image", To("rb_pull"), luck' \in Luck, UNCHANGED <<docker, journal, begun, retire, hist, gated, mover>>
  PROVE  MaintInv'
<1>0. MaintTypeOK
  BY DEF MaintInv
<1>1. /\ docker' = docker /\ journal' = journal /\ begun' = begun /\ retire' = retire
      /\ hist' = hist /\ gated' = gated /\ mover' = mover
      /\ op.at = "capture" /\ op.kind = "image" /\ luck' \in Luck /\ op'.at = "rb_pull"
      /\ op' \in InFlight /\ op'.id = op.id /\ op'.kind = op.kind /\ op'.req = op.req /\ op'.pref = op.pref
      /\ op'.failed = op.failed /\ op'.restored = op.restored /\ op'.post = op.post /\ op'.inline = op.inline
      /\ op'.pid = op.pid /\ op'.pin = op.pin
  <2>1. op \in InFlight
    BY <1>0 DEF MaintTypeOK
  <2>2. op'.at = "rb_pull" /\ op' \in InFlight /\ op'.id = op.id /\ op'.kind = op.kind /\ op'.req = op.req /\ op'.pref = op.pref
        /\ op'.failed = op.failed /\ op'.restored = op.restored /\ op'.post = op.post /\ op'.inline = op.inline
        /\ op'.pid = op.pid /\ op'.pin = op.pin
    BY <2>1, ToFacts DEF To, Stages
  <2> QED
    BY <2>2
<1>2. MaintTypeOK'
  BY <1>0, <1>1 DEF MaintTypeOK
<1>3. SelfInv'
  BY <1>0, <1>1, TypeFields DEF MaintInv, SelfInv, Quiet, Early, Moving, Back, DataStages
<1>4. OpInv'
  BY <1>0, <1>1 DEF MaintInv, OpInv, Quiet, Early, Moving, Back, DataStages
<1>5. HostInv'
  BY <1>0, <1>1, RefFacts DEF MaintInv, OpInv, HostInv, Core, Quiet, Early, Moving, Back, DataStages
<1>6. RecordInv'
  BY <1>0, <1>1 DEF MaintInv, SelfInv, OpInv, RecordInv, Quiet, Early, Moving, Back, DataStages
<1>7. MoverInv'
  BY <1>0, <1>1, TypeFields DEF MaintInv, SelfInv, OpInv, MoverInv, Quiet, Early, Moving, Back, DataStages
<1>8. OutcomeHonest'
  BY <1>0, <1>1, RefFacts DEF MaintInv, SelfInv, OpInv, HostInv, OutcomeHonest, Quiet, Early, Moving, Back, DataStages
<1> QED
  BY <1>2, <1>3, <1>4, <1>5, <1>6, <1>7, <1>8 DEF MaintInv

\* An upgrade captures what runs.
LEMMA CaptureApplyKeeps ==
  ASSUME MaintInv, NEW c \in Captures, NEW lk \in Budgets, op.at = "capture", op.kind = "apply", Capture(c, lk),
         op' = [op EXCEPT !.at = "resolve", !.pid = c.id, !.names = c.names, !.pref = PriorRef(c)],
         hist' = [hist EXCEPT ![op.id].was = c.id], Note("captured", op', lk),
         UNCHANGED <<docker, begun, retire, gated, mover>>
  PROVE  MaintInv'
<1>0. MaintTypeOK
  BY DEF MaintInv
<1>1. /\ docker' = docker /\ begun' = begun /\ retire' = retire /\ gated' = gated /\ mover' = mover
      /\ op.at = "capture" /\ op.kind = "apply" /\ luck' \in Luck /\ op'.at = "resolve" /\ op.id \in OpId
      /\ op' \in InFlight /\ op'.id = op.id /\ op'.kind = op.kind /\ op'.req = op.req /\ op'.pin = op.pin
      /\ op'.failed = op.failed /\ op'.restored = op.restored /\ op'.post = op.post /\ op'.inline = op.inline
      /\ op'.pid = c.id /\ (op'.pref # NoRef => op'.pref.img = c.id) /\ (c.id # NoImage => c.id = docker.run)
      /\ hist' \in [OpId -> Past] /\ hist'[op.id].was = c.id /\ hist'[op.id].end = hist[op.id].end
      /\ hist'[op.id].kind = hist[op.id].kind /\ hist'[op.id].to = hist[op.id].to
      /\ \A o \in OpId : o # op.id => hist'[o] = hist[o]
      /\ journal' \in [OpId -> Record \cup {NoRecord}] /\ \A o \in OpId : o # op.id => journal'[o] = journal[o]
      /\ \/ journal'[op.id] = journal[op.id]
         \/ /\ journal[op.id] # NoRecord /\ journal'[op.id].kind = journal[op.id].kind
            /\ journal'[op.id] # NoRecord
            /\ journal'[op.id].phase = "captured"
            /\ journal'[op.id].tref = IF op'.pin # NoRef THEN op'.pin ELSE journal[op.id].tref
            /\ journal'[op.id].pid = IF op'.pid # NoImage THEN op'.pid ELSE journal[op.id].pid
  <2>1. op \in InFlight /\ op.id \in OpId
    BY <1>0, TypeFields DEF MaintInv, MaintTypeOK, SelfInv, Quiet
  <2>2. /\ lk \in Luck /\ c.id \in Image \cup {NoImage} /\ c.names \in SUBSET Digests
        /\ c.id # NoImage => c.id = docker.run
        /\ c.id = NoImage => c.names = {}
    BY <1>0, CaptureFacts
  <2>3. PriorRef(c) \in Ref \cup {NoRef} /\ (PriorRef(c) # NoRef => PriorRef(c).img = c.id)
    BY <2>2, PriorFacts
  <2>4. /\ op' \in InFlight /\ op'.id = op.id /\ op'.kind = op.kind /\ op'.req = op.req /\ op'.pin = op.pin
        /\ op'.failed = op.failed /\ op'.restored = op.restored /\ op'.post = op.post /\ op'.inline = op.inline
        /\ op'.pid = c.id /\ op'.pref = PriorRef(c) /\ op'.at = "resolve"
    <3>1. "resolve" \in Stages
      BY DEF Stages
    <3> QED
      BY <2>1, <2>2, <2>3, <3>1 DEF InFlight
  <2>5. PICK a \in InFlight : a = op' /\ Note("captured", a, lk)
    BY <2>4
  <2>6. "captured" \in SafePhases \cup DangerPhases
    BY DEF SafePhases
  <2>7. /\ luck' \in Luck
        /\ journal' \in [OpId -> Record \cup {NoRecord}] /\ \A o \in OpId : o # op.id => journal'[o] = journal[o]
        /\ \/ journal'[op.id] = journal[op.id]
           \/ /\ journal[op.id] # NoRecord /\ journal'[op.id].kind = journal[op.id].kind
              /\ journal'[op.id] # NoRecord
              /\ journal'[op.id].phase = "captured"
              /\ journal'[op.id].tref = IF a.pin # NoRef THEN a.pin ELSE journal[op.id].tref
              /\ journal'[op.id].pid = IF a.pid # NoImage THEN a.pid ELSE journal[op.id].pid
    BY <1>0, <2>1, <2>2, <2>5, <2>6, NoteFacts
  <2>9. /\ luck' \in Luck
        /\ journal' \in [OpId -> Record \cup {NoRecord}] /\ \A o \in OpId : o # op.id => journal'[o] = journal[o]
        /\ \/ journal'[op.id] = journal[op.id]
           \/ /\ journal[op.id] # NoRecord /\ journal'[op.id].kind = journal[op.id].kind
              /\ journal'[op.id] # NoRecord
              /\ journal'[op.id].phase = "captured"
              /\ journal'[op.id].tref = IF op'.pin # NoRef THEN op'.pin ELSE journal[op.id].tref
              /\ journal'[op.id].pid = IF op'.pid # NoImage THEN op'.pid ELSE journal[op.id].pid
    BY <2>5, <2>7
  <2>8. /\ hist' \in [OpId -> Past] /\ hist'[op.id].was = c.id /\ hist'[op.id].end = hist[op.id].end
        /\ hist'[op.id].kind = hist[op.id].kind /\ hist'[op.id].to = hist[op.id].to
        /\ \A o \in OpId : o # op.id => hist'[o] = hist[o]
    BY <1>0, <2>1, <2>2, WasFacts
  <2> QED
    BY <2>1, <2>2, <2>3, <2>4, <2>8, <2>9
<1>2. MaintTypeOK'
  BY <1>0, <1>1 DEF MaintTypeOK
<1>3. SelfInv'
  BY <1>0, <1>1, TypeFields DEF MaintInv, SelfInv, Quiet, Early, Moving, Back, DataStages
<1>4. OpInv'
  BY <1>0, <1>1 DEF MaintInv, OpInv, Quiet, Early, Moving, Back, DataStages
<1>5. HostInv'
  BY <1>0, <1>1, RefFacts DEF MaintInv, OpInv, HostInv, Core, Quiet, Early, Moving, Back, DataStages
<1>6. RecordInv'
  <2>1. journal[op.id].pid = NoImage
    BY <1>1 DEF MaintInv, RecordInv, OpInv, Quiet
  <2> QED
    BY <1>1, <2>1 DEF MaintInv, RecordInv, Quiet, Moving, Back
<1>7. MoverInv'
  BY <1>0, <1>1, TypeFields DEF MaintInv, SelfInv, OpInv, MoverInv, Quiet, Early, Moving, Back, DataStages
<1>8. OutcomeHonest'
  BY <1>0, <1>1, RefFacts DEF MaintInv, SelfInv, OpInv, HostInv, OutcomeHonest, Quiet, Early, Moving, Back, DataStages
<1> QED
  BY <1>2, <1>3, <1>4, <1>5, <1>6, <1>7, <1>8 DEF MaintInv

\* Capture of what runs, before anything is touched.
LEMMA CaptureBeforeKeeps ==
  ASSUME MaintInv, CaptureBefore
  PROVE  MaintInv'
<1>1. MaintTypeOK /\ op.at = "capture" /\ op.kind \in {"apply", "image"}
  BY DEF MaintInv, CaptureBefore, OpInv
<1>2. PICK c \in Captures, lk \in Budgets :
        /\ Capture(c, lk)
        /\ IF op.kind = "image"
           THEN To("rb_pull") /\ luck' = lk /\ UNCHANGED <<journal, hist>>
           ELSE /\ op' = [op EXCEPT !.at = "resolve", !.pid = c.id, !.names = c.names,
                                    !.pref = PriorRef(c)]
                /\ hist' = [hist EXCEPT ![op.id].was = c.id]
                /\ Note("captured", op', lk)
  BY DEF CaptureBefore
<1>3. UNCHANGED <<docker, begun, retire, gated, mover>>
  BY DEF CaptureBefore
<1>4. lk \in Luck
  BY <1>1, <1>2, CaptureFacts
<1>5. CASE op.kind = "image"
  BY <1>1, <1>2, <1>3, <1>4, <1>5, CaptureImageKeeps
<1>6. CASE op.kind = "apply"
  BY <1>1, <1>2, <1>3, <1>6, CaptureApplyKeeps
<1> QED
  BY <1>1, <1>5, <1>6

\* The target is resolved; the upgrade is over if it runs already.
LEMMA ResolveDoneKeeps ==
  ASSUME MaintInv, op.at = "resolve",
         op' = [op EXCEPT !.pin = op.req, !.current = AlreadyCurrent(op),
                          !.at = IF AlreadyCurrent(op) THEN "finish" ELSE "backup"],
         Note("resolved", op', luck), UNCHANGED <<docker, begun, retire, hist, gated, mover>>
  PROVE  MaintInv'
<1>0. MaintTypeOK
  BY DEF MaintInv
<1>1. /\ docker' = docker /\ begun' = begun /\ retire' = retire /\ hist' = hist /\ gated' = gated
      /\ mover' = mover
      /\ op.at = "resolve" /\ luck' \in Luck /\ op.id \in OpId /\ op.kind = "apply"
      /\ op'.at = "backup" \/ (op'.at = "finish" /\ op.pid = op.req.img)
      /\ op'.pid = op.pid /\ op'.pin = op.req /\ op.req \in Ref
      /\ op' \in InFlight /\ op'.id = op.id /\ op'.kind = op.kind /\ op'.req = op.req /\ op'.pref = op.pref
      /\ op'.failed = op.failed /\ op'.restored = op.restored /\ op'.post = op.post /\ op'.inline = op.inline
      /\ journal' \in [OpId -> Record \cup {NoRecord}] /\ \A o \in OpId : o # op.id => journal'[o] = journal[o]
      /\ \/ journal'[op.id] = journal[op.id]
         \/ /\ journal[op.id] # NoRecord /\ journal'[op.id].kind = journal[op.id].kind
            /\ journal'[op.id] # NoRecord
            /\ journal'[op.id].phase = "resolved"
            /\ journal'[op.id].tref = IF op'.pin # NoRef THEN op'.pin ELSE journal[op.id].tref
            /\ journal'[op.id].pid = IF op'.pid # NoImage THEN op'.pid ELSE journal[op.id].pid
  <2>1. op \in InFlight /\ op.id \in OpId /\ docker \in Host /\ luck \in Luck /\ op.at = "resolve"
    BY <1>0, TypeFields DEF MaintInv, MaintTypeOK, SelfInv, Quiet
  <2>2. luck \in Luck
    BY <2>1
  <2>3. op.kind = "apply" /\ op.req \in Ref
    BY <2>1, OpFields DEF MaintInv, OpInv, Early
  <2>4. /\ op'.at = "backup" \/ (op'.at = "finish" /\ op.pid = op.req.img)
        /\ op'.pid = op.pid /\ op'.pin = op.req
        /\ op' \in InFlight /\ op'.id = op.id /\ op'.kind = op.kind /\ op'.req = op.req /\ op'.pref = op.pref
        /\ op'.failed = op.failed /\ op'.restored = op.restored /\ op'.post = op.post /\ op'.inline = op.inline
    <3> DEFINE cur == AlreadyCurrent(op)
               go == IF cur THEN "finish" ELSE "backup"
    <3>1. cur \in BOOLEAN /\ (cur => op.pid = op.req.img) /\ go \in Stages
      BY DEF AlreadyCurrent, Stages
    <3>2. op' = [op EXCEPT !.pin = op.req, !.current = cur, !.at = go]
      OBVIOUS
    <3>3. go = "backup" \/ (go = "finish" /\ op.pid = op.req.img)
      BY <3>1
    <3> HIDE DEF cur, go
    <3>4. op' \in InFlight
      BY <2>1, <2>3, <3>1, <3>2 DEF InFlight
    <3> QED
      BY <2>1, <3>2, <3>3, <3>4 DEF InFlight
  <2>5. PICK a \in InFlight : a = op' /\ Note("resolved", a, luck)
    BY <2>1, <2>4
  <2>6. /\ luck' \in Luck
        /\ journal' \in [OpId -> Record \cup {NoRecord}] /\ \A o \in OpId : o # op.id => journal'[o] = journal[o]
        /\ \/ journal'[op.id] = journal[op.id]
           \/ /\ journal[op.id] # NoRecord /\ journal'[op.id].kind = journal[op.id].kind
              /\ journal'[op.id] # NoRecord
              /\ journal'[op.id].phase = "resolved"
              /\ journal'[op.id].tref = IF a.pin # NoRef THEN a.pin ELSE journal[op.id].tref
              /\ journal'[op.id].pid = IF a.pid # NoImage THEN a.pid ELSE journal[op.id].pid
    <3>1. "resolved" \in SafePhases \cup DangerPhases
      BY DEF SafePhases, DangerPhases
    <3> QED
      BY <1>0, <2>1, <2>2, <2>5, <3>1, NoteFacts
  <2>7. /\ luck' \in Luck
        /\ journal' \in [OpId -> Record \cup {NoRecord}] /\ \A o \in OpId : o # op.id => journal'[o] = journal[o]
        /\ \/ journal'[op.id] = journal[op.id]
           \/ /\ journal[op.id] # NoRecord /\ journal'[op.id].kind = journal[op.id].kind
              /\ journal'[op.id] # NoRecord
              /\ journal'[op.id].phase = "resolved"
              /\ journal'[op.id].tref = IF op'.pin # NoRef THEN op'.pin ELSE journal[op.id].tref
              /\ journal'[op.id].pid = IF op'.pid # NoImage THEN op'.pid ELSE journal[op.id].pid
    BY <2>5, <2>6
  <2> QED
    BY <2>1, <2>3, <2>4, <2>7
<1>2. MaintTypeOK'
  BY <1>0, <1>1 DEF MaintTypeOK
<1>3. SelfInv'
  BY <1>0, <1>1, TypeFields DEF MaintInv, SelfInv, Quiet, Early, Moving, Back, DataStages
<1>4. OpInv'
  BY <1>0, <1>1 DEF MaintInv, OpInv, Quiet, Early, Moving, Back, DataStages
<1>5. HostInv'
  BY <1>0, <1>1, RefFacts DEF MaintInv, OpInv, HostInv, Core, Quiet, Early, Moving, Back, DataStages
<1>6. RecordInv'
  BY <1>0, <1>1 DEF MaintInv, SelfInv, OpInv, RecordInv, Quiet, Early, Moving, Back, DataStages
<1>7. MoverInv'
  BY <1>0, <1>1, TypeFields DEF MaintInv, SelfInv, OpInv, MoverInv, Quiet, Early, Moving, Back, DataStages
<1>8. OutcomeHonest'
  BY <1>0, <1>1, RefFacts DEF MaintInv, SelfInv, OpInv, HostInv, OutcomeHonest, Quiet, Early, Moving, Back, DataStages
<1> QED
  BY <1>2, <1>3, <1>4, <1>5, <1>6, <1>7, <1>8 DEF MaintInv

\* The target is pulled.
LEMMA PullDoneKeeps ==
  ASSUME MaintInv, op.at = "pull", docker' = Pulled(op.pin), To("barrier"), Note("pulled", op, luck),
         UNCHANGED <<begun, retire, hist, gated, mover>>
  PROVE  MaintInv'
<1>0. MaintTypeOK
  BY DEF MaintInv
<1>1. /\ begun' = begun /\ retire' = retire /\ hist' = hist /\ gated' = gated /\ mover' = mover
      /\ op.at = "pull" /\ luck' \in Luck /\ op.id \in OpId /\ op'.at = "barrier" /\ op.pin \in Ref /\ op.kind = "apply"
      /\ op' \in InFlight /\ op'.id = op.id /\ op'.kind = op.kind /\ op'.req = op.req /\ op'.pref = op.pref
      /\ op'.failed = op.failed /\ op'.restored = op.restored /\ op'.post = op.post /\ op'.inline = op.inline
      /\ op'.pid = op.pid /\ op'.pin = op.pin
      /\ journal' \in [OpId -> Record \cup {NoRecord}] /\ \A o \in OpId : o # op.id => journal'[o] = journal[o]
      /\ \/ journal'[op.id] = journal[op.id]
         \/ /\ journal[op.id] # NoRecord /\ journal'[op.id].kind = journal[op.id].kind
            /\ journal'[op.id] # NoRecord
            /\ journal'[op.id].phase = "pulled"
            /\ journal'[op.id].tref = IF op.pin # NoRef THEN op.pin ELSE journal[op.id].tref
            /\ journal'[op.id].pid = IF op.pid # NoImage THEN op.pid ELSE journal[op.id].pid
      /\ docker' \in Host /\ docker'.tag = docker.tag /\ docker.tag \in Image /\ docker'.run = docker.run
      /\ op.pin.d \in docker'.names[op.pin.img] /\ \A i \in Image : docker.names[i] \subseteq docker'.names[i]
  <2>1. op \in InFlight /\ op.id \in OpId /\ docker \in Host /\ luck \in Luck /\ op.at = "pull"
    BY <1>0, TypeFields DEF MaintInv, MaintTypeOK, SelfInv, Quiet
  <2>2. luck \in Luck
    BY <2>1
  <2>3. op.kind = "apply" /\ op.pin \in Ref
    BY <2>1, OpFields DEF MaintInv, OpInv, Early
  <2>4. op'.at = "barrier" /\ op' \in InFlight /\ op'.id = op.id /\ op'.kind = op.kind /\ op'.req = op.req /\ op'.pref = op.pref
        /\ op'.failed = op.failed /\ op'.restored = op.restored /\ op'.post = op.post /\ op'.inline = op.inline
        /\ op'.pid = op.pid /\ op'.pin = op.pin
    BY <2>1, ToFacts DEF To, Stages
  <2>5. PICK a \in InFlight : a = op /\ Note("pulled", a, luck)
    BY <2>1, <2>4
  <2>6. /\ luck' \in Luck
        /\ journal' \in [OpId -> Record \cup {NoRecord}] /\ \A o \in OpId : o # op.id => journal'[o] = journal[o]
        /\ \/ journal'[op.id] = journal[op.id]
           \/ /\ journal[op.id] # NoRecord /\ journal'[op.id].kind = journal[op.id].kind
              /\ journal'[op.id] # NoRecord
              /\ journal'[op.id].phase = "pulled"
              /\ journal'[op.id].tref = IF a.pin # NoRef THEN a.pin ELSE journal[op.id].tref
              /\ journal'[op.id].pid = IF a.pid # NoImage THEN a.pid ELSE journal[op.id].pid
    <3>1. "pulled" \in SafePhases \cup DangerPhases
      BY DEF SafePhases, DangerPhases
    <3> QED
      BY <1>0, <2>1, <2>2, <2>5, <3>1, NoteFacts
  <2>7. /\ luck' \in Luck
        /\ journal' \in [OpId -> Record \cup {NoRecord}] /\ \A o \in OpId : o # op.id => journal'[o] = journal[o]
        /\ \/ journal'[op.id] = journal[op.id]
           \/ /\ journal[op.id] # NoRecord /\ journal'[op.id].kind = journal[op.id].kind
              /\ journal'[op.id] # NoRecord
              /\ journal'[op.id].phase = "pulled"
              /\ journal'[op.id].tref = IF op.pin # NoRef THEN op.pin ELSE journal[op.id].tref
              /\ journal'[op.id].pid = IF op.pid # NoImage THEN op.pid ELSE journal[op.id].pid
    BY <2>5, <2>6
  <2>8. /\ docker' \in Host /\ docker'.tag = docker.tag /\ docker.tag \in Image /\ docker'.run = docker.run
        /\ op.pin.d \in docker'.names[op.pin.img] /\ \A i \in Image : docker.names[i] \subseteq docker'.names[i]
    BY <2>1, <2>3, HostFacts
  <2> QED
    BY <2>1, <2>3, <2>4, <2>7, <2>8
<1>2. MaintTypeOK'
  BY <1>0, <1>1 DEF MaintTypeOK
<1>3. SelfInv'
  BY <1>0, <1>1, TypeFields DEF MaintInv, SelfInv, Quiet, Early, Moving, Back, DataStages
<1>4. OpInv'
  BY <1>0, <1>1 DEF MaintInv, OpInv, Quiet, Early, Moving, Back, DataStages
<1>5. HostInv'
  BY <1>0, <1>1, RefFacts DEF MaintInv, OpInv, HostInv, Core, Quiet, Early, Moving, Back, DataStages
<1>6. RecordInv'
  BY <1>0, <1>1 DEF MaintInv, SelfInv, OpInv, RecordInv, Quiet, Early, Moving, Back, DataStages
<1>7. MoverInv'
  BY <1>0, <1>1, TypeFields DEF MaintInv, SelfInv, OpInv, MoverInv, Quiet, Early, Moving, Back, DataStages
<1>8. OutcomeHonest'
  BY <1>0, <1>1, RefFacts DEF MaintInv, SelfInv, OpInv, HostInv, OutcomeHonest, Quiet, Early, Moving, Back, DataStages
<1> QED
  BY <1>2, <1>3, <1>4, <1>5, <1>6, <1>7, <1>8 DEF MaintInv

\* Resolving.
LEMMA ResolveTargetKeeps ==
  ASSUME MaintInv, ResolveTarget
  PROVE  MaintInv'
<1>1. MaintTypeOK /\ docker \in Host /\ luck \in Luck /\ op.at = "resolve" /\ journal \in [OpId -> Record \cup {NoRecord}]
  BY DEF MaintInv, MaintTypeOK, ResolveTarget
<1>2. op.at \in Early \cup Moving \cup Back
  BY <1>1 DEF Early, Moving, Back
<1>3. CASE /\ op' = [op EXCEPT !.pin = op.req, !.current = AlreadyCurrent(op),
                             !.at = IF AlreadyCurrent(op) THEN "finish" ELSE "backup"]
           /\ Note("resolved", op', luck)
  BY <1>1, <1>3, ResolveDoneKeeps DEF ResolveTarget
<1>4. CASE Fails /\ FailWith(op) /\ UNCHANGED journal
  <2>1. luck' \in Luck
    BY <1>1, <1>4, CommandFacts
  <2> QED
    BY <1>1, <1>2, <1>4, <2>1, FailureKeeps DEF ResolveTarget
<1> QED
  BY <1>3, <1>4 DEF ResolveTarget

\* The backup.
LEMMA PreBackupKeeps ==
  ASSUME MaintInv, PreBackup
  PROVE  MaintInv'
<1>1. MaintTypeOK /\ docker \in Host /\ luck \in Luck /\ op.at = "backup" /\ journal \in [OpId -> Record \cup {NoRecord}]
  BY DEF MaintInv, MaintTypeOK, PreBackup
<1>2. op.at \in Early \cup Moving \cup Back
  BY <1>1 DEF Early, Moving, Back
<1>3. CASE Runs /\ To("pull")
  BY <1>1, <1>3, BackupDoneKeeps DEF PreBackup
<1>4. CASE Fails /\ FailWith(op)
  <2>1. luck' \in Luck
    BY <1>1, <1>4, CommandFacts
  <2> QED
    BY <1>1, <1>2, <1>4, <2>1, FailureKeeps DEF PreBackup
<1> QED
  BY <1>3, <1>4 DEF PreBackup

\* Pulling.
LEMMA PullKeeps ==
  ASSUME MaintInv, Pull
  PROVE  MaintInv'
<1>1. MaintTypeOK /\ docker \in Host /\ luck \in Luck /\ op.at = "pull" /\ journal \in [OpId -> Record \cup {NoRecord}]
  BY DEF MaintInv, MaintTypeOK, Pull
<1>2. op.at \in Early \cup Moving \cup Back
  BY <1>1 DEF Early, Moving, Back
<1>3. CASE docker' = Pulled(op.pin) /\ To("barrier") /\ Note("pulled", op, luck)
  BY <1>1, <1>3, PullDoneKeeps DEF Pull
<1>4. CASE Fails /\ FailWith(op) /\ UNCHANGED <<docker, journal>>
  <2>1. luck' \in Luck
    BY <1>1, <1>4, CommandFacts
  <2> QED
    BY <1>1, <1>2, <1>4, <2>1, FailureKeeps DEF Pull
<1> QED
  BY <1>3, <1>4 DEF Pull

\* Tagging.
LEMMA TagPinnedKeeps ==
  ASSUME MaintInv, TagPinned
  PROVE  MaintInv'
<1>1. MaintTypeOK /\ docker \in Host /\ luck \in Luck /\ op.at = "tag" /\ journal \in [OpId -> Record \cup {NoRecord}]
  BY DEF MaintInv, MaintTypeOK, TagPinned
<1>2. op.at \in Early \cup Moving \cup Back
  BY <1>1 DEF Early, Moving, Back
<1>3. CASE /\ (Runs /\ To("up")) \/ (Fails /\ FailWith(op))
           /\ Tagged(op.pin.img) /\ mover' = op.id
  BY <1>1, <1>3, TagDoneKeeps DEF TagPinned
<1>4. CASE Fails /\ FailWith(op) /\ UNCHANGED <<docker, mover>>
  <2>1. luck' \in Luck
    BY <1>1, <1>4, CommandFacts
  <2> QED
    BY <1>1, <1>2, <1>4, <2>1, FailureKeeps DEF TagPinned
<1> QED
  BY <1>3, <1>4 DEF TagPinned

\* Starting the target.
LEMMA UpKeeps ==
  ASSUME MaintInv, Up
  PROVE  MaintInv'
<1>1. MaintTypeOK /\ docker \in Host /\ luck \in Luck /\ op.at = "up" /\ journal \in [OpId -> Record \cup {NoRecord}]
  BY DEF MaintInv, MaintTypeOK, Up
<1>2. op.at \in Early \cup Moving \cup Back
  BY <1>1 DEF Early, Moving, Back
<1>3. CASE Runs /\ Recreated /\ To("mark")
  BY <1>1, <1>3, UpDoneKeeps DEF Up
<1>4. CASE Fails /\ Indeterminate /\ FailPost
  <2>1. luck' \in Luck
    BY <1>1, <1>4, CommandFacts
  <2>2. docker' \in Host /\ docker'.tag = docker.tag /\ docker'.names = docker.names
    BY <1>1, <1>4, UpFacts
  <2>3. op.at \in Moving
    BY <1>1 DEF Moving
  <2> QED
    BY <1>1, <1>2, <1>4, <2>1, <2>2, <2>3, FailureKeeps DEF Up
<1> QED
  BY <1>3, <1>4 DEF Up

\* The health gate.
LEMMA HealthGateKeeps ==
  ASSUME MaintInv, HealthGate
  PROVE  MaintInv'
<1>1. MaintTypeOK /\ docker \in Host /\ luck \in Luck /\ op.at = "health" /\ journal \in [OpId -> Record \cup {NoRecord}]
  BY DEF MaintInv, MaintTypeOK, HealthGate
<1>2. op.at \in Early \cup Moving \cup Back
  BY <1>1 DEF Early, Moving, Back
<1>3. CASE Ready /\ To("verify")
  BY <1>1, <1>3, HealthDoneKeeps DEF HealthGate
<1>4. CASE NotReady /\ FailPost
  <2>1. luck' \in Luck
    BY <1>1, <1>4, CommandFacts
  <2>3. op.at \in Moving
    BY <1>1 DEF Moving
  <2> QED
    BY <1>1, <1>2, <1>4, <2>1, <2>3, FailureKeeps DEF HealthGate
<1> QED
  BY <1>3, <1>4 DEF HealthGate

\* Pulling what to roll back to.
LEMMA RollbackPullKeeps ==
  ASSUME MaintInv, RollbackPull
  PROVE  MaintInv'
<1>1. MaintTypeOK /\ docker \in Host /\ luck \in Luck /\ op.at = "rb_pull" /\ journal \in [OpId -> Record \cup {NoRecord}]
  BY DEF MaintInv, MaintTypeOK, RollbackPull
<1>2. op.at \in Early \cup Moving \cup Back
  BY <1>1 DEF Early, Moving, Back
<1>3. CASE Runs /\ docker' = Pulled(Core) /\ To("rb_tag")
  BY <1>1, <1>3, BackPullDoneKeeps DEF RollbackPull
<1>4. CASE Fails /\ FailWith(op) /\ UNCHANGED docker
  <2>1. luck' \in Luck
    BY <1>1, <1>4, CommandFacts
  <2> QED
    BY <1>1, <1>2, <1>4, <2>1, FailureKeeps DEF RollbackPull
<1> QED
  BY <1>3, <1>4 DEF RollbackPull

\* Tagging it.
LEMMA RollbackTagKeeps ==
  ASSUME MaintInv, RollbackTag
  PROVE  MaintInv'
<1>1. MaintTypeOK /\ docker \in Host /\ luck \in Luck /\ op.at = "rb_tag" /\ journal \in [OpId -> Record \cup {NoRecord}]
  BY DEF MaintInv, MaintTypeOK, RollbackTag
<1>2. op.at \in Early \cup Moving \cup Back
  BY <1>1 DEF Early, Moving, Back
<1>3. CASE /\ ((Runs /\ To("rb_up")) \/ (Fails /\ FailWith(op))) /\ Tagged(Core.img)
           /\ mover' = IF op.kind = "apply" THEN 0 ELSE op.id
  BY <1>1, <1>3, BackTagDoneKeeps DEF RollbackTag
<1>4. CASE Fails /\ FailWith(op) /\ UNCHANGED <<docker, mover>>
  <2>1. luck' \in Luck
    BY <1>1, <1>4, CommandFacts
  <2> QED
    BY <1>1, <1>2, <1>4, <2>1, FailureKeeps DEF RollbackTag
<1> QED
  BY <1>3, <1>4 DEF RollbackTag

\* Starting it.
LEMMA RollbackUpKeeps ==
  ASSUME MaintInv, RollbackUp
  PROVE  MaintInv'
<1>1. MaintTypeOK /\ docker \in Host /\ luck \in Luck /\ op.at = "rb_up" /\ journal \in [OpId -> Record \cup {NoRecord}]
  BY DEF MaintInv, MaintTypeOK, RollbackUp
<1>2. op.at \in Early \cup Moving \cup Back
  BY <1>1 DEF Early, Moving, Back
<1>3. CASE Runs /\ Recreated /\ To("rb_health")
  BY <1>1, <1>3, BackUpDoneKeeps DEF RollbackUp
<1>4. CASE Fails /\ Indeterminate /\ FailWith(op)
  <2>1. luck' \in Luck
    BY <1>1, <1>4, CommandFacts
  <2>2. docker' \in Host /\ docker'.tag = docker.tag /\ docker'.names = docker.names
    BY <1>1, <1>4, UpFacts
  <2> QED
    BY <1>1, <1>2, <1>4, <2>1, <2>2, FailureKeeps DEF RollbackUp
<1> QED
  BY <1>3, <1>4 DEF RollbackUp

\* Its health gate.
LEMMA RollbackHealthKeeps ==
  ASSUME MaintInv, RollbackHealth
  PROVE  MaintInv'
<1>1. MaintTypeOK /\ docker \in Host /\ luck \in Luck /\ op.at = "rb_health" /\ journal \in [OpId -> Record \cup {NoRecord}]
  BY DEF MaintInv, MaintTypeOK, RollbackHealth
<1>2. op.at \in Early \cup Moving \cup Back
  BY <1>1 DEF Early, Moving, Back
<1>3. CASE Ready /\ To("rb_verify")
  BY <1>1, <1>3, BackHealthDoneKeeps DEF RollbackHealth
<1>4. CASE NotReady /\ FailWith(op)
  <2>1. luck' \in Luck
    BY <1>1, <1>4, CommandFacts
  <2> QED
    BY <1>1, <1>2, <1>4, <2>1, FailureKeeps DEF RollbackHealth
<1> QED
  BY <1>3, <1>4 DEF RollbackHealth

\* A new record.
LEMMA AdmissionFacts ==
  ASSUME NEW kind \in {"apply", "image", "data"}, NEW ref \in Ref \cup {NoRef}
  PROVE  /\ AdmissionRecord(kind, ref) \in Record /\ AdmissionRecord(kind, ref).kind = kind
         /\ AdmissionRecord(kind, ref).pid = NoImage
         /\ kind = "image" => AdmissionRecord(kind, ref).tref = ref
<1> DEFINE t == IF kind = "image" THEN ref ELSE NoRef
<1>1. t \in Ref \cup {NoRef} /\ (kind = "image" => t = ref) /\ "admitted" \in SafePhases
  BY DEF SafePhases
<1>2. AdmissionRecord(kind, ref) = [NoRecord EXCEPT !.kind = kind, !.phase = "admitted", !.tref = t]
  BY DEF AdmissionRecord
<1>3. /\ NoRecord \in [kind : {"none"}, phase : {"none"}, tref : {NoRef}, tid : {NoImage}, pref : {NoRef}, pid : {NoImage}]
      /\ NoRecord.pid = NoImage
  BY DEF NoRecord
<1> HIDE DEF t
<1>4. AdmissionRecord(kind, ref) =
        [kind |-> kind, phase |-> "admitted", tref |-> t, tid |-> NoImage, pref |-> NoRef, pid |-> NoImage]
  BY <1>2, <1>3
<1> QED
  BY <1>1, <1>4 DEF Record

\* The record that the barrier writes.
LEMMA BarrierFacts ==
  ASSUME MaintInv, op.at = "barrier",
         NEW old, old = IF journal[op.id] = NoRecord THEN AdmissionRecord("apply", NoRef) ELSE journal[op.id],
         NEW new, new = [journal EXCEPT ![op.id] = Fold(old, "restarting", op)]
  PROVE  /\ new \in [OpId -> Record \cup {NoRecord}] /\ \A o \in OpId : o # op.id => new[o] = journal[o]
         /\ new[op.id].kind = "apply" /\ new[op.id].phase = "restarting" /\ new[op.id].tref = op.pin
         /\ new[op.id].pid = op.pid /\ new[op.id] # NoRecord /\ op.id \in OpId
<1>1. /\ MaintTypeOK /\ journal \in [OpId -> Record \cup {NoRecord}] /\ op \in InFlight
      /\ op.kind = "apply" /\ op.pin # NoRef
  BY DEF MaintInv, MaintTypeOK, OpInv, Early
<1>2. op.id \in OpId
  BY <1>1, TypeFields DEF MaintInv, SelfInv, Quiet
<1>3. old \in Record /\ old.kind = "apply" /\ old.pid \in {NoImage, op.pid}
  <2>1. CASE journal[op.id] = NoRecord
    BY <2>1, AdmissionFacts
  <2>2. CASE journal[op.id] # NoRecord
    BY <1>1, <1>2, <2>2 DEF MaintInv, RecordInv, Quiet
  <2> QED
    BY <2>1, <2>2
<1> DEFINE f == Fold(old, "restarting", op)
<1>4. /\ f \in Record /\ f.kind = "apply" /\ f.phase = "restarting" /\ f.tref = op.pin
      /\ f.pid = IF op.pid # NoImage THEN op.pid ELSE old.pid
  <2>1. "restarting" \in SafePhases \cup DangerPhases
    BY DEF DangerPhases
  <2> QED
    BY <1>1, <1>3, <2>1, FoldFacts
<1>5. f.pid = op.pid /\ f # NoRecord
  BY <1>3, <1>4 DEF Record, NoRecord
<1>6. new = [journal EXCEPT ![op.id] = f]
  OBVIOUS
<1> HIDE DEF f
<1> QED
  BY <1>1, <1>2, <1>4, <1>5, <1>6

\* The barrier is on disk.
LEMMA BarrierDoneKeeps ==
  ASSUME MaintInv, op.at = "barrier", To("tag"),
         journal' \in [OpId -> Record \cup {NoRecord}], \A o \in OpId : o # op.id => journal'[o] = journal[o],
         journal'[op.id].kind = "apply", journal'[op.id].phase = "restarting", journal'[op.id].tref = op.pin,
         journal'[op.id].pid = op.pid, UNCHANGED <<docker, begun, retire, hist, gated, mover, luck>>
  PROVE  MaintInv'
<1>0. MaintTypeOK
  BY DEF MaintInv
<1>1. /\ docker' = docker /\ begun' = begun /\ retire' = retire /\ hist' = hist /\ gated' = gated
      /\ mover' = mover /\ luck' = luck
      /\ op.at = "barrier" /\ op.id \in OpId /\ op'.at = "tag" /\ op.kind = "apply"
      /\ op' \in InFlight /\ op'.id = op.id /\ op'.kind = op.kind /\ op'.req = op.req /\ op'.pref = op.pref
      /\ op'.failed = op.failed /\ op'.restored = op.restored /\ op'.post = op.post /\ op'.inline = op.inline
      /\ op'.pid = op.pid /\ op'.pin = op.pin
      /\ journal' \in [OpId -> Record \cup {NoRecord}] /\ \A o \in OpId : o # op.id => journal'[o] = journal[o]
      /\ journal'[op.id].kind = "apply" /\ journal'[op.id].phase = "restarting" /\ journal'[op.id].tref = op.pin
      /\ journal'[op.id].pid = op.pid /\ "restarting" \in DangerPhases
  <2>1. op \in InFlight /\ op.id \in OpId /\ docker \in Host /\ luck \in Luck /\ op.at = "barrier"
    BY <1>0, TypeFields DEF MaintInv, MaintTypeOK, SelfInv, Quiet
  <2>2. op.kind = "apply" /\ "restarting" \in DangerPhases
    BY <2>1 DEF MaintInv, OpInv, Early, DangerPhases
  <2>3. op'.at = "tag" /\ op' \in InFlight /\ op'.id = op.id /\ op'.kind = op.kind /\ op'.req = op.req /\ op'.pref = op.pref
        /\ op'.failed = op.failed /\ op'.restored = op.restored /\ op'.post = op.post /\ op'.inline = op.inline
        /\ op'.pid = op.pid /\ op'.pin = op.pin
    BY <2>1, ToFacts DEF To, Stages
  <2> QED
    BY <2>1, <2>2, <2>3
<1>2. MaintTypeOK'
  BY <1>0, <1>1 DEF MaintTypeOK
<1>3. SelfInv'
  BY <1>0, <1>1, TypeFields DEF MaintInv, SelfInv, Quiet, Early, Moving, Back, DataStages
<1>4. OpInv'
  BY <1>0, <1>1 DEF MaintInv, OpInv, Quiet, Early, Moving, Back, DataStages
<1>5. HostInv'
  BY <1>0, <1>1, RefFacts DEF MaintInv, OpInv, HostInv, Core, Quiet, Early, Moving, Back, DataStages
<1>6. RecordInv'
  BY <1>0, <1>1 DEF MaintInv, SelfInv, OpInv, RecordInv, Quiet, Early, Moving, Back, DataStages
<1>7. MoverInv'
  BY <1>0, <1>1, TypeFields DEF MaintInv, SelfInv, OpInv, MoverInv, Quiet, Early, Moving, Back, DataStages
<1>8. OutcomeHonest'
  BY <1>0, <1>1, RefFacts DEF MaintInv, SelfInv, OpInv, HostInv, OutcomeHonest, Quiet, Early, Moving, Back, DataStages
<1> QED
  BY <1>2, <1>3, <1>4, <1>5, <1>6, <1>7, <1>8 DEF MaintInv

\* The write-ahead barrier: it is on disk, or the upgrade ends here.
LEMMA WriteBarrierKeeps ==
  ASSUME MaintInv, WriteBarrier
  PROVE  MaintInv'
<1> DEFINE old == IF journal[op.id] = NoRecord THEN AdmissionRecord("apply", NoRef) ELSE journal[op.id]
           new == [journal EXCEPT ![op.id] = Fold(old, "restarting", op)]
<1>1. MaintTypeOK /\ docker \in Host /\ luck \in Luck /\ op.at = "barrier" /\ journal \in [OpId -> Record \cup {NoRecord}]
  BY DEF MaintInv, MaintTypeOK, WriteBarrier
<1>2. op.at \in Early
  BY <1>1 DEF Early
<1>3. /\ new \in [OpId -> Record \cup {NoRecord}] /\ \A o \in OpId : o # op.id => new[o] = journal[o]
      /\ new[op.id].kind = "apply" /\ new[op.id].phase = "restarting" /\ new[op.id].tref = op.pin
      /\ new[op.id].pid = op.pid
  BY <1>1, BarrierFacts
<1>4. \/ journal' = new /\ To("tag") /\ UNCHANGED luck
      \/ Spend("disk") /\ journal' \in {journal, new} /\ FailWith(op)
  BY DEF WriteBarrier
<1>5. UNCHANGED <<docker, begun, retire, hist, gated, mover>>
  BY DEF WriteBarrier
<1> HIDE DEF new, old
<1>6. CASE journal' = new /\ To("tag") /\ UNCHANGED luck
  BY <1>1, <1>3, <1>5, <1>6, BarrierDoneKeeps
<1>7. CASE Spend("disk") /\ journal' \in {journal, new} /\ FailWith(op)
  <2>1. luck' \in Luck
    BY <1>1, <1>7, SpendFacts
  <2>2. /\ journal' \in [OpId -> Record \cup {NoRecord}] /\ \A o \in OpId : o # op.id => journal'[o] = journal[o]
        /\ \/ journal'[op.id] = journal[op.id]
           \/ op.at = "barrier" /\ journal'[op.id].kind = "apply" /\ journal'[op.id].pid \in {NoImage, op.pid}
    BY <1>1, <1>3, <1>7
  <2> QED
    BY <1>1, <1>2, <1>5, <1>7, <2>1, <2>2, FailureKeeps
<1> QED
  BY <1>4, <1>6, <1>7

\* The phase after the restart is noted.
LEMMA MarkDoneKeeps ==
  ASSUME MaintInv, NEW c \in Captures, NEW lk \in Budgets, op.at = "mark", Capture(c, lk),
         op' = [op EXCEPT !.at = "health", !.tid = IF c.id # NoImage THEN c.id ELSE @],
         Note("restarted", op', lk), UNCHANGED <<docker, begun, retire, hist, gated, mover>>
  PROVE  MaintInv'
<1>0. MaintTypeOK
  BY DEF MaintInv
<1>1. /\ docker' = docker /\ begun' = begun /\ retire' = retire /\ hist' = hist /\ gated' = gated
      /\ mover' = mover
      /\ op.at = "mark" /\ luck' \in Luck /\ op.id \in OpId /\ op'.at = "health" /\ op.kind = "apply"
      /\ op.pin # NoRef
      /\ op' \in InFlight /\ op'.id = op.id /\ op'.kind = op.kind /\ op'.req = op.req /\ op'.pref = op.pref
      /\ op'.failed = op.failed /\ op'.restored = op.restored /\ op'.post = op.post /\ op'.inline = op.inline
      /\ op'.pid = op.pid /\ op'.pin = op.pin
      /\ journal' \in [OpId -> Record \cup {NoRecord}] /\ \A o \in OpId : o # op.id => journal'[o] = journal[o]
      /\ \/ journal'[op.id] = journal[op.id]
         \/ /\ journal[op.id] # NoRecord /\ journal'[op.id].kind = journal[op.id].kind
            /\ journal'[op.id] # NoRecord
            /\ journal'[op.id].phase = "restarted"
            /\ journal'[op.id].tref = IF op'.pin # NoRef THEN op'.pin ELSE journal[op.id].tref
            /\ journal'[op.id].pid = IF op'.pid # NoImage THEN op'.pid ELSE journal[op.id].pid
      /\ "restarted" \in DangerPhases
  <2>1. op \in InFlight /\ op.id \in OpId /\ docker \in Host /\ luck \in Luck /\ op.at = "mark"
    BY <1>0, TypeFields DEF MaintInv, MaintTypeOK, SelfInv, Quiet
  <2>2. lk \in Luck /\ c.id \in Image \cup {NoImage}
    BY <1>0, CaptureFacts
  <2>3. op.kind = "apply" /\ op.pin # NoRef /\ "restarted" \in DangerPhases
    BY <2>1 DEF MaintInv, OpInv, Moving, DangerPhases
  <2>4. op'.at = "health" /\ op' \in InFlight /\ op'.id = op.id /\ op'.kind = op.kind /\ op'.req = op.req /\ op'.pref = op.pref
        /\ op'.failed = op.failed /\ op'.restored = op.restored /\ op'.post = op.post /\ op'.inline = op.inline
        /\ op'.pid = op.pid /\ op'.pin = op.pin
    <3> DEFINE t == IF c.id # NoImage THEN c.id ELSE op.tid
    <3>1. t \in Image \cup {NoImage} /\ "health" \in Stages
      BY <2>1, <2>2, OpFields DEF Stages
    <3>2. op' = [op EXCEPT !.at = "health", !.tid = t]
      OBVIOUS
    <3> HIDE DEF t
    <3> QED
      BY <2>1, <3>1, <3>2 DEF InFlight
  <2>5. PICK a \in InFlight : a = op' /\ Note("restarted", a, lk)
    BY <2>1, <2>4
  <2>6. /\ luck' \in Luck
        /\ journal' \in [OpId -> Record \cup {NoRecord}] /\ \A o \in OpId : o # op.id => journal'[o] = journal[o]
        /\ \/ journal'[op.id] = journal[op.id]
           \/ /\ journal[op.id] # NoRecord /\ journal'[op.id].kind = journal[op.id].kind
              /\ journal'[op.id] # NoRecord
              /\ journal'[op.id].phase = "restarted"
              /\ journal'[op.id].tref = IF a.pin # NoRef THEN a.pin ELSE journal[op.id].tref
              /\ journal'[op.id].pid = IF a.pid # NoImage THEN a.pid ELSE journal[op.id].pid
    <3>1. "restarted" \in SafePhases \cup DangerPhases
      BY DEF SafePhases, DangerPhases
    <3> QED
      BY <1>0, <2>1, <2>2, <2>5, <3>1, NoteFacts
  <2>7. /\ luck' \in Luck
        /\ journal' \in [OpId -> Record \cup {NoRecord}] /\ \A o \in OpId : o # op.id => journal'[o] = journal[o]
        /\ \/ journal'[op.id] = journal[op.id]
           \/ /\ journal[op.id] # NoRecord /\ journal'[op.id].kind = journal[op.id].kind
              /\ journal'[op.id] # NoRecord
              /\ journal'[op.id].phase = "restarted"
              /\ journal'[op.id].tref = IF op'.pin # NoRef THEN op'.pin ELSE journal[op.id].tref
              /\ journal'[op.id].pid = IF op'.pid # NoImage THEN op'.pid ELSE journal[op.id].pid
    BY <2>5, <2>6
  <2> QED
    BY <2>1, <2>3, <2>4, <2>7
<1>2. MaintTypeOK'
  BY <1>0, <1>1 DEF MaintTypeOK
<1>3. SelfInv'
  BY <1>0, <1>1, TypeFields DEF MaintInv, SelfInv, Quiet, Early, Moving, Back, DataStages
<1>4. OpInv'
  BY <1>0, <1>1 DEF MaintInv, OpInv, Quiet, Early, Moving, Back, DataStages
<1>5. HostInv'
  BY <1>0, <1>1, RefFacts DEF MaintInv, OpInv, HostInv, Core, Quiet, Early, Moving, Back, DataStages
<1>6. RecordInv'
  BY <1>0, <1>1 DEF MaintInv, SelfInv, OpInv, RecordInv, Quiet, Early, Moving, Back, DataStages
<1>7. MoverInv'
  <2>1. /\ op.id = begun /\ journal[op.id].tref = op.pin /\ journal[op.id].pid = op.pid
        /\ journal[op.id].phase \in DangerPhases /\ hist[op.id].was = op.pid
    BY <1>1 DEF MaintInv, SelfInv, RecordInv, Moving, Quiet
  <2>2. CASE mover = op.id
    <3>1. /\ journal'[op.id].kind = journal[op.id].kind /\ journal'[op.id].tref = journal[op.id].tref
          /\ journal'[op.id].phase \in DangerPhases /\ journal'[op.id].pid \in {op.pid, journal[op.id].pid}
      BY <1>1, <2>1
    <3> QED
      BY <1>0, <1>1, <2>1, <2>2, <3>1, TypeFields DEF MaintInv, MoverInv, Early
  <2>3. CASE mover # op.id
    BY <1>0, <1>1, <2>1, <2>3, TypeFields DEF MaintInv, MoverInv, Early
  <2> QED
    BY <2>2, <2>3
<1>8. OutcomeHonest'
  BY <1>0, <1>1, RefFacts DEF MaintInv, SelfInv, OpInv, HostInv, OutcomeHonest, Quiet, Early, Moving, Back, DataStages
<1> QED
  BY <1>2, <1>3, <1>4, <1>5, <1>6, <1>7, <1>8 DEF MaintInv

\* The target runs and is verified.
LEMMA VerifyDoneKeeps ==
  ASSUME MaintInv, NEW c \in Captures, NEW lk \in Budgets, op.at = "verify", Capture(c, lk), c.id = op.pin.img,
         op' = [op EXCEPT !.at = "finish", !.tid = c.id], gated' = gated \cup {c.id},
         Note("verified", op', lk), UNCHANGED <<docker, begun, retire, hist, mover>>
  PROVE  MaintInv'
<1>0. MaintTypeOK
  BY DEF MaintInv
<1>1. /\ docker' = docker /\ begun' = begun /\ retire' = retire /\ hist' = hist /\ mover' = mover
      /\ op.at = "verify" /\ luck' \in Luck /\ op.id \in OpId /\ op'.at = "finish" /\ op.kind = "apply"
      /\ op.pin # NoRef /\ gated' \subseteq Image /\ docker.run = op.pin.img
      /\ op' \in InFlight /\ op'.id = op.id /\ op'.kind = op.kind /\ op'.req = op.req /\ op'.pref = op.pref
      /\ op'.failed = op.failed /\ op'.restored = op.restored /\ op'.post = op.post /\ op'.inline = op.inline
      /\ op'.pid = op.pid /\ op'.pin = op.pin
      /\ journal' \in [OpId -> Record \cup {NoRecord}] /\ \A o \in OpId : o # op.id => journal'[o] = journal[o]
      /\ \/ journal'[op.id] = journal[op.id]
         \/ /\ journal[op.id] # NoRecord /\ journal'[op.id].kind = journal[op.id].kind
            /\ journal'[op.id] # NoRecord
            /\ journal'[op.id].phase = "verified"
            /\ journal'[op.id].tref = IF op'.pin # NoRef THEN op'.pin ELSE journal[op.id].tref
            /\ journal'[op.id].pid = IF op'.pid # NoImage THEN op'.pid ELSE journal[op.id].pid
      /\ "verified" \in DangerPhases
  <2>1. op \in InFlight /\ op.id \in OpId /\ docker \in Host /\ luck \in Luck /\ op.at = "verify"
    BY <1>0, TypeFields DEF MaintInv, MaintTypeOK, SelfInv, Quiet
  <2>2. lk \in Luck /\ c.id \in Image \cup {NoImage} /\ (c.id # NoImage => c.id = docker.run)
    BY <1>0, CaptureFacts
  <2>3. op.kind = "apply" /\ op.pin \in Ref /\ op.pin # NoRef /\ "verified" \in DangerPhases
    BY <2>1, OpFields DEF MaintInv, OpInv, Moving, DangerPhases
  <2>8. c.id \in Image /\ docker.run = op.pin.img /\ gated' \subseteq Image
    BY <1>0, <2>2, <2>3, RefFacts DEF MaintTypeOK
  <2>4. op'.at = "finish" /\ op' \in InFlight /\ op'.id = op.id /\ op'.kind = op.kind /\ op'.req = op.req /\ op'.pref = op.pref
        /\ op'.failed = op.failed /\ op'.restored = op.restored /\ op'.post = op.post /\ op'.inline = op.inline
        /\ op'.pid = op.pid /\ op'.pin = op.pin
    <3>1. "finish" \in Stages
      BY DEF Stages
    <3> QED
      BY <2>1, <2>2, <3>1 DEF InFlight
  <2>5. PICK a \in InFlight : a = op' /\ Note("verified", a, lk)
    BY <2>1, <2>4
  <2>6. /\ luck' \in Luck
        /\ journal' \in [OpId -> Record \cup {NoRecord}] /\ \A o \in OpId : o # op.id => journal'[o] = journal[o]
        /\ \/ journal'[op.id] = journal[op.id]
           \/ /\ journal[op.id] # NoRecord /\ journal'[op.id].kind = journal[op.id].kind
              /\ journal'[op.id] # NoRecord
              /\ journal'[op.id].phase = "verified"
              /\ journal'[op.id].tref = IF a.pin # NoRef THEN a.pin ELSE journal[op.id].tref
              /\ journal'[op.id].pid = IF a.pid # NoImage THEN a.pid ELSE journal[op.id].pid
    <3>1. "verified" \in SafePhases \cup DangerPhases
      BY DEF SafePhases, DangerPhases
    <3> QED
      BY <1>0, <2>1, <2>2, <2>5, <3>1, NoteFacts
  <2>7. /\ luck' \in Luck
        /\ journal' \in [OpId -> Record \cup {NoRecord}] /\ \A o \in OpId : o # op.id => journal'[o] = journal[o]
        /\ \/ journal'[op.id] = journal[op.id]
           \/ /\ journal[op.id] # NoRecord /\ journal'[op.id].kind = journal[op.id].kind
              /\ journal'[op.id] # NoRecord
              /\ journal'[op.id].phase = "verified"
              /\ journal'[op.id].tref = IF op'.pin # NoRef THEN op'.pin ELSE journal[op.id].tref
              /\ journal'[op.id].pid = IF op'.pid # NoImage THEN op'.pid ELSE journal[op.id].pid
    BY <2>5, <2>6
  <2> QED
    BY <2>1, <2>3, <2>4, <2>7, <2>8
<1>2. MaintTypeOK'
  BY <1>0, <1>1 DEF MaintTypeOK
<1>3. SelfInv'
  BY <1>0, <1>1, TypeFields DEF MaintInv, SelfInv, Quiet, Early, Moving, Back, DataStages
<1>4. OpInv'
  BY <1>0, <1>1 DEF MaintInv, OpInv, Quiet, Early, Moving, Back, DataStages
<1>5. HostInv'
  BY <1>0, <1>1, RefFacts DEF MaintInv, OpInv, HostInv, Core, Quiet, Early, Moving, Back, DataStages
<1>6. RecordInv'
  BY <1>0, <1>1 DEF MaintInv, SelfInv, OpInv, RecordInv, Quiet, Early, Moving, Back, DataStages
<1>7. MoverInv'
  <2>1. /\ op.id = begun /\ journal[op.id].tref = op.pin /\ journal[op.id].pid = op.pid
        /\ journal[op.id].phase \in DangerPhases /\ hist[op.id].was = op.pid
    BY <1>1 DEF MaintInv, SelfInv, RecordInv, Moving, Quiet
  <2>2. CASE mover = op.id
    <3>1. /\ journal'[op.id].kind = journal[op.id].kind /\ journal'[op.id].tref = journal[op.id].tref
          /\ journal'[op.id].phase \in DangerPhases /\ journal'[op.id].pid \in {op.pid, journal[op.id].pid}
      BY <1>1, <2>1
    <3> QED
      BY <1>0, <1>1, <2>1, <2>2, <3>1, TypeFields DEF MaintInv, MoverInv, Early
  <2>3. CASE mover # op.id
    BY <1>0, <1>1, <2>1, <2>3, TypeFields DEF MaintInv, MoverInv, Early
  <2> QED
    BY <2>2, <2>3
<1>8. OutcomeHonest'
  BY <1>0, <1>1, RefFacts DEF MaintInv, SelfInv, OpInv, HostInv, OutcomeHonest, Quiet, Early, Moving, Back, DataStages
<1> QED
  BY <1>2, <1>3, <1>4, <1>5, <1>6, <1>7, <1>8 DEF MaintInv

\* The phase after the restart.
LEMMA MarkRestartedKeeps ==
  ASSUME MaintInv, MarkRestarted
  PROVE  MaintInv'
<1>1. PICK c \in Captures, lk \in Budgets :
        /\ Capture(c, lk)
        /\ op' = [op EXCEPT !.at = "health", !.tid = IF c.id # NoImage THEN c.id ELSE @]
        /\ Note("restarted", op', lk)
  BY DEF MarkRestarted
<1> QED
  BY <1>1, MarkDoneKeeps DEF MarkRestarted

\* The verification of what runs.
LEMMA VerifyKeeps ==
  ASSUME MaintInv, Verify
  PROVE  MaintInv'
<1>1. MaintTypeOK /\ docker \in Host /\ op.at = "verify" /\ journal \in [OpId -> Record \cup {NoRecord}]
  BY DEF MaintInv, MaintTypeOK, Verify
<1>2. PICK c \in Captures, lk \in Budgets :
        /\ Capture(c, lk)
        /\ IF c.id = op.pin.img /\ op.pin.d \in c.names
           THEN /\ op' = [op EXCEPT !.at = "finish", !.tid = c.id]
                /\ gated' = gated \cup {c.id}
                /\ Note("verified", op', lk)
           ELSE FailPost /\ luck' = lk /\ UNCHANGED <<journal, gated>>
  BY DEF Verify
<1>3. UNCHANGED <<docker, begun, retire, hist, mover>>
  BY DEF Verify
<1>4. CASE c.id = op.pin.img /\ op.pin.d \in c.names
  BY <1>1, <1>2, <1>3, <1>4, VerifyDoneKeeps
<1>5. CASE ~(c.id = op.pin.img /\ op.pin.d \in c.names)
  <2>1. FailPost /\ luck' \in Luck /\ journal' = journal /\ gated' = gated
    BY <1>1, <1>2, <1>5, CaptureFacts
  <2>2. op.at \in Moving
    BY <1>1 DEF Moving
  <2> QED
    BY <1>1, <1>3, <2>1, <2>2, FailureKeeps
<1> QED
  BY <1>4, <1>5

\* The image rolled back to runs and is verified.
LEMMA BackVerifyDoneKeeps ==
  ASSUME MaintInv, NEW c \in Captures, NEW lk \in Budgets, op.at = "rb_verify", Capture(c, lk), luck' = lk, c.id = Core.img,
         op' = [op EXCEPT !.at = "finish", !.restored = TRUE], gated' = gated \cup {c.id},
         UNCHANGED <<docker, journal, begun, retire, hist, mover>>
  PROVE  MaintInv'
<1>0. MaintTypeOK
  BY DEF MaintInv
<1>1. /\ docker' = docker /\ journal' = journal /\ begun' = begun /\ retire' = retire
      /\ hist' = hist /\ mover' = mover
      /\ op.at = "rb_verify" /\ luck' \in Luck /\ op.id \in OpId /\ op'.at = "finish" /\ Core \in Ref
      /\ gated' \subseteq Image /\ docker.run = Core.img
      /\ op' \in InFlight /\ op'.id = op.id /\ op'.kind = op.kind /\ op'.req = op.req /\ op'.pref = op.pref
      /\ op'.failed = op.failed /\ op'.restored = TRUE /\ op'.post = op.post /\ op'.inline = op.inline
      /\ op'.pid = op.pid /\ op'.pin = op.pin
  <2>1. op \in InFlight /\ op.id \in OpId /\ docker \in Host /\ luck \in Luck /\ op.at = "rb_verify"
    BY <1>0, TypeFields DEF MaintInv, MaintTypeOK, SelfInv, Quiet
  <2>2. luck' \in Luck /\ c.id \in Image \cup {NoImage} /\ (c.id # NoImage => c.id = docker.run)
    BY <1>0, CaptureFacts
  <2>3. Core \in Ref
    BY <2>1, OpFields DEF MaintInv, OpInv, Core, Back
  <2>4. c.id \in Image /\ docker.run = Core.img /\ gated' \subseteq Image
    BY <1>0, <2>2, <2>3, RefFacts DEF MaintTypeOK
  <2>5. /\ op' \in InFlight /\ op'.id = op.id /\ op'.kind = op.kind /\ op'.req = op.req /\ op'.pref = op.pref
        /\ op'.failed = op.failed /\ op'.restored = TRUE /\ op'.post = op.post /\ op'.inline = op.inline
        /\ op'.pid = op.pid /\ op'.pin = op.pin /\ op'.at = "finish"
    <3>1. "finish" \in Stages
      BY DEF Stages
    <3> QED
      BY <2>1, <3>1 DEF InFlight
  <2> QED
    BY <2>1, <2>2, <2>3, <2>4, <2>5
<1>2. MaintTypeOK'
  BY <1>0, <1>1 DEF MaintTypeOK
<1>3. SelfInv'
  BY <1>0, <1>1, TypeFields DEF MaintInv, SelfInv, Quiet, Early, Moving, Back, DataStages
<1>4. OpInv'
  BY <1>0, <1>1 DEF MaintInv, OpInv, Quiet, Early, Moving, Back, DataStages
<1>5. HostInv'
  BY <1>0, <1>1, RefFacts DEF MaintInv, OpInv, HostInv, Core, Quiet, Early, Moving, Back, DataStages
<1>6. RecordInv'
  BY <1>0, <1>1 DEF MaintInv, SelfInv, OpInv, RecordInv, Quiet, Early, Moving, Back, DataStages
<1>7. MoverInv'
  BY <1>0, <1>1, TypeFields DEF MaintInv, SelfInv, OpInv, MoverInv, Quiet, Early, Moving, Back, DataStages
<1>8. OutcomeHonest'
  <2>1. /\ op.kind \in {"apply", "image"} /\ docker.tag = Core.img
        /\ hist[op.id].to = op.req.img /\ (op.kind = "apply" => hist[op.id].was = op.pid)
        /\ (op.kind = "apply" => op.failed /\ op.pref # NoRef) /\ (op.kind = "image" => ~op.failed)
        /\ (op.pref # NoRef => op.pref.img = op.pid)
    BY <1>1 DEF MaintInv, OpInv, HostInv, SelfInv, Back, Quiet
  <2>2. CASE op.kind = "apply"
    BY <1>1, <2>1, <2>2 DEF OutcomeHonest, Core
  <2>3. CASE op.kind = "image"
    BY <1>1, <2>1, <2>3 DEF OutcomeHonest, Core
  <2> QED
    BY <2>1, <2>2, <2>3
<1> QED
  BY <1>2, <1>3, <1>4, <1>5, <1>6, <1>7, <1>8 DEF MaintInv

\* The verification of a rollback.
LEMMA RollbackVerifyKeeps ==
  ASSUME MaintInv, RollbackVerify
  PROVE  MaintInv'
<1>1. MaintTypeOK /\ docker \in Host /\ op.at = "rb_verify" /\ journal \in [OpId -> Record \cup {NoRecord}]
  BY DEF MaintInv, MaintTypeOK, RollbackVerify
<1>2. PICK c \in Captures, lk \in Budgets :
        /\ Capture(c, lk) /\ luck' = lk
        /\ IF c.id = Core.img /\ Core.d \in c.names
           THEN op' = [op EXCEPT !.at = "finish", !.restored = TRUE] /\ gated' = gated \cup {c.id}
           ELSE FailWith(op) /\ UNCHANGED gated
  BY DEF RollbackVerify
<1>3. UNCHANGED <<docker, journal, begun, retire, hist, mover>>
  BY DEF RollbackVerify
<1>4. CASE c.id = Core.img /\ Core.d \in c.names
  BY <1>1, <1>2, <1>3, <1>4, BackVerifyDoneKeeps
<1>5. CASE ~(c.id = Core.img /\ Core.d \in c.names)
  <2>1. FailWith(op) /\ luck' \in Luck /\ gated' = gated
    BY <1>1, <1>2, <1>5, CaptureFacts
  <2>2. op.at \in Back
    BY <1>1 DEF Back
  <2> QED
    BY <1>1, <1>3, <2>1, <2>2, FailureKeeps
<1> QED
  BY <1>4, <1>5

\* The operation goes on in a restore, with an error or not.
LEMMA DataOpFacts ==
  ASSUME op \in InFlight, NEW stage \in Stages,
         op' = [op EXCEPT !.at = stage] \/ op' = [op EXCEPT !.failed = TRUE, !.at = stage]
  PROVE  /\ op' \in InFlight /\ op'.at = stage /\ op'.id = op.id /\ op'.kind = op.kind /\ op'.req = op.req
         /\ op'.pid = op.pid /\ op'.pref = op.pref
BY DEF InFlight

\* The stack is stopped for a restore.
LEMMA StopStackKeeps ==
  ASSUME MaintInv, StopStack
  PROVE  MaintInv'
<1>1. /\ op.at \in DataStages /\ journal' = journal /\ begun' = begun /\ retire' = retire
      /\ hist' = hist /\ gated' = gated /\ mover' = mover
  BY DEF StopStack, DataStages
<1>2. luck' \in Luck /\ docker' \in Host /\ docker'.tag = docker.tag /\ docker'.names = docker.names
  <2>1. luck \in Luck /\ docker \in Host
    BY DEF MaintInv, MaintTypeOK
  <2>2. luck' \in Luck
    BY <2>1, CommandFacts DEF StopStack
  <2>3. docker' \in Host /\ docker'.tag = docker.tag /\ docker'.names = docker.names
    BY <2>1, HostFacts DEF StopStack
  <2> QED
    BY <2>2, <2>3
<1>3. /\ op' \in InFlight /\ op'.at \in DataStages \cup {"finish"} /\ op'.id = op.id /\ op'.kind = op.kind
      /\ op'.req = op.req /\ op'.pid = op.pid /\ op'.pref = op.pref
  <2>1. op \in InFlight
    BY DEF MaintInv, MaintTypeOK
  <2>2. \E stage \in Stages \cap (DataStages \cup {"finish"}) :
          op' = [op EXCEPT !.at = stage] \/ op' = [op EXCEPT !.failed = TRUE, !.at = stage]
    BY DEF StopStack, To, Stages, DataStages
  <2> QED
    BY <2>1, <2>2, DataOpFacts
<1> QED
  BY <1>1, <1>2, <1>3, DataKeeps

\* The data are put in place.
LEMMA RestoreCommitKeeps ==
  ASSUME MaintInv, RestoreCommit
  PROVE  MaintInv'
<1>1. /\ op.at \in DataStages /\ journal' = journal /\ begun' = begun /\ retire' = retire
      /\ hist' = hist /\ gated' = gated /\ mover' = mover
  BY DEF RestoreCommit, DataStages
<1>2. luck' \in Luck /\ docker' \in Host /\ docker'.tag = docker.tag /\ docker'.names = docker.names
  <2>1. luck \in Luck /\ docker \in Host
    BY DEF MaintInv, MaintTypeOK
  <2>2. luck' \in Luck
    BY <2>1, CommandFacts DEF RestoreCommit
  <2>3. docker' \in Host /\ docker'.tag = docker.tag /\ docker'.names = docker.names
    BY <2>1 DEF RestoreCommit
  <2> QED
    BY <2>2, <2>3
<1>3. /\ op' \in InFlight /\ op'.at \in DataStages \cup {"finish"} /\ op'.id = op.id /\ op'.kind = op.kind
      /\ op'.req = op.req /\ op'.pid = op.pid /\ op'.pref = op.pref
  <2>1. op \in InFlight
    BY DEF MaintInv, MaintTypeOK
  <2>2. \E stage \in Stages \cap (DataStages \cup {"finish"}) :
          op' = [op EXCEPT !.at = stage] \/ op' = [op EXCEPT !.failed = TRUE, !.at = stage]
    BY DEF RestoreCommit, To, Stages, DataStages
  <2> QED
    BY <2>1, <2>2, DataOpFacts
<1> QED
  BY <1>1, <1>2, <1>3, DataKeeps

\* The stack is started again.
LEMMA StartStackKeeps ==
  ASSUME MaintInv, StartStack
  PROVE  MaintInv'
<1>1. /\ op.at \in DataStages /\ journal' = journal /\ begun' = begun /\ retire' = retire
      /\ hist' = hist /\ gated' = gated /\ mover' = mover
  BY DEF StartStack, DataStages
<1>2. luck' \in Luck /\ docker' \in Host /\ docker'.tag = docker.tag /\ docker'.names = docker.names
  <2>1. luck \in Luck /\ docker \in Host
    BY DEF MaintInv, MaintTypeOK
  <2>2. luck' \in Luck
    BY <2>1, CommandFacts DEF StartStack
  <2>3. docker' \in Host /\ docker'.tag = docker.tag /\ docker'.names = docker.names
    BY <2>1, UpFacts DEF StartStack
  <2> QED
    BY <2>2, <2>3
<1>3. /\ op' \in InFlight /\ op'.at \in DataStages \cup {"finish"} /\ op'.id = op.id /\ op'.kind = op.kind
      /\ op'.req = op.req /\ op'.pid = op.pid /\ op'.pref = op.pref
  <2>1. op \in InFlight
    BY DEF MaintInv, MaintTypeOK
  <2>2. \E stage \in Stages \cap (DataStages \cup {"finish"}) :
          op' = [op EXCEPT !.at = stage] \/ op' = [op EXCEPT !.failed = TRUE, !.at = stage]
    BY DEF StartStack, To, Stages, DataStages
  <2> QED
    BY <2>1, <2>2, DataOpFacts
<1> QED
  BY <1>1, <1>2, <1>3, DataKeeps

\* And probed.
LEMMA HealthCheckKeeps ==
  ASSUME MaintInv, HealthCheck
  PROVE  MaintInv'
<1>1. /\ op.at \in DataStages /\ journal' = journal /\ begun' = begun /\ retire' = retire
      /\ hist' = hist /\ gated' = gated /\ mover' = mover
  BY DEF HealthCheck, DataStages
<1>2. luck' \in Luck /\ docker' \in Host /\ docker'.tag = docker.tag /\ docker'.names = docker.names
  <2>1. luck \in Luck /\ docker \in Host
    BY DEF MaintInv, MaintTypeOK
  <2>2. luck' \in Luck
    BY <2>1, CommandFacts DEF HealthCheck
  <2>3. docker' \in Host /\ docker'.tag = docker.tag /\ docker'.names = docker.names
    BY <2>1 DEF HealthCheck
  <2> QED
    BY <2>2, <2>3
<1>3. /\ op' \in InFlight /\ op'.at \in DataStages \cup {"finish"} /\ op'.id = op.id /\ op'.kind = op.kind
      /\ op'.req = op.req /\ op'.pid = op.pid /\ op'.pref = op.pref
  <2>1. op \in InFlight
    BY DEF MaintInv, MaintTypeOK
  <2>2. \E stage \in Stages \cap (DataStages \cup {"finish"}) :
          op' = [op EXCEPT !.at = stage] \/ op' = [op EXCEPT !.failed = TRUE, !.at = stage]
    BY DEF HealthCheck, To, Stages, DataStages
  <2> QED
    BY <2>1, <2>2, DataOpFacts
<1> QED
  BY <1>1, <1>2, <1>3, DataKeeps

\* No operation.
LEMMA NoOpFacts ==
  /\ NoOp \in InFlight /\ NoOp.at = "idle" /\ NoOp.id = 0 /\ NoOp.kind = "none" /\ NoOp.pref = NoRef
  /\ [NoOp EXCEPT !.at = "down"] \in InFlight /\ [NoOp EXCEPT !.at = "down"].at = "down"
  /\ [NoOp EXCEPT !.at = "down"].id = 0 /\ [NoOp EXCEPT !.at = "down"].kind = "none"
  /\ [NoOp EXCEPT !.at = "down"].pref = NoRef
<1>1. NoOp \in InFlight
  BY MaintAssumption DEF NoOp, InFlight, Kinds, Stages
<1>2. NoOp.at = "idle" /\ NoOp.id = 0 /\ NoOp.kind = "none" /\ NoOp.pref = NoRef
  BY DEF NoOp
<1>3. "down" \in Stages
  BY DEF Stages
<1> QED
  BY <1>1, <1>2, <1>3 DEF InFlight

\* The operation reports its end.
LEMMA TerminateKeeps ==
  ASSUME MaintInv, Terminate
  PROVE  MaintInv'
<1>0. MaintTypeOK
  BY DEF MaintInv
<1>1. /\ docker' = docker /\ journal' = journal /\ begun' = begun /\ gated' = gated
      /\ mover' = mover /\ luck' = luck
      /\ op.at = "finish" /\ op.id \in OpId /\ retire' = retire \cup {op.id} /\ op.id = begun
      /\ op' \in InFlight /\ op'.at = "idle" /\ op'.id = 0 /\ op'.kind = "none" /\ op'.pref = NoRef
      /\ hist' \in [OpId -> Past] /\ hist'[op.id].was = hist[op.id].was /\ hist'[op.id].end \in Ended
      /\ hist'[op.id].kind = hist[op.id].kind /\ hist'[op.id].to = hist[op.id].to
      /\ \A o \in OpId : o # op.id => hist'[o] = hist[o]
  <2>1. op \in InFlight /\ op.id \in OpId /\ op.at = "finish"
    BY <1>0, TypeFields DEF MaintInv, MaintTypeOK, SelfInv, Quiet, Terminate
  <2>2. op' \in InFlight /\ op'.at = "idle" /\ op'.id = 0 /\ op'.kind = "none" /\ op'.pref = NoRef
    BY NoOpFacts DEF Terminate
  <2> DEFINE e == IF ~op.failed THEN "succeeded" ELSE IF op.restored THEN "rolledback" ELSE "failed"
  <2>3. hist' = [hist EXCEPT ![op.id].end = e] /\ e \in Ended
    BY DEF Terminate, Ended
  <2> HIDE DEF e
  <2>4. /\ hist' \in [OpId -> Past] /\ hist'[op.id].was = hist[op.id].was /\ hist'[op.id].end = e
        /\ hist'[op.id].kind = hist[op.id].kind /\ hist'[op.id].to = hist[op.id].to
        /\ \A o \in OpId : o # op.id => hist'[o] = hist[o]
    BY <1>0, <2>1, <2>3, EndFacts DEF Ended
  <2>5. op.id = begun
    BY <2>1 DEF MaintInv, SelfInv, Quiet
  <2> QED
    BY <2>1, <2>2, <2>3, <2>4, <2>5 DEF Terminate
<1>2. MaintTypeOK'
  BY <1>0, <1>1 DEF MaintTypeOK
<1>3. SelfInv'
  <2>1. \A o \in OpId : hist'[o].end # "running"
    BY <1>1 DEF MaintInv, SelfInv, Ended
  <2>2. \A o \in retire' : o <= begun' /\ hist'[o].end \in Ended
    <3>1. retire \subseteq OpId
      BY <1>0 DEF MaintTypeOK
    <3> QED
      BY <1>0, <1>1, <3>1, TypeFields DEF MaintInv, SelfInv
  <2> QED
    BY <1>1, <2>1, <2>2 DEF SelfInv, Quiet
<1>4. OpInv'
  BY <1>0, <1>1 DEF MaintInv, OpInv, Quiet, Early, Moving, Back, DataStages
<1>5. HostInv'
  BY <1>0, <1>1, RefFacts DEF MaintInv, OpInv, HostInv, Core, Quiet, Early, Moving, Back, DataStages
<1>6. RecordInv'
  BY <1>0, <1>1 DEF MaintInv, SelfInv, OpInv, RecordInv, Quiet, Early, Moving, Back, DataStages
<1>7. MoverInv'
  <2>1. mover = op.id => ~(hist'[mover].end \in {"running", "cut"})
    BY <1>1 DEF Ended
  <2> QED
    BY <1>0, <1>1, <2>1, TypeFields DEF MaintInv, MoverInv, Early, Quiet
<1>8. OutcomeHonest'
  BY <1>0, <1>1, RefFacts DEF MaintInv, SelfInv, OpInv, HostInv, OutcomeHonest, Quiet, Early, Moving, Back, DataStages
<1> QED
  BY <1>2, <1>3, <1>4, <1>5, <1>6, <1>7, <1>8 DEF MaintInv

\* The agent crashes: what it was at is cut.
LEMMA AgentCrashKeeps ==
  ASSUME MaintInv, AgentCrash
  PROVE  MaintInv'
<1>0. MaintTypeOK
  BY DEF MaintInv
<1>1. /\ docker' = docker /\ journal' = journal /\ begun' = begun /\ gated' = gated
      /\ mover' = mover
      /\ luck' \in Luck /\ retire' = {}
      /\ op' \in InFlight /\ op'.at = "down" /\ op'.id = 0 /\ op'.kind = "none" /\ op'.pref = NoRef
      /\ \/ op.id = 0 /\ hist' = hist /\ op.at \in Quiet
         \/ /\ op.id \in OpId
            /\ hist' \in [OpId -> Past] /\ hist'[op.id].was = hist[op.id].was /\ hist'[op.id].end = "cut"
            /\ hist'[op.id].kind = hist[op.id].kind /\ hist'[op.id].to = hist[op.id].to
            /\ \A o \in OpId : o # op.id => hist'[o] = hist[o]
  <2>1. luck' \in Luck /\ retire' = {}
    BY <1>0, SpendFacts DEF AgentCrash, MaintTypeOK
  <2>2. op' \in InFlight /\ op'.at = "down" /\ op'.id = 0 /\ op'.kind = "none" /\ op'.pref = NoRef
    BY NoOpFacts DEF AgentCrash
  <2>3. CASE op.id = 0
    <3>1. op.at \in Quiet
      BY <2>3 DEF MaintInv, SelfInv
    <3> QED
      BY <2>1, <2>2, <2>3, <3>1 DEF AgentCrash
  <2>4. CASE op.id # 0
    <3>1. op.id \in OpId
      BY <1>0, <2>4, TypeFields
    <3>2. /\ hist' \in [OpId -> Past] /\ hist'[op.id].was = hist[op.id].was /\ hist'[op.id].end = "cut"
          /\ hist'[op.id].kind = hist[op.id].kind /\ hist'[op.id].to = hist[op.id].to
          /\ \A o \in OpId : o # op.id => hist'[o] = hist[o]
      BY <1>0, <2>4, <3>1, EndFacts DEF AgentCrash
    <3> QED
      BY <2>1, <2>2, <3>1, <3>2 DEF AgentCrash
  <2> QED
    BY <2>3, <2>4
<1>2. MaintTypeOK'
  BY <1>0, <1>1 DEF MaintTypeOK
<1>3. SelfInv'
  <2>1. \A o \in OpId : hist'[o].end # "running"
    BY <1>1 DEF MaintInv, SelfInv, Quiet
  <2> QED
    BY <1>1, <2>1 DEF SelfInv, Quiet
<1>4. OpInv'
  BY <1>0, <1>1 DEF MaintInv, OpInv, Quiet, Early, Moving, Back, DataStages
<1>5. HostInv'
  BY <1>0, <1>1, RefFacts DEF MaintInv, OpInv, HostInv, Core, Quiet, Early, Moving, Back, DataStages
<1>6. RecordInv'
  BY <1>0, <1>1 DEF MaintInv, SelfInv, OpInv, RecordInv, Quiet, Early, Moving, Back, DataStages
<1>7. MoverInv'
  <2>1. mover # 0 => mover \in OpId
    BY <1>0, TypeFields
  <2>2. /\ mover # 0 /\ hist'[mover].end \in {"running", "cut"} => hist[mover].end \in {"running", "cut"}
        /\ mover # 0 => hist'[mover].kind = hist[mover].kind /\ hist'[mover].was = hist[mover].was
    <3>1. CASE op.id = 0 /\ hist' = hist
      BY <3>1
    <3>2. CASE op.id \in OpId
      <4>1. hist[op.id].end = "running"
        BY <1>0, <3>2, TypeFields DEF MaintInv, SelfInv, Quiet
      <4> QED
        BY <1>1, <2>1, <3>2, <4>1
    <3> QED
      BY <1>1, <3>1, <3>2
  <2> QED
    BY <1>1, <2>1, <2>2 DEF MaintInv, MoverInv, Early
<1>8. OutcomeHonest'
  BY <1>0, <1>1, RefFacts DEF MaintInv, SelfInv, OpInv, HostInv, OutcomeHonest, Quiet, Early, Moving, Back, DataStages
<1> QED
  BY <1>2, <1>3, <1>4, <1>5, <1>6, <1>7, <1>8 DEF MaintInv

\* What history says of an operation that begins.
LEMMA BeginFacts ==
  ASSUME MaintTypeOK, NEW n \in OpId, NEW kind \in Kinds \ {"none"}, NEW ref \in Ref \cup {NoRef}, NEW undo \in BOOLEAN,
         NEW e \in {"running", "failed"},
         hist' = [hist EXCEPT ![n] = [kind |-> kind, end |-> e, to |-> ref.img, was |-> NoImage, undo |-> undo]]
  PROVE  /\ hist' \in [OpId -> Past] /\ hist'[n].kind = kind /\ hist'[n].end = e /\ hist'[n].to = ref.img
         /\ hist'[n].was = NoImage /\ \A o \in OpId : o # n => hist'[o] = hist[o]
<1> DEFINE h == [kind |-> kind, end |-> e, to |-> ref.img, was |-> NoImage, undo |-> undo]
<1>1. h \in Past /\ h.kind = kind /\ h.end = e /\ h.to = ref.img /\ h.was = NoImage
  BY RefFacts DEF Past
<1>2. hist \in [OpId -> Past] /\ hist' = [hist EXCEPT ![n] = h]
  BY DEF MaintTypeOK
<1> HIDE DEF h
<1> QED
  BY <1>1, <1>2

\* The record an admission leaves.
LEMMA AdmittedFacts ==
  ASSUME MaintTypeOK, NEW n \in OpId, NEW kind \in {"apply", "image", "data"}, NEW ref \in Ref \cup {NoRef},
         journal' = [journal EXCEPT ![n] = AdmissionRecord(kind, ref)]
  PROVE  /\ journal' \in [OpId -> Record \cup {NoRecord}] /\ \A o \in OpId : o # n => journal'[o] = journal[o]
         /\ journal'[n].kind = kind /\ journal'[n].pid = NoImage
         /\ kind = "image" => journal'[n].tref = ref
BY AdmissionFacts DEF MaintTypeOK

\* An operation is admitted.
LEMMA AdmittedKeeps ==
  ASSUME MaintInv, NEW kind \in Kinds \ {"none"}, NEW ref \in Ref \cup {NoRef}, NEW undo \in BOOLEAN, NEW n, n = begun + 1,
         begun < MaxOps, begun' = n, kind \in {"apply", "image"} <=> ref # NoRef,
         op.at = "idle",
         op' = [NoOp EXCEPT !.id = n, !.kind = kind, !.at = FirstStage(kind), !.req = ref, !.undo = undo],
         hist' = [hist EXCEPT ![n] = [kind |-> kind, end |-> "running", to |-> ref.img, was |-> NoImage,
                                      undo |-> undo]],
         journal' = IF kind = "restore" THEN journal ELSE [journal EXCEPT ![n] = AdmissionRecord(kind, ref)],
         UNCHANGED <<docker, retire, gated, mover, luck>>
  PROVE  MaintInv'
<1>0. MaintTypeOK
  BY DEF MaintInv
<1>1. /\ docker' = docker /\ retire' = retire /\ gated' = gated /\ mover' = mover /\ luck' = luck
      /\ n \in OpId /\ begun' \in 0..MaxOps /\ op.at = "idle"
      /\ op' \in InFlight /\ op'.id = n /\ op'.kind = kind /\ op'.req = ref /\ op'.pref = NoRef /\ op'.pin = NoRef
      /\ op'.pid = NoImage /\ ~op'.failed /\ ~op'.restored /\ ~op'.post /\ ~op'.inline
      /\ op'.at = IF kind \in {"apply", "image"} THEN "capture" ELSE "stop"
      /\ hist' \in [OpId -> Past] /\ hist'[n].kind = kind /\ hist'[n].end = "running" /\ hist'[n].to = ref.img
      /\ hist'[n].was = NoImage /\ \A o \in OpId : o # n => hist'[o] = hist[o]
      /\ journal' \in [OpId -> Record \cup {NoRecord}] /\ \A o \in OpId : o # n => journal'[o] = journal[o]
      /\ kind # "restore" => journal'[n].kind = kind /\ journal'[n].pid = NoImage
      /\ kind = "image" => journal'[n].tref = ref
  <2>1. n \in OpId /\ begun' \in 0..MaxOps /\ n \in 0..MaxOps
    BY <1>0, TypeFields DEF MaintTypeOK
  <2> DEFINE go == FirstStage(kind)
  <2>2. go = (IF kind \in {"apply", "image"} THEN "capture" ELSE "stop") /\ go \in Stages
    BY DEF FirstStage, Stages
  <2>3. op' = [NoOp EXCEPT !.id = n, !.kind = kind, !.at = go, !.req = ref, !.undo = undo]
    OBVIOUS
  <2>4. /\ NoOp \in InFlight /\ NoOp.pref = NoRef /\ NoOp.pin = NoRef /\ NoOp.pid = NoImage
        /\ ~NoOp.failed /\ ~NoOp.restored /\ ~NoOp.post /\ ~NoOp.inline
    BY NoOpFacts DEF NoOp
  <2> HIDE DEF go
  <2>5. /\ op' \in InFlight /\ op'.id = n /\ op'.kind = kind /\ op'.req = ref /\ op'.at = go
        /\ op'.pref = NoOp.pref /\ op'.pin = NoOp.pin /\ op'.pid = NoOp.pid /\ op'.failed = NoOp.failed
        /\ op'.restored = NoOp.restored /\ op'.post = NoOp.post /\ op'.inline = NoOp.inline
    BY <2>1, <2>2, <2>3, <2>4, ZenonT(60) DEF InFlight
  <2>6. /\ hist' \in [OpId -> Past] /\ hist'[n].kind = kind /\ hist'[n].end = "running" /\ hist'[n].to = ref.img
        /\ hist'[n].was = NoImage /\ \A o \in OpId : o # n => hist'[o] = hist[o]
    BY <1>0, <2>1, BeginFacts
  <2>7. /\ journal' \in [OpId -> Record \cup {NoRecord}] /\ \A o \in OpId : o # n => journal'[o] = journal[o]
        /\ kind # "restore" => journal'[n].kind = kind /\ journal'[n].pid = NoImage
        /\ kind = "image" => journal'[n].tref = ref
    <3>1. CASE kind = "restore"
      BY <1>0, <3>1 DEF MaintTypeOK
    <3>2. CASE kind # "restore"
      <4>1. kind \in {"apply", "image", "data"} /\ journal' = [journal EXCEPT ![n] = AdmissionRecord(kind, ref)]
        BY <3>2 DEF Kinds
      <4>2. /\ journal' \in [OpId -> Record \cup {NoRecord}] /\ \A o \in OpId : o # n => journal'[o] = journal[o]
            /\ journal'[n].kind = kind /\ journal'[n].pid = NoImage
            /\ kind = "image" => journal'[n].tref = ref
        BY <1>0, <2>1, <4>1, AdmittedFacts
      <4> QED
        BY <4>2
    <3> QED
      BY <3>1, <3>2
  <2> QED
    BY <2>1, <2>2, <2>4, <2>5, <2>6, <2>7
<1>2. MaintTypeOK'
  BY <1>0, <1>1 DEF MaintTypeOK
<1>3. SelfInv'
  <2>1. \A o \in retire' : o <= begun' /\ hist'[o].end \in Ended
    <3>1. retire \subseteq OpId
      BY <1>0 DEF MaintTypeOK
    <3>2. \A o \in retire : o \in OpId /\ o <= begun /\ hist[o].end \in Ended /\ o # n
      BY <1>0, <3>1, TypeFields DEF MaintInv, SelfInv
    <3>3. \A o \in retire : hist'[o] = hist[o] /\ o \in Int
      BY <1>0, <1>1, <3>2, TypeFields
    <3>4. begun' = begun + 1 /\ begun \in Int /\ retire' = retire
      BY <1>0, <1>1, TypeFields
    <3> QED
      BY <3>2, <3>3, <3>4
  <2>2. \A o \in OpId : hist'[o].end = "running" => o = n
    BY <1>1 DEF MaintInv, SelfInv, Quiet
  <2> QED
    BY <1>0, <1>1, <2>1, <2>2, TypeFields DEF SelfInv, Quiet
<1>4. OpInv'
  BY <1>0, <1>1 DEF MaintInv, OpInv, Kinds, Quiet, Early, Moving, Back, DataStages
<1>5. HostInv'
  BY <1>0, <1>1, RefFacts DEF MaintInv, OpInv, HostInv, Core, Quiet, Early, Moving, Back, DataStages
<1>6. RecordInv'
  BY <1>0, <1>1 DEF MaintInv, SelfInv, OpInv, RecordInv, Quiet, Early, Moving, Back, DataStages
<1>7. MoverInv'
  BY <1>0, <1>1, TypeFields DEF MaintInv, SelfInv, OpInv, MoverInv, Quiet, Early, Moving, Back, DataStages
<1>8. OutcomeHonest'
  BY <1>0, <1>1, RefFacts DEF MaintInv, SelfInv, OpInv, HostInv, OutcomeHonest, Quiet, Early, Moving, Back, DataStages
<1> QED
  BY <1>2, <1>3, <1>4, <1>5, <1>6, <1>7, <1>8 DEF MaintInv

\* An operation whose admission is not on disk does not run.
LEMMA RefusedKeeps ==
  ASSUME MaintInv, NEW kind \in Kinds \ {"none"}, NEW ref \in Ref \cup {NoRef}, NEW undo \in BOOLEAN, NEW n, n = begun + 1,
         begun < MaxOps, begun' = n, kind \in {"apply", "image"} <=> ref # NoRef,
         op.at = "idle", kind # "restore", Spend("disk"), UNCHANGED op,
         hist' = [hist EXCEPT ![n] = [kind |-> kind, end |-> "failed", to |-> ref.img, was |-> NoImage,
                                      undo |-> undo]],
         journal' \in {journal, [journal EXCEPT ![n] = AdmissionRecord(kind, ref)]},
         UNCHANGED <<docker, retire, gated, mover>>
  PROVE  MaintInv'
<1>0. MaintTypeOK
  BY DEF MaintInv
<1>1. /\ docker' = docker /\ op' = op /\ retire' = retire /\ gated' = gated /\ mover' = mover
      /\ n \in OpId /\ begun' \in 0..MaxOps /\ op.at = "idle" /\ luck' \in Luck
      /\ hist' \in [OpId -> Past] /\ hist'[n].kind = kind /\ hist'[n].end = "failed" /\ hist'[n].to = ref.img
      /\ hist'[n].was = NoImage /\ \A o \in OpId : o # n => hist'[o] = hist[o]
      /\ journal' \in [OpId -> Record \cup {NoRecord}] /\ \A o \in OpId : o # n => journal'[o] = journal[o]
  <2>1. n \in OpId /\ begun' \in 0..MaxOps /\ luck' \in Luck
    BY <1>0, TypeFields, SpendFacts DEF MaintTypeOK
  <2>2. /\ hist' \in [OpId -> Past] /\ hist'[n].kind = kind /\ hist'[n].end = "failed" /\ hist'[n].to = ref.img
        /\ hist'[n].was = NoImage /\ \A o \in OpId : o # n => hist'[o] = hist[o]
    BY <1>0, <2>1, BeginFacts
  <2>3. /\ journal' \in [OpId -> Record \cup {NoRecord}] /\ \A o \in OpId : o # n => journal'[o] = journal[o]
    <3>1. CASE journal' = journal
      BY <1>0, <3>1 DEF MaintTypeOK
    <3>2. CASE journal' = [journal EXCEPT ![n] = AdmissionRecord(kind, ref)]
      <4>1. kind \in {"apply", "image", "data"}
        BY DEF Kinds
      <4> QED
        BY <1>0, <2>1, <3>2, <4>1, AdmittedFacts
    <3> QED
      BY <3>1, <3>2
  <2> QED
    BY <2>1, <2>2, <2>3
<1>2. MaintTypeOK'
  BY <1>0, <1>1 DEF MaintTypeOK
<1>3. SelfInv'
  <2>1. \A o \in retire' : o <= begun' /\ hist'[o].end \in Ended
    <3>1. retire \subseteq OpId
      BY <1>0 DEF MaintTypeOK
    <3>2. \A o \in retire : o \in OpId /\ o <= begun /\ hist[o].end \in Ended /\ o # n
      BY <1>0, <3>1, TypeFields DEF MaintInv, SelfInv
    <3>3. \A o \in retire : hist'[o] = hist[o] /\ o \in Int
      BY <1>0, <1>1, <3>2, TypeFields
    <3>4. begun' = begun + 1 /\ begun \in Int /\ retire' = retire
      BY <1>0, <1>1, TypeFields
    <3> QED
      BY <3>2, <3>3, <3>4
  <2>2. \A o \in OpId : hist'[o].end = "running" => FALSE
    BY <1>1 DEF MaintInv, SelfInv, Quiet
  <2> QED
    BY <1>0, <1>1, <2>1, <2>2, TypeFields DEF MaintInv, SelfInv, Quiet
<1>4. OpInv'
  BY <1>0, <1>1 DEF MaintInv, OpInv, Quiet, Early, Moving, Back, DataStages
<1>5. HostInv'
  BY <1>0, <1>1, RefFacts DEF MaintInv, OpInv, HostInv, Core, Quiet, Early, Moving, Back, DataStages
<1>6. RecordInv'
  BY <1>0, <1>1 DEF MaintInv, SelfInv, OpInv, RecordInv, Quiet, Early, Moving, Back, DataStages
<1>7. MoverInv'
  BY <1>0, <1>1, TypeFields DEF MaintInv, SelfInv, OpInv, MoverInv, Quiet, Early, Moving, Back, DataStages
<1>8. OutcomeHonest'
  BY <1>0, <1>1, RefFacts DEF MaintInv, SelfInv, OpInv, HostInv, OutcomeHonest, Quiet, Early, Moving, Back, DataStages
<1> QED
  BY <1>2, <1>3, <1>4, <1>5, <1>6, <1>7, <1>8 DEF MaintInv

\* Admission.
LEMMA AdmitKeeps ==
  ASSUME MaintInv, NEW kind \in Kinds \ {"none"}, NEW ref \in Ref \cup {NoRef}, NEW undo \in BOOLEAN,
         Admit(kind, ref, undo)
  PROVE  MaintInv'
<1> DEFINE n == begun + 1
<1>1. /\ op.at = "idle" /\ begun < MaxOps /\ begun' = n /\ (kind \in {"apply", "image"} <=> ref # NoRef)
      /\ UNCHANGED <<docker, retire, gated, mover>>
  BY DEF Admit
<1>2. \/ /\ op' = [NoOp EXCEPT !.id = n, !.kind = kind, !.at = FirstStage(kind), !.req = ref, !.undo = undo]
         /\ hist' = [hist EXCEPT ![n] = [kind |-> kind, end |-> "running", to |-> ref.img, was |-> NoImage,
                                         undo |-> undo]]
         /\ journal' = IF kind = "restore" THEN journal ELSE [journal EXCEPT ![n] = AdmissionRecord(kind, ref)]
         /\ UNCHANGED luck
      \/ /\ kind # "restore" /\ Spend("disk")
         /\ hist' = [hist EXCEPT ![n] = [kind |-> kind, end |-> "failed", to |-> ref.img, was |-> NoImage,
                                         undo |-> undo]]
         /\ journal' \in {journal, [journal EXCEPT ![n] = AdmissionRecord(kind, ref)]}
         /\ UNCHANGED op
  BY DEF Admit
<1>3. n = begun + 1
  OBVIOUS
<1> HIDE DEF n
<1>4. CASE /\ op' = [NoOp EXCEPT !.id = n, !.kind = kind, !.at = FirstStage(kind), !.req = ref, !.undo = undo]
           /\ hist' = [hist EXCEPT ![n] = [kind |-> kind, end |-> "running", to |-> ref.img, was |-> NoImage,
                                           undo |-> undo]]
           /\ journal' = IF kind = "restore" THEN journal ELSE [journal EXCEPT ![n] = AdmissionRecord(kind, ref)]
           /\ UNCHANGED luck
  BY <1>1, <1>3, <1>4, AdmittedKeeps
<1>5. CASE /\ kind # "restore" /\ Spend("disk")
           /\ hist' = [hist EXCEPT ![n] = [kind |-> kind, end |-> "failed", to |-> ref.img, was |-> NoImage,
                                           undo |-> undo]]
           /\ journal' \in {journal, [journal EXCEPT ![n] = AdmissionRecord(kind, ref)]}
           /\ UNCHANGED op
  BY <1>1, <1>3, <1>5, RefusedKeeps
<1> QED
  BY <1>2, <1>4, <1>5

\* The installation.
LEMMA MaintInitInv ==
  ASSUME MaintInit
  PROVE  MaintInv
<1>1. docker \in Host
  BY MaintAssumption DEF MaintInit, Host
<1>2. op \in InFlight /\ op.at = "idle" /\ op.id = 0 /\ op.kind = "none" /\ op.pref = NoRef
  BY NoOpFacts DEF MaintInit
<1>3. journal \in [OpId -> Record \cup {NoRecord}]
  BY DEF MaintInit
<1>4. hist \in [OpId -> Past] /\ \A o \in OpId : hist[o].end = "none"
  BY DEF MaintInit, Past, Kinds
<1>5. MaintTypeOK
  <2>1. luck \in Luck
    BY MaintAssumption DEF MaintInit, Luck
  <2>2. begun \in 0..MaxOps /\ mover \in 0..MaxOps /\ gated \subseteq Image /\ retire \subseteq OpId
    BY MaintAssumption DEF MaintInit
  <2> QED
    BY <1>1, <1>2, <1>3, <1>4, <2>1, <2>2 DEF MaintTypeOK
<1>6. SelfInv /\ OpInv /\ MoverInv
  BY <1>2, <1>4 DEF MaintInit, SelfInv, OpInv, MoverInv, Quiet, Early, Moving, Back, DataStages
<1>7. HostInv /\ RecordInv /\ OutcomeHonest
  BY <1>2 DEF HostInv, RecordInv, OutcomeHonest, Quiet, Moving, Back
<1> QED
  BY <1>5, <1>6, <1>7 DEF MaintInv

\* Every step keeps the invariant.
LEMMA MaintNextInv ==
  ASSUME MaintInv, [MaintNext]_maintVars
  PROVE  MaintInv'
<1>1. CASE UNCHANGED maintVars
  BY <1>1 DEF maintVars, MaintInv, MaintTypeOK, SelfInv, OpInv, HostInv, RecordInv, MoverInv, OutcomeHonest, Core
<1>2. CASE \/ \E ref \in Ref, undo \in BOOLEAN : Admit("apply", ref, undo)
           \/ \E ref \in Ref : Admit("image", ref, FALSE)
           \/ \E kind \in {"data", "restore"} : Admit(kind, NoRef, FALSE)
  <2>1. "apply" \in Kinds \ {"none"} /\ "image" \in Kinds \ {"none"} /\ {"data", "restore"} \subseteq Kinds \ {"none"}
    BY DEF Kinds
  <2> QED
    BY <1>2, <2>1, AdmitKeeps
<1> QED
  BY <1>1, <1>2, CaptureBeforeKeeps, ResolveTargetKeeps, PreBackupKeeps, PullKeeps, WriteBarrierKeeps,
     TagPinnedKeeps, UpKeeps, MarkRestartedKeeps, HealthGateKeeps, VerifyKeeps, RollbackPullKeeps,
     RollbackTagKeeps, RollbackUpKeeps, RollbackHealthKeeps, RollbackVerifyKeeps, StopStackKeeps,
     RestoreCommitKeeps, StartStackKeeps, HealthCheckKeeps, TerminateKeeps, RemoveRecordKeeps, ExpireKeeps,
     AgentCrashKeeps, StagePanicsKeeps, AgentBootKeeps, OutageKeeps, RecordLostKeeps DEF MaintNext

\* The invariant holds throughout.
LEMMA MaintInvariant == MaintSpec => []MaintInv
BY MaintInitInv, MaintNextInv, PTL DEF MaintSpec

-----------------------------------------------------------------------------
(* The theorems.                                                           *)

\* The variables keep their types; in particular no rollback tags or starts an
\* image that does not exist (rollbackDecision needs a usable prior).
THEOREM MaintTypeCorrect == MaintSpec => []MaintTypeOK
<1>1. MaintInv => MaintTypeOK
  BY DEF MaintInv
<1> QED
  BY <1>1, MaintInvariant, PTL

\* The write-ahead barrier (writeBarrier) does its work: whatever fails, is
\* lost or is cut short, an unfinished upgrade that moved the tag has its
\* danger record on disk, with its target and the image it found.
THEOREM DangerIsRecorded == MaintSpec => []TagGuarded
<1>1. MaintInv => TagGuarded
  BY DEF MaintInv, MoverInv, TagGuarded
<1> QED
  BY <1>1, MaintInvariant, PTL

\* A record with a target pulled under the tag is never judged to need nothing.
LEMMA TaggedVerdict ==
  ASSUME NEW rec, NEW c, rec.kind # "data", rec.tref # NoRef, rec.tref \in Ref, rec.tref.img = docker.tag,
         rec.tref.d \in docker.names[docker.tag]
  PROVE  Verdict(rec, c) \in {"adopt", "reup"}
<1>1. RefValid(rec) /\ RefSet(rec.tref) = {rec.tref}
  BY DEF RefValid, RefSet
<1>2. rec.tref = [img |-> docker.tag, d |-> rec.tref.d]
  BY DEF Ref
<1>3. Refs(docker.tag, docker.names[docker.tag]) \cap RefSet(rec.tref) # {}
  BY <1>1, <1>2 DEF Refs
<1> QED
  BY <1>1, <1>3 DEF Verdict

\* After a crash, an operation that left the tag at an image no gate has passed
\* is judged by reconcileDecision to be adopted or converged, never ignored,
\* however little of the stack a boot can read.
THEOREM DanglingTagNeverIgnored == MaintSpec => []DanglingTagSeen
<1>1. MaintInv => DanglingTagSeen
  <2> SUFFICES ASSUME MaintInv, mover # 0, hist[mover].end = "cut", NEW c \in BootCaptures
               PROVE  Verdict(journal[mover], c) \in {"adopt", "reup"}
    BY DEF DanglingTagSeen
  <2>1. /\ journal[mover].kind \in {"apply", "image"} /\ journal[mover].tref # NoRef
        /\ journal[mover].tref.img = docker.tag /\ journal[mover].tref.d \in docker.names[docker.tag]
    BY DEF MaintInv, MoverInv
  <2>2. journal[mover].tref \in Ref
    <3>1. journal[mover] \in Record \cup {NoRecord}
      BY TypeFields DEF MaintInv, MaintTypeOK
    <3> QED
      BY <2>1, <3>1, JournalFields
  <2> QED
    BY <2>1, <2>2, TaggedVerdict
<1> QED
  BY <1>1, MaintInvariant, PTL

\* What an upgrade or a rollback reports is what runs (verifyRunningImage), for
\* every image, digest and mix of failures.
THEOREM ReportIsHonest == MaintSpec => []OutcomeHonest
<1>1. MaintInv => OutcomeHonest
  BY DEF MaintInv
<1> QED
  BY <1>1, MaintInvariant, PTL

=============================================================================
