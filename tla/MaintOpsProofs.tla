--------------------------- MODULE MaintOpsProofs ---------------------------
(***************************************************************************)
(* Proofs about MaintOps for any number of handlers, keys, slots and       *)
(* operations, any lengths of time, and any number of restarts.            *)
(*                                                                         *)
(* The inductive invariant has four parts: OpsShape (the types), OwnInv    *)
(* (who is responsible for an operation at each moment of its life), KeyInv*)
(* (what the idempotency cache remembers) and SlotInv (where the slots     *)
(* are).  Each is inductive relative to the ones before it.                *)
(*                                                                         *)
(* The last section composes the manager with the operations on Docker     *)
(* (MaintUpgradeProofs): the agent of MCMaint implements both.             *)
(***************************************************************************)
EXTENDS MCMaint, MaintUpgradeProofs, FiniteSetTheorems, TLAPS

-----------------------------------------------------------------------------
(* The invariants.                                                         *)

\* The types without the bounds on the counters.
OpsShape ==
  /\ bound \in Bounds /\ clock \in Nat /\ restarts \in Nat /\ opSem \in Int
  /\ mgr \in Manager /\ ops \in [OpIds -> Operation] /\ handler \in [Handler -> HandlerState]
  /\ server \in Server /\ records \subseteq OpIds

Running(o) == ops[o].state = "running"

\* A handler past its admission has an operation of its own, running and with
\* no goroutine yet; a journaled one has its record before the goroutine.
HandlerOf(h) ==
  /\ handler[h].at \in {"idle", "begin"} => handler[h].op = 0
  /\ handler[h].at = "idle" => ~handler[h].slot
  /\ handler[h].at # "idle" => handler[h].kind \in Kind
  /\ handler[h].at \in {"build", "spawn"} =>
       /\ handler[h].op \in OpIds /\ Running(handler[h].op)
       /\ ops[handler[h].op].task = "none"
       /\ ops[handler[h].op].kind = handler[h].kind
  /\ (handler[h].at = "spawn" /\ handler[h].kind = "state") => handler[h].op \in records
HandlerInv ==
  /\ \A h \in Handler : HandlerOf(h)
  /\ \A g, h \in Handler : (handler[g].op = handler[h].op /\ handler[h].op # 0) => g = h

\* A running operation is in the table, belongs to this life of the process and
\* has a handler or a goroutine; a state-changing one has the lock, and its
\* record once it has a goroutine.
RunOf(o) ==
  /\ Running(o) => /\ o \in mgr.active /\ ops[o].life = restarts /\ ops[o].cut = "no"
                   /\ ops[o].kind # "none"
                   /\ ops[o].task = "run" \/ \E h \in Handler : handler[h].op = o
  /\ ops[o].task = "run" => Running(o)
  /\ ops[o].slot => ops[o].task \in {"run", "ended"}
  /\ (ops[o].kind = "state" /\ Running(o)) => mgr.holder = o
  /\ (ops[o].kind = "state" /\ ops[o].task = "run") => o \in records
RunInv == \A o \in OpIds : RunOf(o)

\* An operation that was cut off belongs to an earlier life; a running one left
\* its record, and what the table shows of it is a failure.
CutOf(o) ==
  /\ ops[o].kind = "none" => ops[o] = NoOperation
  /\ (o \in records \/ o \in mgr.active) => ops[o].kind # "none"
  /\ ops[o].kind # "none" => ops[o].life <= restarts
  /\ ops[o].cut # "no" => ops[o].task = "none" /\ ops[o].life < restarts
  /\ (ops[o].kind = "state" /\ ops[o].cut = "run")
       => o \in records /\ (o \in mgr.active => ops[o].state = "failed")
CutInv == \A o \in OpIds : CutOf(o)

\* The lock's holder is a running state-changing operation.
HolderInv == mgr.holder # 0 => ops[mgr.holder].kind = "state" /\ Running(mgr.holder)

\* What the stage of the server says about the handlers, the operations and the
\* process.
ServerInv ==
  /\ server.at \in {"stopping", "draining"} => restarts < bound.restarts
  /\ (server.at = "draining" /\ ~server.hurried) => \A h \in Handler : handler[h].at = "idle"
  /\ server.at = "down" =>
       /\ mgr = EmptyManager /\ opSem = 0 /\ \A h \in Handler : handler[h] = Resting
       /\ \A o \in OpIds : /\ ops[o].task = "none" /\ ~Running(o)
                           /\ ops[o].kind # "none" => ops[o].life < restarts
  /\ (server.at = "down" /\ server.drained /\ ~server.hurried)
       => \A o \in OpIds : ops[o].life = restarts - 1 => ops[o].cut = "no"

OwnInv == HandlerInv /\ RunInv /\ CutInv /\ HolderInv /\ ServerInv

\* Operations are numbered without a gap.
NumberInv == \E n \in 0..MaxOpId : \A o \in OpIds : ops[o] = NoOperation <=> o > n

\* A key's entry names an operation of the table, and it is there until the key
\* is too old.
KeyInv ==
  /\ NumberInv /\ KeyedOnce
  /\ \A k \in Key : mgr.cache[k].op # 0 => mgr.cache[k].op \in mgr.active
  /\ \A o \in OpIds :
       (ops[o].key # NoKey /\ ops[o].life = restarts /\ server.at # "down")
         => \/ mgr.cache[ops[o].key] = [op |-> o, when |-> ops[o].begun]
            \/ clock - ops[o].begun > KeyTTL

\* The slots, and no more than there are.
SlotInv == SlotsAccounted /\ opSem <= Slots

-----------------------------------------------------------------------------
(* What the actions do to the records.                                     *)

\* The values the actions start from are well typed.
LEMMA EmptyTypes ==
  /\ NoOperation \in Operation /\ NoEntry \in Entry /\ Resting \in HandlerState
  /\ EmptyManager \in Manager /\ EmptyManager.active = {} /\ EmptyManager.holder = 0
  /\ \A k \in Key : EmptyManager.cache[k].op = 0
<1>1. MaxOpId \in Nat
  BY MaintOpsAssumption
<1>2. NoOperation \in Operation /\ NoEntry \in Entry /\ Resting \in HandlerState
  BY <1>1 DEF NoOperation, Operation, NoEntry, Entry, Resting, HandlerState
<1>3. [k \in Key |-> NoEntry] \in [Key -> Entry] /\ NoEntry.op = 0
  BY <1>2 DEF NoEntry
<1>4. EmptyManager \in Manager
  BY <1>1, <1>3 DEF EmptyManager, Manager
<1> QED BY <1>2, <1>3, <1>4 DEF EmptyManager

\* Finish sets the state and the time, ends the goroutine's run and frees the
\* lock the operation held.
LEMMA FinishFacts ==
  ASSUME OpsShape, NEW o \in OpIds, NEW s \in {"succeeded", "failed"}, Finish(o, s)
  PROVE  /\ ops' \in [OpIds -> Operation] /\ mgr' \in Manager
         /\ \A p \in OpIds \ {o} : ops'[p] = ops[p]
         /\ ops'[o].kind = ops[o].kind /\ ops'[o].key = ops[o].key /\ ops'[o].state = s
         /\ ops'[o].begun = ops[o].begun /\ ops'[o].life = ops[o].life
         /\ ops'[o].slot = ops[o].slot /\ ops'[o].cut = ops[o].cut
         /\ ops'[o].task = IF ops[o].task = "run" THEN "ended" ELSE ops[o].task
         /\ mgr'.active = mgr.active /\ mgr'.cache = mgr.cache
         /\ mgr'.holder = IF mgr.holder = o THEN 0 ELSE mgr.holder
<1> DEFINE n == [ops[o] EXCEPT !.state = s, !.ended = clock,
                               !.task = IF @ = "run" THEN "ended" ELSE @]
<1>1. ops[o] \in Operation /\ clock \in Nat /\ mgr \in Manager
  BY DEF OpsShape
<1>2. n \in Operation
  BY <1>1 DEF Operation
<1>3. /\ n.kind = ops[o].kind /\ n.key = ops[o].key /\ n.state = s
      /\ n.begun = ops[o].begun /\ n.life = ops[o].life
      /\ n.slot = ops[o].slot /\ n.cut = ops[o].cut
      /\ n.task = IF ops[o].task = "run" THEN "ended" ELSE ops[o].task
  BY <1>1 DEF Operation
<1>4. ops' = [ops EXCEPT ![o] = n]
  BY DEF Finish
<1> HIDE DEF n
<1>5. ops' \in [OpIds -> Operation] /\ ops'[o] = n /\ \A p \in OpIds \ {o} : ops'[p] = ops[p]
  BY <1>2, <1>4 DEF OpsShape
<1>6. mgr' \in Manager /\ mgr'.active = mgr.active /\ mgr'.cache = mgr.cache
      /\ mgr'.holder = IF mgr.holder = o THEN 0 ELSE mgr.holder
  <2>1. mgr' = [mgr EXCEPT !.holder = IF @ = o THEN 0 ELSE @]
    BY DEF Finish
  <2>2. 0 \in 0..MaxOpId
    BY MaintOpsAssumption
  <2> QED BY <1>1, <2>1, <2>2 DEF Manager
<1> QED BY <1>3, <1>5, <1>6

\* A handler that returns is at rest; its slot is back.
LEMMA ReturnFacts ==
  ASSUME OpsShape, NEW h \in Handler, Answered(h)
  PROVE  /\ handler' \in [Handler -> HandlerState] /\ handler'[h] = Resting
         /\ \A g \in Handler \ {h} : handler'[g] = handler[g]
BY EmptyTypes DEF OpsShape, Answered

\* The end of the process takes goroutines, slots and states with it, and marks
\* what was running.
LEMMA GoneFacts ==
  ASSUME OpsShape, NEW d \in BOOLEAN, Gone(d)
  PROVE  /\ ops' \in [OpIds -> Operation]
         /\ \A o \in OpIds :
              /\ ops'[o].kind = ops[o].kind /\ ops'[o].key = ops[o].key
              /\ ops'[o].begun = ops[o].begun /\ ops'[o].life = ops[o].life
              /\ ops'[o].state = "none" /\ ops'[o].task = "none" /\ ops'[o].slot = FALSE
              /\ ops'[o].cut = IF ~Running(o) THEN ops[o].cut
                               ELSE IF ops[o].task = "run" THEN "run" ELSE "admitted"
              /\ ops[o] = NoOperation => ops'[o] = NoOperation
         /\ server' \in Server /\ server'.at = "down" /\ server'.drained = d
         /\ server'.hurried = server.hurried
         /\ mgr' = EmptyManager /\ \A h \in Handler : handler'[h] = Resting
         /\ restarts' = restarts + 1 /\ opSem' = 0
         /\ clock' = clock /\ records' = records /\ bound' = bound
<1>1. ASSUME NEW o \in OpIds
      PROVE  /\ ops'[o].kind = ops[o].kind /\ ops'[o].key = ops[o].key
             /\ ops'[o].begun = ops[o].begun /\ ops'[o].life = ops[o].life
             /\ ops'[o].state = "none" /\ ops'[o].task = "none" /\ ops'[o].slot = FALSE
             /\ ops'[o].cut = IF ~Running(o) THEN ops[o].cut
                              ELSE IF ops[o].task = "run" THEN "run" ELSE "admitted"
             /\ ops'[o] \in Operation
             /\ ops[o] = NoOperation => ops'[o] = NoOperation
  <2>1. ops[o] \in Operation
    BY DEF OpsShape
  <2>2. ops'[o] = [ops[o] EXCEPT !.task = "none", !.slot = FALSE, !.state = "none",
                              !.cut = IF ops[o].state # "running" THEN @
                                      ELSE IF ops[o].task = "run" THEN "run" ELSE "admitted"]
    BY DEF Gone
  <2>3. ASSUME ops[o] = NoOperation PROVE ops'[o] = NoOperation
    <3>1. ops'[o] \in Operation
      BY <2>1, <2>2 DEF Operation
    <3>2. /\ ops'[o].kind = NoOperation.kind /\ ops'[o].key = NoOperation.key
          /\ ops'[o].state = NoOperation.state /\ ops'[o].begun = NoOperation.begun
          /\ ops'[o].ended = NoOperation.ended /\ ops'[o].life = NoOperation.life
          /\ ops'[o].task = NoOperation.task /\ ops'[o].slot = NoOperation.slot
          /\ ops'[o].cut = NoOperation.cut
      BY <2>1, <2>2, <2>3 DEF NoOperation, Operation
    <3> QED BY <3>1, <3>2, EmptyTypes DEF Operation
  <2> QED BY <2>1, <2>2, <2>3 DEF Operation, Running
<1>2. ops' \in [OpIds -> Operation]
  <2>1. ops' = [o \in OpIds |-> ops'[o]]
    BY DEF Gone
  <2> QED BY <1>1, <2>1
<1>3. /\ server' \in Server /\ server'.at = "down" /\ server'.drained = d
      /\ server'.hurried = server.hurried
  BY DEF Gone, OpsShape, Server
<1>4. mgr' = EmptyManager /\ \A h \in Handler : handler'[h] = Resting
  BY DEF Gone
<1>5. /\ restarts' = restarts + 1 /\ opSem' = 0
      /\ clock' = clock /\ records' = records /\ bound' = bound
  BY DEF Gone
<1> QED BY <1>1, <1>2, <1>3, <1>4, <1>5

\* The start lists the operations that left a record, as failed.
LEMMA BootFacts ==
  ASSUME OpsShape, Boot
  PROVE  /\ ops' \in [OpIds -> Operation]
         /\ \A o \in OpIds :
              /\ ops'[o].kind = ops[o].kind /\ ops'[o].key = ops[o].key
              /\ ops'[o].begun = ops[o].begun /\ ops'[o].life = ops[o].life
              /\ ops'[o].task = ops[o].task /\ ops'[o].slot = ops[o].slot
              /\ ops'[o].cut = ops[o].cut
              /\ ops'[o].state = IF o \in records THEN "failed" ELSE ops[o].state
              /\ o \notin records => ops'[o] = ops[o]
         /\ mgr' \in Manager /\ mgr'.active = records /\ mgr'.holder = 0
         /\ mgr'.cache = EmptyManager.cache
<1>1. ASSUME NEW o \in OpIds
      PROVE  /\ ops'[o].kind = ops[o].kind /\ ops'[o].key = ops[o].key
             /\ ops'[o].begun = ops[o].begun /\ ops'[o].life = ops[o].life
             /\ ops'[o].task = ops[o].task /\ ops'[o].slot = ops[o].slot
             /\ ops'[o].cut = ops[o].cut
             /\ ops'[o].state = IF o \in records THEN "failed" ELSE ops[o].state
             /\ o \notin records => ops'[o] = ops[o]
             /\ ops'[o] \in Operation
  <2>1. ops[o] \in Operation /\ clock \in Nat
    BY DEF OpsShape
  <2>2. ops'[o] = IF o \in records THEN [ops[o] EXCEPT !.state = "failed", !.ended = clock]
                                   ELSE ops[o]
    BY DEF Boot
  <2> QED BY <2>1, <2>2 DEF Operation
<1>2. ops' \in [OpIds -> Operation]
  <2>1. ops' = [o \in OpIds |-> ops'[o]]
    BY DEF Boot
  <2> QED BY <1>1, <2>1
<1>3. /\ mgr' \in Manager /\ mgr'.active = records /\ mgr'.holder = 0
      /\ mgr'.cache = EmptyManager.cache
  <2>1. mgr' = [EmptyManager EXCEPT !.active = records] /\ records \subseteq OpIds
    BY DEF Boot, OpsShape
  <2>2. EmptyManager \in Manager /\ EmptyManager.holder = 0
    BY EmptyTypes
  <2> QED BY <2>1, <2>2 DEF Manager
<1> QED BY <1>1, <1>2, <1>3

\* The goroutine's two ends: operation o is left with task t and slot b.
Tasked(o, t, b) == ops' = [ops EXCEPT ![o].task = t, ![o].slot = b]

LEMMA TaskFacts ==
  ASSUME OpsShape, NEW o \in OpIds, NEW t \in {"run", "gone"}, NEW b \in BOOLEAN, Tasked(o, t, b)
  PROVE  /\ ops' \in [OpIds -> Operation]
         /\ \A p \in OpIds \ {o} : ops'[p] = ops[p]
         /\ ops'[o].kind = ops[o].kind /\ ops'[o].key = ops[o].key
         /\ ops'[o].state = ops[o].state /\ ops'[o].begun = ops[o].begun
         /\ ops'[o].life = ops[o].life /\ ops'[o].cut = ops[o].cut
         /\ ops'[o].task = t /\ ops'[o].slot = b
<1>1. ops \in [OpIds -> Operation] /\ ops[o] \in Operation
  BY DEF OpsShape
<1>2. [ops[o] EXCEPT !.task = t, !.slot = b] \in Operation
  BY <1>1 DEF Operation
<1>3. ops' = [ops EXCEPT ![o] = [ops[o] EXCEPT !.task = t, !.slot = b]]
  BY DEF Tasked
<1>4. ops' \in [OpIds -> Operation] /\ \A p \in OpIds \ {o} : ops'[p] = ops[p]
  BY <1>1, <1>2, <1>3
<1>5. ops'[o] = [ops[o] EXCEPT !.task = t, !.slot = b]
  BY <1>1, <1>3
<1> QED BY <1>1, <1>4, <1>5 DEF Operation

-----------------------------------------------------------------------------
(* BeginIdempotent.                                                        *)

\* purgeActiveLocked reaps finished operations only, and none that a key of the
\* cache refers to, however full the table is.
LEMMA PurgeKeeps ==
  ASSUME NEW active, NEW cache
  PROVE  /\ PurgedActive(active, cache) \subseteq active
         /\ \A o \in active : (o \in Referenced(cache) \/ ~Terminal(o))
              => o \in PurgedActive(active, cache)
BY DEF PurgedActive

\* purgeIdempCacheLocked keeps an entry or clears it, and clears the old ones.
LEMMA CacheLeft ==
  ASSUME OpsShape
  PROVE  /\ PurgedCache(mgr.cache) \in [Key -> Entry]
         /\ \A k \in Key : LET c == PurgedCache(mgr.cache)[k] IN
              \/ c = mgr.cache[k] /\ ~(c.when < clock - KeyTTL)
              \/ c = NoEntry /\ mgr.cache[k].when < clock - KeyTTL
<1>1. mgr.cache \in [Key -> Entry]
  BY DEF OpsShape, Manager
<1> QED BY <1>1, EmptyTypes DEF PurgedCache

\* The next operation takes the number after the last one.
LEMMA NextIdFacts ==
  ASSUME OpsShape, NumberInv, IdsLeft
  PROVE  /\ NextId \in OpIds /\ ops[NextId] = NoOperation
         /\ \A p \in OpIds : ops[p] = NoOperation <=> p >= NextId
<1>1. PICK n \in 0..MaxOpId : \A o \in OpIds : ops[o] = NoOperation <=> o > n
  BY DEF NumberInv
<1>2. bound.ops \in 0..MaxOpId /\ MaxOpId \in Nat
  BY MaintOpsAssumption DEF OpsShape, Bounds
<1>3. PICK o \in 1..bound.ops : ops[o] = NoOperation
  BY DEF IdsLeft
<1>4. n + 1 \in OpIds /\ ops[n + 1] = NoOperation /\ \A p \in 1..n : ops[p] # NoOperation
  BY <1>1, <1>2, <1>3 DEF OpIds
<1>5. \E m \in OpIds : ops[m] = NoOperation /\ \A p \in 1..(m - 1) : ops[p] # NoOperation
  <2>1. (n + 1) - 1 = n
    BY <1>2
  <2> QED BY <1>4, <2>1
<1>6. /\ NextId \in OpIds /\ ops[NextId] = NoOperation
      /\ \A p \in 1..(NextId - 1) : ops[p] # NoOperation
  BY <1>5 DEF NextId
<1>7. NextId = n + 1
  <2>1. NextId > n
    BY <1>1, <1>6
  <2>2. ~(n + 1 < NextId)
    BY <1>4, <1>6 DEF OpIds
  <2> QED BY <1>2, <1>6, <2>1, <2>2 DEF OpIds
<1> QED BY <1>1, <1>2, <1>6, <1>7 DEF OpIds

CacheNow == PurgedCache(mgr.cache)
ActiveNow == PurgedActive(mgr.active, CacheNow)

\* The request is a duplicate or finds the lock taken.
BeginRefused(h) ==
  /\ ops' = ops /\ Returned(h)
  /\ mgr'.active = ActiveNow /\ mgr'.holder = mgr.holder
  /\ \A k \in Key : \/ mgr'.cache[k] = CacheNow[k]
                    \/ mgr'.cache[k] = NoEntry /\ CacheNow[k].op \notin ActiveNow

\* It is admitted as operation o.
BeginAdmits(h, o) ==
  /\ ops[o] = NoOperation /\ \A p \in OpIds : ops[p] = NoOperation <=> p >= o
  /\ \A p \in OpIds \ {o} : ops'[p] = ops[p]
  /\ ops'[o].kind = handler[h].kind /\ ops'[o].key = handler[h].key
  /\ ops'[o].state = "running" /\ ops'[o].begun = clock /\ ops'[o].life = restarts
  /\ ops'[o].task = "none" /\ ops'[o].slot = FALSE /\ ops'[o].cut = "no"
  /\ mgr'.active = ActiveNow \cup {o}
  /\ mgr'.holder = IF handler[h].kind = "state" THEN o ELSE mgr.holder
  /\ handler[h].kind = "state" => mgr.holder = 0
  /\ handler[h].key # NoKey => /\ CacheNow[handler[h].key].op \notin ActiveNow
                               /\ mgr'.cache[handler[h].key] = [op |-> o, when |-> clock]
  /\ \A k \in Key \ {handler[h].key} : mgr'.cache[k] = CacheNow[k]
  /\ handler'[h].at = "build" /\ handler'[h].op = o /\ handler'[h].kind = handler[h].kind
  /\ handler'[h].slot = handler[h].slot
  /\ \A g \in Handler \ {h} : handler'[g] = handler[g]
  /\ opSem' = opSem

\* BeginIdempotent does one or the other.
LEMMA BeginCases ==
  ASSUME OpsShape, NumberInv, NEW h \in Handler, Begin(h)
  PROVE  /\ mgr' \in Manager /\ ops' \in [OpIds -> Operation]
         /\ handler' \in [Handler -> HandlerState]
         /\ BeginRefused(h) \/ \E o \in OpIds : BeginAdmits(h, o)
<1> DEFINE key == handler[h].key
           kind == handler[h].kind
           found == key # NoKey /\ CacheNow[key].op \in ActiveNow
           busy == kind = "state" /\ mgr.holder # 0
           kept == IF key = NoKey THEN CacheNow
                   ELSE [CacheNow EXCEPT ![key] = IF found THEN @ ELSE NoEntry]
           o == NextId
           new == [NoOperation EXCEPT !.kind = kind, !.key = key, !.state = "running",
                                      !.begun = clock, !.life = restarts]
<1>1. /\ key \in Key \cup {NoKey} /\ kind \in Kind \cup {"none"} /\ handler[h] \in HandlerState
      /\ mgr \in Manager /\ mgr.active \subseteq OpIds /\ mgr.holder \in 0..MaxOpId
      /\ clock \in Nat /\ restarts \in Nat /\ ops \in [OpIds -> Operation]
      /\ handler \in [Handler -> HandlerState]
  BY DEF OpsShape, HandlerState, Manager
<1>2. CacheNow \in [Key -> Entry] /\ ActiveNow \subseteq mgr.active
  BY CacheLeft, PurgeKeeps DEF CacheNow, ActiveNow
<1>3. /\ kept \in [Key -> Entry]
      /\ \A k \in Key : kept[k] = CacheNow[k] \/ (k = key /\ ~found /\ kept[k] = NoEntry)
  BY <1>1, <1>2, EmptyTypes
<1>4. o \in OpIds /\ ops[o] = NoOperation /\ \A p \in OpIds : ops[p] = NoOperation <=> p >= o
  BY NextIdFacts DEF Begin
<1>c. \/ /\ found \/ busy
         /\ mgr' = [mgr EXCEPT !.active = ActiveNow, !.cache = kept]
         /\ Returned(h) /\ ops' = ops
      \/ /\ ~found /\ ~busy
         /\ mgr' = [active |-> ActiveNow \cup {o},
                    holder |-> IF kind = "state" THEN o ELSE mgr.holder,
                    cache |-> IF key = NoKey THEN kept
                              ELSE [kept EXCEPT ![key] = [op |-> o, when |-> clock]]]
         /\ ops' = [ops EXCEPT ![o] = new]
         /\ handler' = [handler EXCEPT ![h].at = "build", ![h].op = o] /\ opSem' = opSem
  BY DEF Begin, CacheNow, ActiveNow
<1> HIDE DEF kept, new, o
<1>5. CASE /\ found \/ busy
           /\ mgr' = [mgr EXCEPT !.active = ActiveNow, !.cache = kept]
           /\ Returned(h) /\ ops' = ops
  <2>1. /\ mgr' \in Manager /\ mgr'.active = ActiveNow /\ mgr'.holder = mgr.holder
        /\ mgr'.cache = kept
    <3>1. ActiveNow \in SUBSET OpIds
      BY <1>1, <1>2
    <3> QED BY <1>1, <1>3, <1>5, <3>1 DEF Manager
  <2>2. handler' \in [Handler -> HandlerState]
    BY <1>5, ReturnFacts DEF Returned
  <2>3. \A k \in Key : \/ mgr'.cache[k] = CacheNow[k]
                       \/ mgr'.cache[k] = NoEntry /\ CacheNow[k].op \notin ActiveNow
    <3> SUFFICES ASSUME NEW k \in Key, mgr'.cache[k] # CacheNow[k]
                 PROVE  mgr'.cache[k] = NoEntry /\ CacheNow[k].op \notin ActiveNow
      OBVIOUS
    <3>1. k = key /\ ~found /\ kept[k] = NoEntry
      BY <1>3, <2>1
    <3>2. key # NoKey
      BY <3>1, MaintOpsAssumption DEF Key
    <3> QED BY <2>1, <3>1, <3>2
  <2> QED BY <1>1, <1>5, <2>1, <2>2, <2>3 DEF BeginRefused
<1>6. CASE /\ ~found /\ ~busy
           /\ mgr' = [active |-> ActiveNow \cup {o},
                      holder |-> IF kind = "state" THEN o ELSE mgr.holder,
                      cache |-> IF key = NoKey THEN kept
                                ELSE [kept EXCEPT ![key] = [op |-> o, when |-> clock]]]
           /\ ops' = [ops EXCEPT ![o] = new]
           /\ handler' = [handler EXCEPT ![h].at = "build", ![h].op = o] /\ opSem' = opSem
  <2> DEFINE last == IF key = NoKey THEN kept
                     ELSE [kept EXCEPT ![key] = [op |-> o, when |-> clock]]
  <2>1. [op |-> o, when |-> clock] \in Entry /\ o \in 0..MaxOpId
    BY <1>1, <1>4, MaintOpsAssumption DEF Entry, OpIds
  <2>2. /\ last \in [Key -> Entry]
        /\ key # NoKey => last[key] = [op |-> o, when |-> clock]
        /\ \A k \in Key \ {key} : last[k] = CacheNow[k]
    BY <1>1, <1>3, <2>1
  <2>3. /\ mgr'.active = ActiveNow \cup {o} /\ mgr'.cache = last
        /\ mgr'.holder = IF kind = "state" THEN o ELSE mgr.holder
    BY <1>6
  <2>4. mgr' \in Manager
    <3> HIDE DEF last
    <3>1. mgr' = [active |-> ActiveNow \cup {o},
                  holder |-> IF kind = "state" THEN o ELSE mgr.holder, cache |-> last]
      BY <1>6 DEF last
    <3>2. ActiveNow \cup {o} \in SUBSET OpIds
      BY <1>1, <1>2, <1>4
    <3>3. (IF kind = "state" THEN o ELSE mgr.holder) \in 0..MaxOpId
      BY <1>1, <2>1
    <3> QED BY <2>2, <3>1, <3>2, <3>3 DEF Manager
  <2>5. /\ new \in Operation /\ new.kind = kind /\ new.key = key /\ new.state = "running"
        /\ new.begun = clock /\ new.life = restarts /\ new.task = "none"
        /\ new.slot = FALSE /\ new.cut = "no"
    <3>1. NoOperation.task = "none" /\ NoOperation.slot = FALSE /\ NoOperation.cut = "no"
      BY DEF NoOperation
    <3> QED BY <1>1, <3>1, EmptyTypes DEF new, Operation
  <2>6. ops' \in [OpIds -> Operation] /\ ops'[o] = new /\ \A p \in OpIds \ {o} : ops'[p] = ops[p]
    BY <1>1, <1>4, <1>6, <2>5
  <2>7. /\ handler' \in [Handler -> HandlerState]
        /\ handler'[h].at = "build" /\ handler'[h].op = o /\ handler'[h].kind = handler[h].kind
        /\ handler'[h].slot = handler[h].slot
        /\ \A g \in Handler \ {h} : handler'[g] = handler[g]
    <3>1. [handler[h] EXCEPT !.at = "build", !.op = o] \in HandlerState
      BY <1>1, <2>1 DEF HandlerState
    <3>2. handler' = [handler EXCEPT ![h] = [handler[h] EXCEPT !.at = "build", !.op = o]]
      BY <1>6
    <3>3. handler'[h] = [handler[h] EXCEPT !.at = "build", !.op = o]
      BY <1>1, <3>2
    <3> QED BY <1>1, <3>1, <3>2, <3>3 DEF HandlerState
  <2>8. /\ kind = "state" => mgr.holder = 0
        /\ key # NoKey => CacheNow[key].op \notin ActiveNow
    BY <1>6
  <2> HIDE DEF last
  <2>9. BeginAdmits(h, o)
    BY <1>4, <1>6, <2>2, <2>3, <2>5, <2>6, <2>7, <2>8 DEF BeginAdmits
  <2> QED BY <1>4, <2>4, <2>6, <2>7, <2>9
<1> QED BY <1>c, <1>5, <1>6

-----------------------------------------------------------------------------
(* Types.                                                                  *)

\* A request puts its handler before the admission, with the slot it took.
LEMMA RequestFacts ==
  ASSUME OpsShape, NEW h \in Handler, NEW kind \in Kind, NEW key \in Key \cup {NoKey},
         Request(h, kind, key)
  PROVE  /\ handler' \in [Handler -> HandlerState] /\ handler[h].at = "idle"
         /\ handler'[h].at = "begin" /\ handler'[h].kind = kind /\ handler'[h].op = 0
         /\ handler'[h].slot \in BOOLEAN
         /\ \A g \in Handler \ {h} : handler'[g] = handler[g]
         /\ \/ handler'[h].slot = TRUE /\ opSem < Slots /\ opSem' = opSem + 1
            \/ handler'[h].slot = FALSE /\ opSem' = opSem
<1> DEFINE slotted == kind = "read" /\ ~HasLive(key)
           c == [Resting EXCEPT !.at = "begin", !.kind = kind, !.key = key, !.slot = slotted]
<1>1. /\ slotted => opSem < Slots
      /\ opSem' = IF slotted THEN opSem + 1 ELSE opSem
      /\ handler' = [handler EXCEPT ![h] = c] /\ handler[h].at = "idle"
  BY DEF Request
<1> HIDE DEF slotted
<1>2. /\ c \in HandlerState /\ c.at = "begin" /\ c.kind = kind /\ c.op = 0
      /\ c.slot = slotted
  <2>1. Resting.op = 0 /\ slotted \in BOOLEAN
    BY DEF Resting, slotted
  <2> QED BY <2>1, EmptyTypes DEF HandlerState
<1> HIDE DEF c
<1>3. /\ handler' \in [Handler -> HandlerState] /\ handler'[h] = c
      /\ \A g \in Handler \ {h} : handler'[g] = handler[g]
  BY <1>1, <1>2 DEF OpsShape
<1>4. slotted \in BOOLEAN
  BY DEF slotted
<1> QED BY <1>1, <1>2, <1>3, <1>4

\* Build moves its handler on and writes the record of a journaled operation.
LEMMA BuildFacts ==
  ASSUME OpsShape, NEW h \in Handler, Build(h)
  PROVE  /\ handler' \in [Handler -> HandlerState] /\ handler[h].at = "build"
         /\ handler'[h].at = "spawn" /\ handler'[h].op = handler[h].op
         /\ handler'[h].kind = handler[h].kind /\ handler'[h].slot = handler[h].slot
         /\ \A g \in Handler \ {h} : handler'[g] = handler[g]
<1>1. handler[h] \in HandlerState /\ handler \in [Handler -> HandlerState]
  BY DEF OpsShape
<1>2. [handler[h] EXCEPT !.at = "spawn"] \in HandlerState
  BY <1>1 DEF HandlerState
<1>3. handler' = [handler EXCEPT ![h] = [handler[h] EXCEPT !.at = "spawn"]] /\ handler[h].at = "build"
  BY DEF Build
<1>4. handler'[h] = [handler[h] EXCEPT !.at = "spawn"]
  BY <1>1, <1>3
<1> QED BY <1>1, <1>2, <1>3, <1>4 DEF HandlerState

\* Every action keeps the types.
LEMMA ShapeStep ==
  ASSUME OpsShape, HandlerInv, NumberInv, [OpsNext]_opsVars
  PROVE  OpsShape'
<1>t. clock \in Nat /\ restarts \in Nat /\ opSem \in Int /\ mgr \in Manager /\ server \in Server
  BY DEF OpsShape
<1>o. \A h \in Handler : handler[h].at \in {"build", "spawn"} => handler[h].op \in OpIds
  BY DEF HandlerInv, HandlerOf
<1>r. \A h \in Handler : Returned(h) => opSem' \in Int
  BY <1>t DEF Returned
<1>1. CASE UNCHANGED opsVars
  BY <1>1 DEF OpsShape, opsVars
<1>2. CASE Tick
  BY <1>2 DEF OpsShape, Tick
<1>3. ASSUME NEW h \in Handler, NEW kind \in Kind, NEW key \in Key \cup {NoKey},
             Request(h, kind, key)
      PROVE  OpsShape'
  <2>1. handler' \in [Handler -> HandlerState] /\ opSem' \in {opSem, opSem + 1}
    BY <1>3, RequestFacts
  <2>2. opSem' \in Int
    BY <1>t, <2>1
  <2> QED BY <1>3, <2>1, <2>2 DEF OpsShape, Request
<1>4. ASSUME NEW h \in Handler, Begin(h) PROVE OpsShape'
  <2>1. opSem' \in Int
    BY <1>4, <1>r, <1>t, BeginCases DEF BeginRefused, BeginAdmits
  <2>2. mgr' \in Manager /\ ops' \in [OpIds -> Operation] /\ handler' \in [Handler -> HandlerState]
    BY <1>4, BeginCases
  <2> QED BY <1>4, <2>1, <2>2 DEF OpsShape, Begin
<1>5. ASSUME NEW h \in Handler, Build(h) PROVE OpsShape'
  <2>1. records' \subseteq OpIds
    BY <1>5, <1>o DEF OpsShape, Build
  <2> QED BY <1>5, <2>1, BuildFacts DEF OpsShape, Build
<1>6. ASSUME NEW h \in Handler, BuildFails(h) PROVE OpsShape'
  <2>1. handler[h].op \in OpIds /\ Finish(handler[h].op, "failed") /\ Returned(h)
    BY <1>6, <1>o DEF BuildFails
  <2>2. ops' \in [OpIds -> Operation] /\ mgr' \in Manager
    BY <2>1, FinishFacts
  <2>3. handler' \in [Handler -> HandlerState] /\ opSem' \in Int
    BY <1>r, <2>1, ReturnFacts DEF Returned
  <2>4. records' \subseteq OpIds
    BY <1>6, <2>1 DEF OpsShape, BuildFails
  <2> QED BY <1>6, <2>2, <2>3, <2>4 DEF OpsShape, BuildFails
<1>7. ASSUME NEW h \in Handler, Spawn(h) PROVE OpsShape'
  <2>1. handler[h].op \in OpIds /\ handler[h].slot \in BOOLEAN
    BY <1>7, <1>o DEF Spawn, OpsShape, HandlerState
  <2>2. Tasked(handler[h].op, "run", handler[h].slot) /\ Answered(h)
    BY <1>7 DEF Spawn, Tasked
  <2>3. ops' \in [OpIds -> Operation]
    BY <2>1, <2>2, TaskFacts
  <2>4. handler' \in [Handler -> HandlerState]
    BY <2>2, ReturnFacts
  <2> QED BY <1>7, <2>3, <2>4 DEF OpsShape, Spawn
<1>8. ASSUME NEW o \in OpIds, RunEnds(o) PROVE OpsShape'
  <2>1. ops' \in [OpIds -> Operation] /\ mgr' \in Manager
    BY <1>8, FinishFacts DEF RunEnds
  <2> QED BY <1>8, <2>1 DEF OpsShape, RunEnds
<1>9. ASSUME NEW o \in OpIds, TaskEnds(o) PROVE OpsShape'
  <2>1. Tasked(o, "gone", FALSE)
    BY <1>9 DEF TaskEnds, Tasked
  <2>2. ops' \in [OpIds -> Operation]
    BY <2>1, TaskFacts
  <2>3. records' \subseteq OpIds /\ opSem' \in Int
    BY <1>9, <1>t DEF TaskEnds, OpsShape
  <2> QED BY <1>9, <2>2, <2>3 DEF OpsShape, TaskEnds
<1>10. CASE Signal
  <2>1. server' \in Server
    BY <1>10, <1>t DEF Signal, Server
  <2> QED BY <1>10, <2>1 DEF OpsShape, Signal
<1>11. CASE ShutdownReturns
  <2>1. server' \in Server
    BY <1>11, <1>t DEF ShutdownReturns, Server
  <2> QED BY <1>11, <2>1 DEF OpsShape, ShutdownReturns
<1>15. CASE ListenerFails
  <2>1. server' \in Server
    BY <1>15, <1>t DEF ListenerFails, Server
  <2> QED BY <1>15, <2>1 DEF OpsShape, ListenerFails
<1>12. ASSUME NEW d \in BOOLEAN, Gone(d) PROVE OpsShape'
  <2>1. ops' \in [OpIds -> Operation] /\ mgr' \in Manager /\ server' \in Server
    BY <1>12, GoneFacts, EmptyTypes
  <2>2. handler' \in [Handler -> HandlerState]
    BY <1>12, EmptyTypes DEF Gone
  <2>3. /\ restarts' = restarts + 1 /\ opSem' = 0
        /\ clock' = clock /\ records' = records /\ bound' = bound
    BY <1>12, GoneFacts
  <2> QED BY <1>t, <2>1, <2>2, <2>3 DEF OpsShape
<1>13. CASE Boot
  <2>1. server' \in Server
    BY <1>13 DEF Boot, Server
  <2>2. ops' \in [OpIds -> Operation] /\ mgr' \in Manager
    BY <1>13, BootFacts
  <2> QED BY <1>13, <2>1, <2>2 DEF OpsShape, Boot
<1>14. CASE Drain \/ Crash
  BY <1>14, <1>12 DEF Drain, Crash
<1> QED BY <1>1, <1>2, <1>3, <1>4, <1>5, <1>6, <1>7, <1>8, <1>9, <1>10, <1>11, <1>13, <1>14, <1>15
        DEF OpsNext

-----------------------------------------------------------------------------
(* Responsibility for an operation.                                        *)

\* A handler in the middle of a request shows that the process is up, and that
\* a drain that is under way did not wait for it.
LEMMA BusyHandler ==
  ASSUME OpsShape, ServerInv, NEW h \in Handler, handler[h].at # "idle"
  PROVE  server.at # "down" /\ (server.at = "draining" => server.hurried)
BY DEF ServerInv, Resting

\* So does a goroutine.
LEMMA BusyTask ==
  ASSUME OpsShape, ServerInv, NEW o \in OpIds, ops[o].task # "none"
  PROVE  server.at # "down"
BY DEF ServerInv

\* The server's stage says the same after a step of a process that is up, if the
\* step keeps idle handlers idle.
LEMMA ServerKept ==
  ASSUME OpsShape, ServerInv, server' = server, restarts' = restarts, bound' = bound,
         server.at # "down",
         \/ \A h \in Handler : handler[h].at = "idle" => handler'[h].at = "idle"
         \/ server.at # "draining"
         \/ server.hurried
  PROVE  ServerInv'
BY DEF ServerInv

\* A new request.
LEMMA OwnRequest ==
  ASSUME OpsShape, OwnInv, NEW h \in Handler, NEW kind \in Kind, NEW key \in Key \cup {NoKey},
         Request(h, kind, key)
  PROVE  OwnInv'
<1>1. /\ handler[h].at = "idle" /\ handler[h].op = 0 /\ handler'[h].at = "begin"
      /\ handler'[h].kind = kind /\ handler'[h].op = 0
      /\ \A g \in Handler \ {h} : handler'[g] = handler[g]
  BY RequestFacts DEF OwnInv, HandlerInv, HandlerOf
<1>2. UNCHANGED <<mgr, ops, server, records, restarts, bound>> /\ server.at = "serving"
  BY DEF Request
<1>3. HandlerInv'
  BY <1>1, <1>2 DEF OwnInv, HandlerInv, HandlerOf, Running
<1>4. RunInv'
  <2>1. \A o \in OpIds : (\E g \in Handler : handler[g].op = o) => \E g \in Handler : handler'[g].op = o
    BY <1>1 DEF OpIds
  <2> QED BY <1>2, <2>1 DEF OwnInv, RunInv, RunOf, Running
<1>5. CutInv' /\ HolderInv'
  BY <1>2 DEF OwnInv, CutInv, CutOf, HolderInv, Running
<1>6. ServerInv'
  BY <1>2 DEF ServerInv
<1> QED BY <1>3, <1>4, <1>5, <1>6 DEF OwnInv

\* A duplicate, or a refusal.
LEMMA OwnRefused ==
  ASSUME OpsShape, OwnInv, NEW h \in Handler, Begin(h), BeginRefused(h)
  PROVE  OwnInv'
<1>1. /\ ops' = ops /\ mgr'.active \subseteq mgr.active /\ mgr'.holder = mgr.holder
      /\ \A o \in mgr.active : Running(o) => o \in mgr'.active
  BY PurgeKeeps DEF BeginRefused, ActiveNow, Running, Terminal
<1>2. handler'[h] = Resting /\ \A g \in Handler \ {h} : handler'[g] = handler[g]
  BY ReturnFacts DEF BeginRefused, Returned
<1>3. UNCHANGED <<server, records, restarts, bound>> /\ handler[h].at = "begin"
  BY DEF Begin
<1>4. Resting.at = "idle" /\ Resting.op = 0 /\ ~Resting.slot /\ handler[h].op = 0
  BY <1>3 DEF Resting, OwnInv, HandlerInv, HandlerOf
<1>5. HandlerInv'
  BY <1>1, <1>2, <1>3, <1>4 DEF OwnInv, HandlerInv, HandlerOf, Running
<1>6. RunInv'
  <2>1. \A o \in OpIds : (\E g \in Handler : handler[g].op = o) => \E g \in Handler : handler'[g].op = o
    BY <1>2, <1>4 DEF OpIds
  <2> QED BY <1>1, <1>3, <2>1 DEF OwnInv, RunInv, RunOf, Running
<1>7. CutInv' /\ HolderInv'
  BY <1>1, <1>3 DEF OwnInv, CutInv, CutOf, HolderInv, Running
<1>8. ServerInv'
  BY <1>3, BusyHandler, ServerKept DEF OwnInv
<1> QED BY <1>5, <1>6, <1>7, <1>8 DEF OwnInv

\* An admission: the operation is its handler's, and has the lock if it needs it.
LEMMA OwnAdmits ==
  ASSUME OpsShape, OwnInv, NEW h \in Handler, NEW o \in OpIds, Begin(h), BeginAdmits(h, o)
  PROVE  OwnInv'
<1>1. /\ mgr'.active \subseteq mgr.active \cup {o} /\ o \in mgr'.active
      /\ \A p \in mgr.active : Running(p) => p \in mgr'.active
  BY PurgeKeeps DEF BeginAdmits, ActiveNow, Running, Terminal
<1>2. /\ ops[o].kind = "none" /\ ops[o].state = "none" /\ ops[o].task = "none"
      /\ ops[o].cut = "no" /\ ops[o].slot = FALSE
  BY DEF BeginAdmits, NoOperation
<1>3. UNCHANGED <<server, records, restarts, bound>> /\ handler[h].at = "begin"
  BY DEF Begin
<1>4. handler[h].op = 0 /\ handler[h].kind \in Kind /\ \A g \in Handler : handler[g].op # o
  <2>1. \A g \in Handler : handler[g].at \in {"idle", "begin", "build", "spawn"}
    BY DEF OpsShape, HandlerState
  <2>2. \A g \in Handler : handler[g].op # 0 => Running(handler[g].op)
    BY <2>1 DEF OwnInv, HandlerInv, HandlerOf
  <2>3. o # 0 /\ ~Running(o)
    BY <1>2 DEF Running, OpIds
  <2>4. handler[h].op = 0 /\ handler[h].kind \in Kind
    BY <1>3 DEF OwnInv, HandlerInv, HandlerOf
  <2> QED BY <2>2, <2>3, <2>4
<1>5. o \notin records /\ mgr.holder # o
  <2>1. o # 0
    BY DEF OpIds
  <2> QED BY <1>2, <2>1 DEF OwnInv, CutInv, CutOf, HolderInv
<1>6. HandlerInv'
  <2>1. \A p \in OpIds : Running(p) => Running(p)' /\ ops'[p] = ops[p]
    BY <1>2 DEF BeginAdmits, Running
  <2>2. \A g \in Handler \ {h} : handler'[g] = handler[g]
    BY DEF BeginAdmits
  <2>3. /\ handler'[h].at = "build" /\ handler'[h].op = o
        /\ handler'[h].kind = handler[h].kind
        /\ Running(o)' /\ ops'[o].task = "none" /\ ops'[o].kind = handler[h].kind
    BY DEF BeginAdmits, Running
  <2>4. ASSUME NEW g \in Handler PROVE HandlerOf(g)'
    <3>1. CASE g = h
      BY <1>4, <2>3, <3>1 DEF Running, HandlerOf
    <3>2. CASE g # h
      BY <1>3, <2>1, <2>2, <3>2 DEF OwnInv, HandlerInv, HandlerOf, Running
    <3> QED BY <3>1, <3>2
  <2>5. \A f, g \in Handler : (handler'[f].op = handler'[g].op /\ handler'[g].op # 0) => f = g
    BY <1>4, <2>2, <2>3 DEF OwnInv, HandlerInv, HandlerOf
  <2> QED BY <2>4, <2>5 DEF HandlerInv, HandlerOf
<1>7. RunInv'
  <2> SUFFICES ASSUME NEW p \in OpIds PROVE RunOf(p)'
    BY DEF RunInv
  <2>1. CASE p = o
    BY <1>1, <1>3, <1>4, <2>1 DEF BeginAdmits, Kind, RunOf
  <2>2. CASE p # o
    <3>1. ops'[p] = ops[p] /\ (Running(p)' <=> Running(p))
      BY <2>2 DEF BeginAdmits, Running
    <3>2. (\E g \in Handler : handler[g].op = p) => \E g \in Handler : handler'[g].op = p
      BY <1>4 DEF BeginAdmits, OpIds
    <3>3. (ops[p].kind = "state" /\ Running(p)) => mgr'.holder = p
      BY DEF OwnInv, RunInv, RunOf, BeginAdmits, OpIds
    <3> QED BY <1>1, <1>3, <3>1, <3>2, <3>3 DEF OwnInv, RunInv, RunOf
  <2> QED BY <2>1, <2>2
<1>8. CutInv'
  <2> SUFFICES ASSUME NEW p \in OpIds PROVE CutOf(p)'
    BY DEF CutInv
  <2>1. CASE p = o
    BY <1>3, <1>4, <2>1 DEF BeginAdmits, Kind, OpsShape, CutOf
  <2>2. CASE p # o
    <3>1. ops'[p] = ops[p] /\ (p \in mgr'.active => p \in mgr.active)
      BY <1>1, <2>2 DEF BeginAdmits
    <3> QED BY <1>3, <3>1 DEF OwnInv, CutInv, CutOf
  <2> QED BY <2>1, <2>2
<1>9. HolderInv'
  <2>1. CASE handler[h].kind = "state"
    BY <2>1 DEF BeginAdmits, HolderInv, Running
  <2>2. CASE handler[h].kind # "state"
    <3>1. mgr'.holder = mgr.holder
      BY <2>2 DEF BeginAdmits
    <3>2. mgr.holder # 0 => mgr.holder \in OpIds
      BY DEF OpsShape, Manager, OpIds
    <3> QED BY <1>5, <3>1, <3>2 DEF BeginAdmits, OwnInv, HolderInv, Running
  <2> QED BY <2>1, <2>2
<1>10. ServerInv'
  BY <1>3, BusyHandler, ServerKept DEF OwnInv
<1> QED BY <1>6, <1>7, <1>8, <1>9, <1>10 DEF OwnInv

\* Stages, log file and record are made.
LEMMA OwnBuild ==
  ASSUME OpsShape, OwnInv, NEW h \in Handler, Build(h)
  PROVE  OwnInv'
<1>1. /\ handler[h].at = "build" /\ handler'[h].at = "spawn" /\ handler'[h].op = handler[h].op
      /\ handler'[h].kind = handler[h].kind
      /\ \A g \in Handler \ {h} : handler'[g] = handler[g]
  BY BuildFacts
<1>2. /\ UNCHANGED <<mgr, ops, server, restarts, bound>>
      /\ records' = IF handler[h].kind = "state" THEN records \cup {handler[h].op} ELSE records
  BY DEF Build
<1>3. handler[h].op \in OpIds /\ Running(handler[h].op) /\ ops[handler[h].op].kind = handler[h].kind
  BY <1>1 DEF OwnInv, HandlerInv, HandlerOf
<1>4. HandlerInv'
  BY <1>1, <1>2 DEF OwnInv, HandlerInv, HandlerOf, Running
<1>5. RunInv'
  <2>1. \A o \in OpIds : (\E g \in Handler : handler[g].op = o) => \E g \in Handler : handler'[g].op = o
    BY <1>1
  <2> QED BY <1>2, <2>1 DEF OwnInv, RunInv, RunOf, Running
<1>6. CutInv' /\ HolderInv'
  BY <1>2, <1>3 DEF OwnInv, CutInv, CutOf, HolderInv, Running
<1>7. ServerInv'
  BY <1>1, <1>2, BusyHandler, ServerKept DEF OwnInv
<1> QED BY <1>4, <1>5, <1>6, <1>7 DEF OwnInv

\* The end of an operation, whose handler or goroutine it was: no other handler
\* or goroutine loses anything, and the lock is free if it held it.
LEMMA OwnFinish ==
  ASSUME OpsShape, OwnInv, NEW o \in OpIds, NEW s \in {"succeeded", "failed"}, Finish(o, s),
         Running(o), restarts' = restarts,
         records \subseteq records', \A p \in records' : p \in records \/ p = o,
         \A h \in Handler : handler'[h] = IF handler[h].op = o THEN Resting ELSE handler[h]
  PROVE  HandlerInv' /\ RunInv' /\ CutInv' /\ HolderInv'
<1>1. /\ \A p \in OpIds \ {o} : ops'[p] = ops[p]
      /\ ops'[o].kind = ops[o].kind /\ ops'[o].state = s /\ ops'[o].life = ops[o].life
      /\ ops'[o].slot = ops[o].slot /\ ops'[o].cut = ops[o].cut
      /\ ops'[o].task = IF ops[o].task = "run" THEN "ended" ELSE ops[o].task
      /\ mgr'.active = mgr.active
      /\ mgr'.holder = IF mgr.holder = o THEN 0 ELSE mgr.holder
  BY FinishFacts
<1>2. Resting.at = "idle" /\ Resting.op = 0 /\ ~Resting.slot
  BY DEF Resting
<1>3. /\ ops[o].life = restarts /\ ops[o].cut = "no" /\ ops[o].kind # "none"
      /\ ops[o].slot => ops[o].task \in {"run", "ended"}
  BY DEF OwnInv, RunInv, RunOf
<1>4. HandlerInv'
  <2>1. ASSUME NEW g \in Handler PROVE HandlerOf(g)'
    <3>1. CASE handler[g].op = o
      BY <1>2, <3>1 DEF HandlerOf
    <3>2. CASE handler[g].op # o
      BY <1>1, <3>2 DEF OwnInv, HandlerInv, HandlerOf, Running
    <3> QED BY <3>1, <3>2
  <2>2. \A f, g \in Handler : (handler'[f].op = handler'[g].op /\ handler'[g].op # 0) => f = g
    BY <1>2 DEF OwnInv, HandlerInv, HandlerOf
  <2> QED BY <2>1, <2>2 DEF HandlerInv, HandlerOf
<1>5. RunInv'
  <2> SUFFICES ASSUME NEW p \in OpIds PROVE RunOf(p)'
    BY DEF RunInv
  <2>1. CASE p = o
    BY <1>1, <1>3, <2>1 DEF Running, RunOf
  <2>2. CASE p # o
    <3>1. ops'[p] = ops[p] /\ (Running(p)' <=> Running(p))
      BY <1>1, <2>2 DEF Running
    <3>2. (\E g \in Handler : handler[g].op = p) => \E g \in Handler : handler'[g].op = p
      BY <2>2
    <3>3. mgr.holder = p => mgr'.holder = p
      BY <1>1, <2>2
    <3> QED BY <1>1, <3>1, <3>2, <3>3 DEF OwnInv, RunInv, RunOf
  <2> QED BY <2>1, <2>2
<1>6. CutInv'
  <2> SUFFICES ASSUME NEW p \in OpIds PROVE CutOf(p)'
    BY DEF CutInv
  <2>1. CASE p = o
    BY <1>1, <1>3, <2>1 DEF OpsShape, CutOf
  <2>2. CASE p # o
    <3>1. ops'[p] = ops[p] /\ (p \in records' <=> p \in records)
      BY <1>1, <2>2
    <3> QED BY <1>1, <3>1 DEF OwnInv, CutInv, CutOf
  <2> QED BY <2>1, <2>2
<1>7. HolderInv'
  <2>1. mgr.holder # 0 => mgr.holder \in OpIds
    BY DEF OpsShape, Manager, OpIds
  <2> QED BY <1>1, <2>1 DEF OwnInv, HolderInv, Running
<1> QED BY <1>4, <1>5, <1>6, <1>7

\* The admission fails after the operation was entered.
LEMMA OwnBuildFails ==
  ASSUME OpsShape, OwnInv, NEW h \in Handler, BuildFails(h)
  PROVE  OwnInv'
<1> DEFINE o == handler[h].op
<1>1. /\ handler[h].at = "build" /\ o \in OpIds /\ Running(o) /\ o # 0
      /\ Finish(o, "failed") /\ Answered(h)
  BY DEF BuildFails, Returned, OwnInv, HandlerInv, HandlerOf, OpIds
<1>2. /\ UNCHANGED <<server, restarts, bound>>
      /\ records \subseteq records' /\ \A p \in records' : p \in records \/ p = o
  BY DEF BuildFails
<1>3. \A g \in Handler : handler'[g] = IF handler[g].op = o THEN Resting ELSE handler[g]
  BY <1>1, ReturnFacts DEF OwnInv, HandlerInv, HandlerOf
<1>4. HandlerInv' /\ RunInv' /\ CutInv' /\ HolderInv'
  BY <1>1, <1>2, <1>3, OwnFinish
<1>5. ServerInv'
  BY <1>1, <1>2, BusyHandler, ServerKept DEF OwnInv
<1> QED BY <1>4, <1>5 DEF OwnInv

\* The goroutine ends its run.
LEMMA OwnRunEnds ==
  ASSUME OpsShape, OwnInv, NEW o \in OpIds, RunEnds(o)
  PROVE  OwnInv'
<1>1. PICK s \in {"succeeded", "failed"} : Finish(o, s)
  BY DEF RunEnds
<1>2. UNCHANGED <<handler, server, restarts, bound, records>> /\ ops[o].task = "run" /\ Running(o)
  BY DEF RunEnds, OwnInv, RunInv, RunOf
<1>3. \A g \in Handler : handler[g].op # o
  <2>1. \A g \in Handler : handler[g].at \in {"idle", "begin", "build", "spawn"}
    BY DEF OpsShape, HandlerState
  <2>2. \A g \in Handler : handler[g].op # 0 => ops[handler[g].op].task = "none"
    BY <2>1 DEF OwnInv, HandlerInv, HandlerOf
  <2> QED BY <1>2, <2>2 DEF OpIds
<1>4. \A g \in Handler : handler'[g] = IF handler[g].op = o THEN Resting ELSE handler[g]
  BY <1>2, <1>3
<1>5. HandlerInv' /\ RunInv' /\ CutInv' /\ HolderInv'
  BY <1>1, <1>2, <1>4, OwnFinish
<1>6. ServerInv'
  BY <1>2, BusyTask, ServerKept DEF OwnInv
<1> QED BY <1>5, <1>6 DEF OwnInv

\* The handler hands its operation and its slot to the goroutine.
LEMMA OwnSpawn ==
  ASSUME OpsShape, OwnInv, NEW h \in Handler, Spawn(h)
  PROVE  OwnInv'
<1> DEFINE o == handler[h].op
<1>1. /\ handler[h].at = "spawn" /\ o \in OpIds /\ Running(o) /\ o # 0
      /\ ops[o].kind = handler[h].kind
      /\ handler[h].kind = "state" => o \in records
  BY DEF Spawn, OwnInv, HandlerInv, HandlerOf, OpIds
<1>2. handler[h].slot \in BOOLEAN /\ Tasked(o, "run", handler[h].slot)
  BY DEF Spawn, OpsShape, HandlerState, Tasked
<1>3. /\ \A p \in OpIds \ {o} : ops'[p] = ops[p]
      /\ ops'[o].kind = ops[o].kind /\ ops'[o].state = ops[o].state
      /\ ops'[o].life = ops[o].life /\ ops'[o].cut = ops[o].cut /\ ops'[o].task = "run"
  BY <1>1, <1>2, TaskFacts
<1>4. handler'[h] = Resting /\ \A g \in Handler \ {h} : handler'[g] = handler[g]
  BY ReturnFacts DEF Spawn
<1>5. UNCHANGED <<mgr, server, records, restarts, bound>>
  BY DEF Spawn
<1>6. Resting.at = "idle" /\ Resting.op = 0 /\ ~Resting.slot
  BY DEF Resting
<1>7. \A p \in OpIds : Running(p)' <=> Running(p)
  BY <1>1, <1>3 DEF Running
<1>8. HandlerInv'
  <2>1. \A g \in Handler \ {h} : handler[g].op # o
    BY <1>1 DEF OwnInv, HandlerInv, HandlerOf
  <2>2. ASSUME NEW g \in Handler PROVE HandlerOf(g)'
    <3>1. CASE g = h
      BY <1>4, <1>6, <3>1 DEF HandlerOf
    <3>2. CASE g # h
      BY <1>3, <1>4, <1>5, <2>1, <3>2 DEF OwnInv, HandlerInv, HandlerOf, Running
    <3> QED BY <3>1, <3>2
  <2>3. \A f, g \in Handler : (handler'[f].op = handler'[g].op /\ handler'[g].op # 0) => f = g
    BY <1>4, <1>6 DEF OwnInv, HandlerInv, HandlerOf
  <2> QED BY <2>2, <2>3 DEF HandlerInv, HandlerOf
<1>9. RunInv'
  <2> SUFFICES ASSUME NEW p \in OpIds PROVE RunOf(p)'
    BY DEF RunInv
  <2>1. CASE p = o
    BY <1>1, <1>3, <1>5, <1>7, <2>1 DEF OwnInv, RunInv, RunOf
  <2>2. CASE p # o
    <3>1. (\E g \in Handler : handler[g].op = p) => \E g \in Handler : handler'[g].op = p
      BY <1>4, <2>2
    <3> QED BY <1>3, <1>5, <1>7, <2>2, <3>1 DEF OwnInv, RunInv, RunOf
  <2> QED BY <2>1, <2>2
<1>10. CutInv'
  <2>1. ops[o].cut = "no" /\ ops[o].kind # "none" /\ ops[o].life = restarts /\ restarts \in Nat
    BY <1>1 DEF OwnInv, RunInv, RunOf, OpsShape
  <2> SUFFICES ASSUME NEW p \in OpIds PROVE CutOf(p)'
    BY DEF CutInv
  <2>2. CASE p = o
    BY <1>3, <1>5, <2>1, <2>2 DEF CutOf
  <2>3. CASE p # o
    BY <1>3, <1>5, <2>3 DEF OwnInv, CutInv, CutOf
  <2> QED BY <2>2, <2>3
<1>11. HolderInv'
  <2>1. mgr.holder # 0 => mgr.holder \in OpIds
    BY DEF OpsShape, Manager, OpIds
  <2> QED BY <1>1, <1>3, <1>5, <1>7, <2>1 DEF OwnInv, HolderInv
<1>12. ServerInv'
  BY <1>1, <1>5, BusyHandler, ServerKept DEF OwnInv
<1> QED BY <1>8, <1>9, <1>10, <1>11, <1>12 DEF OwnInv

\* The goroutine is gone, with its slot and, if the disk lets it, its record.
LEMMA OwnTaskEnds ==
  ASSUME OpsShape, OwnInv, NEW o \in OpIds, TaskEnds(o)
  PROVE  OwnInv'
<1>1. ops[o].task = "ended" /\ Tasked(o, "gone", FALSE)
  BY DEF TaskEnds, Tasked
<1>2. /\ \A p \in OpIds \ {o} : ops'[p] = ops[p]
      /\ ops'[o].kind = ops[o].kind /\ ops'[o].state = ops[o].state
      /\ ops'[o].life = ops[o].life /\ ops'[o].cut = ops[o].cut
      /\ ops'[o].task = "gone" /\ ops'[o].slot = FALSE
  BY <1>1, TaskFacts
<1>3. /\ UNCHANGED <<mgr, handler, server, restarts, bound>>
      /\ records' \subseteq records /\ \A p \in records \ {o} : p \in records'
  BY DEF TaskEnds
<1>4. \A p \in OpIds : Running(p)' <=> Running(p)
  BY <1>2 DEF Running
<1>5. \A g \in Handler : handler[g].at \in {"build", "spawn"} => handler[g].op # o
  BY <1>1 DEF OwnInv, HandlerInv, HandlerOf
<1>6. ops[o].cut = "no" /\ ops[o] # NoOperation
  BY <1>1 DEF OwnInv, CutInv, CutOf, NoOperation
<1>7. HandlerInv'
  BY <1>2, <1>3, <1>4, <1>5 DEF OwnInv, HandlerInv, HandlerOf
<1>8. RunInv'
  <2> SUFFICES ASSUME NEW p \in OpIds PROVE RunOf(p)'
    BY DEF RunInv
  <2>1. CASE p = o
    BY <1>1, <1>2, <1>3, <1>4, <2>1 DEF OwnInv, RunInv, RunOf
  <2>2. CASE p # o
    BY <1>2, <1>3, <1>4, <2>2 DEF OwnInv, RunInv, RunOf
  <2> QED BY <2>1, <2>2
<1>9. CutInv'
  <2> SUFFICES ASSUME NEW p \in OpIds PROVE CutOf(p)'
    BY DEF CutInv
  <2>1. CASE p = o
    BY <1>2, <1>3, <1>6, <2>1 DEF OwnInv, CutInv, CutOf
  <2>2. CASE p # o
    BY <1>2, <1>3, <2>2 DEF OwnInv, CutInv, CutOf
  <2> QED BY <2>1, <2>2
<1>10. HolderInv'
  <2>1. mgr.holder # 0 => mgr.holder \in OpIds
    BY DEF OpsShape, Manager, OpIds
  <2> QED BY <1>2, <1>3, <1>4, <2>1 DEF OwnInv, HolderInv
<1>11. ServerInv'
  BY <1>1, <1>3, BusyTask, ServerKept DEF OwnInv
<1> QED BY <1>7, <1>8, <1>9, <1>10, <1>11 DEF OwnInv

\* The end of the process.  A drain that saw no goroutine, after a shutdown that
\* left no handler, cuts nothing off.
LEMMA OwnGone ==
  ASSUME OpsShape, OwnInv, NEW d \in BOOLEAN, Gone(d), server.at # "down",
         (d /\ ~server.hurried) => server.at = "draining" /\ Tracked = {}
  PROVE  OwnInv'
<1>1. \A o \in OpIds :
        /\ ops'[o].kind = ops[o].kind /\ ops'[o].life = ops[o].life
        /\ ops'[o].state = "none" /\ ops'[o].task = "none" /\ ops'[o].slot = FALSE
        /\ ops'[o].cut = IF ~Running(o) THEN ops[o].cut
                         ELSE IF ops[o].task = "run" THEN "run" ELSE "admitted"
        /\ ops[o] = NoOperation => ops'[o] = NoOperation
  BY GoneFacts
<1>2. /\ server'.at = "down" /\ server'.drained = d /\ server'.hurried = server.hurried
      /\ mgr' = EmptyManager /\ \A h \in Handler : handler'[h] = Resting
      /\ restarts' = restarts + 1 /\ opSem' = 0 /\ records' = records /\ bound' = bound
  BY GoneFacts
<1>3. Resting.at = "idle" /\ Resting.op = 0 /\ ~Resting.slot /\ restarts \in Nat
  BY DEF Resting, OpsShape
<1>4. mgr'.active = {} /\ mgr'.holder = 0
  BY <1>2, EmptyTypes
<1>5. \A o \in OpIds : ~Running(o)'
  BY <1>1 DEF Running
<1>6. HandlerInv'
  BY <1>2, <1>3 DEF HandlerInv, HandlerOf
<1>7. RunInv'
  BY <1>1, <1>5 DEF RunInv, RunOf
<1>8. CutInv'
  <2> SUFFICES ASSUME NEW o \in OpIds PROVE CutOf(o)'
    BY DEF CutInv
  <2>1. RunOf(o) /\ CutOf(o) /\ ops[o].life \in Nat
    BY DEF OwnInv, RunInv, CutInv, OpsShape, Operation
  <2>2. CASE Running(o)
    BY <1>1, <1>2, <1>3, <1>4, <2>1, <2>2 DEF RunOf, CutOf
  <2>3. CASE ~Running(o)
    BY <1>1, <1>2, <1>3, <1>4, <2>1, <2>3 DEF CutOf
  <2> QED BY <2>2, <2>3
<1>9. HolderInv'
  BY <1>4 DEF HolderInv
<1>10. ServerInv'
  <2>1. \A o \in OpIds : ops'[o].kind # "none" => ops'[o].life < restarts'
    <3> SUFFICES ASSUME NEW o \in OpIds, ops[o].kind # "none" PROVE ops[o].life < restarts + 1
      BY <1>1, <1>2
    <3>1. ops[o].life <= restarts /\ ops[o].life \in Nat
      BY DEF OwnInv, CutInv, CutOf, OpsShape, Operation
    <3> QED BY <1>3, <3>1
  <2>2. ASSUME d, ~server.hurried, NEW o \in OpIds, ops'[o].life = restarts' - 1
        PROVE  ops'[o].cut = "no"
    <3>1. ~Running(o)
      <4>1. \A h \in Handler : handler[h].at = "idle" /\ handler[h].op = 0
        BY <2>2 DEF OwnInv, ServerInv, HandlerInv, HandlerOf
      <4>2. ops[o].task # "run"
        BY <2>2 DEF Tracked
      <4> QED BY <4>1, <4>2 DEF OwnInv, RunInv, RunOf, OpIds
    <3>2. ops[o].life = restarts
      BY <1>1, <1>2, <1>3, <2>2
    <3>3. ops[o].cut = "no"
      BY <1>3, <3>2 DEF OwnInv, CutInv, CutOf
    <3> QED BY <1>1, <3>1, <3>3
  <2> QED BY <1>1, <1>2, <1>5, <2>1, <2>2 DEF ServerInv
<1> QED BY <1>6, <1>7, <1>8, <1>9, <1>10 DEF OwnInv

\* The start.
LEMMA OwnBoot ==
  ASSUME OpsShape, OwnInv, Boot
  PROVE  OwnInv'
<1>1. /\ \A o \in OpIds :
           /\ ops'[o].kind = ops[o].kind /\ ops'[o].life = ops[o].life
           /\ ops'[o].task = ops[o].task /\ ops'[o].slot = ops[o].slot
           /\ ops'[o].cut = ops[o].cut
           /\ ops'[o].state = IF o \in records THEN "failed" ELSE ops[o].state
           /\ o \notin records => ops'[o] = ops[o]
      /\ mgr'.active = records /\ mgr'.holder = 0
  BY BootFacts
<1>2. UNCHANGED <<handler, records, restarts, bound>> /\ server'.at = "serving" /\ server.at = "down"
  BY DEF Boot
<1>3. /\ \A h \in Handler : handler[h].at = "idle" /\ handler[h].op = 0 /\ ~handler[h].slot
      /\ \A o \in OpIds : ops[o].task = "none" /\ ~Running(o)
  BY <1>2 DEF OwnInv, ServerInv, Resting
<1>4. \A o \in OpIds : ~Running(o)'
  BY <1>1, <1>3 DEF Running
<1>5. HandlerInv'
  BY <1>2, <1>3 DEF HandlerInv, HandlerOf
<1>6. RunInv'
  BY <1>1, <1>3, <1>4 DEF OwnInv, RunInv, RunOf
<1>7. CutInv'
  BY <1>1, <1>2 DEF OwnInv, CutInv, CutOf
<1>8. HolderInv' /\ ServerInv'
  BY <1>1, <1>2 DEF HolderInv, ServerInv
<1> QED BY <1>5, <1>6, <1>7, <1>8 DEF OwnInv

\* The stages of the shutdown.
LEMMA OwnShutdown ==
  ASSUME OpsShape, OwnInv, Signal \/ ShutdownReturns \/ ListenerFails
  PROVE  OwnInv'
<1>1. UNCHANGED <<mgr, ops, handler, records, restarts, bound>>
  BY DEF Signal, ShutdownReturns, ListenerFails
<1>2. HandlerInv' /\ RunInv' /\ CutInv' /\ HolderInv'
  BY <1>1 DEF OwnInv, HandlerInv, HandlerOf, RunInv, RunOf, CutInv, CutOf, HolderInv, Running
<1>3. CASE Signal
  <2>1. server'.at = "stopping" /\ restarts < bound.restarts
    BY <1>3 DEF Signal, OpsShape, Server
  <2> QED BY <1>1, <1>2, <2>1 DEF OwnInv, ServerInv
<1>4. CASE ShutdownReturns
  <2>1. /\ server'.at = "draining" /\ server.at = "stopping"
        /\ server'.hurried = \E h \in Handler : handler[h].at # "idle"
    BY <1>4 DEF ShutdownReturns, OpsShape, Server
  <2>2. restarts < bound.restarts
    BY <2>1 DEF OwnInv, ServerInv
  <2> QED BY <1>1, <1>2, <2>1, <2>2 DEF OwnInv, ServerInv
<1>5. CASE ListenerFails
  <2>1. server'.at = "draining" /\ server'.hurried = TRUE /\ restarts < bound.restarts
    BY <1>5 DEF ListenerFails, OpsShape, Server
  <2> QED BY <1>1, <1>2, <2>1 DEF OwnInv, ServerInv
<1> QED BY <1>3, <1>4, <1>5

\* Every action leaves every operation with someone responsible for it.
LEMMA OwnStep ==
  ASSUME OpsShape, OwnInv, NumberInv, [OpsNext]_opsVars
  PROVE  OwnInv'
<1>1. CASE UNCHANGED opsVars \/ Tick
  <2>1. UNCHANGED <<mgr, ops, handler, opSem, server, records, restarts, bound>>
    BY <1>1 DEF opsVars, Tick
  <2> QED BY <2>1 DEF OwnInv, HandlerInv, HandlerOf, RunInv, RunOf, CutInv, CutOf, HolderInv,
                      ServerInv, Running
<1>2. ASSUME NEW h \in Handler, Begin(h) PROVE OwnInv'
  BY <1>2, BeginCases, OwnRefused, OwnAdmits
<1>3. CASE Drain
  <2>1. server.at = "draining" /\ Gone(Tracked = {})
    BY <1>3 DEF Drain
  <2> QED BY <2>1, OwnGone
<1>4. CASE Crash
  <2>1. server.at # "down" /\ Gone(FALSE)
    BY <1>4 DEF Crash
  <2> QED BY <2>1, OwnGone
<1> QED BY <1>1, <1>2, <1>3, <1>4, OwnRequest, OwnBuild, OwnBuildFails, OwnSpawn, OwnRunEnds,
           OwnTaskEnds, OwnShutdown, OwnBoot DEF OpsNext

-----------------------------------------------------------------------------
(* Idempotency keys.                                                       *)

\* What the cache still says after the purge of BeginIdempotent: entries of
\* operations that are still in the table, and every key that is not too old.
LEMMA CacheHonest ==
  ASSUME OpsShape, KeyInv, server.at # "down"
  PROVE  /\ \A k \in Key : CacheNow[k].op # 0 => CacheNow[k].op \in ActiveNow
         /\ \A o \in OpIds : (ops[o].key # NoKey /\ ops[o].life = restarts)
              => \/ CacheNow[ops[o].key] = [op |-> o, when |-> ops[o].begun] /\ o \in ActiveNow
                 \/ clock - ops[o].begun > KeyTTL
<1>1. \A k \in Key : \/ CacheNow[k] = mgr.cache[k]
                     \/ CacheNow[k] = NoEntry /\ mgr.cache[k].when < clock - KeyTTL
  BY CacheLeft DEF CacheNow
<1>2. \A k \in Key : CacheNow[k].op # 0 => CacheNow[k].op \in ActiveNow
  <2> SUFFICES ASSUME NEW k \in Key, CacheNow[k].op # 0 PROVE CacheNow[k].op \in ActiveNow
    OBVIOUS
  <2>1. CacheNow[k] = mgr.cache[k]
    BY <1>1 DEF NoEntry
  <2>2. CacheNow[k].op \in mgr.active
    BY <2>1 DEF KeyInv
  <2>3. CacheNow[k].op \in Referenced(CacheNow)
    BY DEF Referenced
  <2> QED BY <2>2, <2>3, PurgeKeeps DEF ActiveNow
<1>3. ASSUME NEW o \in OpIds, ops[o].key # NoKey, ops[o].life = restarts
      PROVE  \/ CacheNow[ops[o].key] = [op |-> o, when |-> ops[o].begun] /\ o \in ActiveNow
             \/ clock - ops[o].begun > KeyTTL
  <2>1. /\ ops[o].key \in Key /\ ops[o].begun \in Nat /\ clock \in Nat /\ KeyTTL \in Nat
        /\ o # 0
    BY <1>3, MaintOpsAssumption DEF OpsShape, Operation, OpIds
  <2>2. CASE mgr.cache[ops[o].key] = [op |-> o, when |-> ops[o].begun]
    <3>1. CASE CacheNow[ops[o].key] = mgr.cache[ops[o].key]
      BY <1>2, <2>1, <2>2, <3>1
    <3>2. CASE mgr.cache[ops[o].key].when < clock - KeyTTL
      BY <2>1, <2>2, <3>2
    <3> QED BY <1>1, <2>1, <3>1, <3>2
  <2>3. CASE clock - ops[o].begun > KeyTTL
    BY <2>3
  <2> QED BY <1>3, <2>2, <2>3 DEF KeyInv
<1> QED BY <1>2, <1>3

\* An operation that has not begun has no kind and no key.
LEMMA Unbegun == NoOperation.kind = "none" /\ NoOperation.key = NoKey
BY DEF NoOperation

\* A step that begins no operation and leaves the manager's table and cache.
LEMMA KeyKept ==
  ASSUME OpsShape, OpsShape', CutInv, CutInv', KeyInv, restarts' = restarts, clock' >= clock,
         mgr'.cache = mgr.cache, mgr'.active = mgr.active,
         server'.at # "down" => server.at # "down",
         \A o \in OpIds : /\ ops'[o].kind = ops[o].kind /\ ops'[o].key = ops[o].key
                          /\ ops'[o].begun = ops[o].begun /\ ops'[o].life = ops[o].life
  PROVE  KeyInv'
<1>1. NumberInv'
  <2>1. \A o \in OpIds : ops[o] = NoOperation <=> ops'[o] = NoOperation
    BY Unbegun DEF CutInv, CutOf
  <2> QED BY <2>1 DEF KeyInv, NumberInv
<1>2. KeyedOnce'
  BY DEF KeyInv, KeyedOnce
<1>3. \A o \in OpIds : clock - ops[o].begun > KeyTTL => clock' - ops'[o].begun > KeyTTL
  <2>1. \A o \in OpIds : ops[o].begun \in Nat
    BY DEF OpsShape, Operation
  <2>2. clock \in Nat /\ clock' \in Nat /\ KeyTTL \in Nat
    BY MaintOpsAssumption DEF OpsShape
  <2> QED BY <2>1, <2>2
<1> QED BY <1>1, <1>2, <1>3 DEF KeyInv

\* BeginIdempotent admits a key again only when the operation it stood for is
\* older than the TTL.
LEMMA KeyAdmits ==
  ASSUME OpsShape, OwnInv, KeyInv, NEW h \in Handler, NEW o \in OpIds, Begin(h),
         BeginAdmits(h, o)
  PROVE  KeyInv'
<1>1. /\ UNCHANGED <<clock, server, restarts>> /\ handler[h].at # "idle" /\ server.at # "down"
      /\ clock \in Nat /\ KeyTTL \in Nat
  <2>1. UNCHANGED <<clock, server, restarts>> /\ handler[h].at = "begin"
    BY DEF Begin
  <2>2. clock \in Nat /\ KeyTTL \in Nat
    BY MaintOpsAssumption DEF OpsShape
  <2> QED BY <2>1, <2>2, BusyHandler DEF OwnInv
<1> DEFINE key == handler[h].key
<1>2. ASSUME NEW p \in OpIds, p # o, ops[p].key # NoKey, ops[p].life = restarts, ops[p].key = key
      PROVE  clock - ops[p].begun > KeyTTL
  <2>1. key # NoKey => CacheNow[key].op \notin ActiveNow
    BY DEF BeginAdmits
  <2>2. \/ CacheNow[key] = [op |-> p, when |-> ops[p].begun] /\ p \in ActiveNow
        \/ clock - ops[p].begun > KeyTTL
    BY <1>1, <1>2, CacheHonest
  <2>3. ~(CacheNow[key] = [op |-> p, when |-> ops[p].begun] /\ p \in ActiveNow)
    BY <1>2, <2>1
  <2> QED BY <2>2, <2>3
<1>3. /\ \A p \in OpIds \ {o} : ops'[p] = ops[p]
      /\ ops'[o].key = key /\ ops'[o].life = restarts /\ ops'[o].begun = clock
      /\ ops'[o].state = "running"
      /\ \A p \in OpIds : ops[p] = NoOperation <=> p >= o
      /\ mgr'.active = ActiveNow \cup {o}
      /\ key # NoKey => mgr'.cache[key] = [op |-> o, when |-> clock]
      /\ \A k \in Key \ {key} : mgr'.cache[k] = CacheNow[k]
  BY DEF BeginAdmits
<1>4. NumberInv'
  <2>1. ops'[o] # NoOperation
    BY <1>3 DEF NoOperation
  <2>2. \A p \in OpIds : ops'[p] = NoOperation <=> p > o
    BY <1>3, <2>1 DEF OpIds
  <2>3. o \in 0..MaxOpId
    BY DEF OpIds
  <2> QED BY <2>2, <2>3 DEF NumberInv
<1>5. KeyedOnce'
  <2> SUFFICES ASSUME NEW a \in OpIds, NEW b \in OpIds, a < b, ops'[a].key = ops'[b].key,
                      ops'[b].key # NoKey, ops'[a].life = ops'[b].life
               PROVE  ops'[b].begun - ops'[a].begun > KeyTTL
    BY DEF KeyedOnce
  <2>1. CASE a # o /\ b # o
    BY <1>3, <2>1 DEF KeyInv, KeyedOnce
  <2>2. CASE b = o
    <3>1. a # o
      BY <2>2 DEF OpIds
    <3> QED BY <1>2, <1>3, <2>2, <3>1
  <2>3. CASE a = o
    <3>1. b # o /\ b >= o
      BY <2>3 DEF OpIds
    <3>2. ops'[b] = NoOperation
      BY <1>3, <3>1
    <3> QED BY <3>2 DEF NoOperation
  <2> QED BY <2>1, <2>2, <2>3
<1>6. ASSUME NEW k \in Key, mgr'.cache[k].op # 0 PROVE mgr'.cache[k].op \in mgr'.active
  <2>1. CASE k = key
    <3>1. key # NoKey
      BY <2>1, MaintOpsAssumption DEF Key
    <3> QED BY <1>3, <2>1, <3>1
  <2>2. CASE k # key
    BY <1>1, <1>3, <1>6, <2>2, CacheHonest
  <2> QED BY <2>1, <2>2
<1>7. ASSUME NEW p \in OpIds, ops'[p].key # NoKey, ops'[p].life = restarts
      PROVE  \/ mgr'.cache[ops'[p].key] = [op |-> p, when |-> ops'[p].begun]
             \/ clock - ops'[p].begun > KeyTTL
  <2>1. CASE p = o
    BY <1>3, <1>7, <2>1
  <2>2. CASE p # o /\ ops[p].key = key
    BY <1>2, <1>3, <1>7, <2>2
  <2>3. CASE p # o /\ ops[p].key # key
    <3>1. ops'[p] = ops[p] /\ ops[p].key \in Key
      BY <1>3, <1>7, <2>3 DEF OpsShape, Operation
    <3> QED BY <1>1, <1>3, <1>7, <2>3, <3>1, CacheHonest
  <2> QED BY <2>1, <2>2, <2>3
<1> QED BY <1>1, <1>4, <1>5, <1>6, <1>7 DEF KeyInv

\* Every action keeps what the cache promises.
LEMMA KeyStep ==
  ASSUME OpsShape, OwnInv, KeyInv, [OpsNext]_opsVars
  PROVE  KeyInv'
<1>s. OpsShape' /\ OwnInv' /\ CutInv /\ CutInv'
  BY ShapeStep, OwnStep DEF OwnInv, KeyInv
<1>c. clock \in Nat /\ restarts \in Nat
  BY DEF OpsShape
<1>1. CASE UNCHANGED opsVars \/ Tick \/ Signal \/ ShutdownReturns \/ ListenerFails
  <2>1. UNCHANGED <<mgr, ops, restarts>> /\ clock' >= clock /\ (server'.at # "down" => server.at # "down")
    BY <1>1, <1>c DEF opsVars, Tick, Signal, ShutdownReturns, ListenerFails
  <2> QED BY <1>s, <2>1, KeyKept
<1>2. ASSUME NEW h \in Handler, NEW kind \in Kind, NEW key \in Key \cup {NoKey},
             Request(h, kind, key)
      PROVE  KeyInv'
  <2>1. UNCHANGED <<mgr, ops, server, clock, restarts>>
    BY <1>2 DEF Request
  <2> QED BY <1>s, <1>c, <2>1, KeyKept
<1>b. ASSUME NEW h \in Handler, Build(h) PROVE KeyInv'
  <2>1. UNCHANGED <<mgr, ops, server, clock, restarts>>
    BY <1>b DEF Build
  <2> QED BY <1>s, <1>c, <2>1, KeyKept
<1>3. ASSUME NEW h \in Handler, Begin(h) PROVE KeyInv'
  <2>1. CASE BeginRefused(h)
    <3>1. /\ UNCHANGED <<ops, clock, server, restarts>> /\ server.at # "down"
          /\ mgr'.active = ActiveNow
          /\ \A k \in Key : \/ mgr'.cache[k] = CacheNow[k]
                            \/ mgr'.cache[k] = NoEntry /\ CacheNow[k].op \notin ActiveNow
      <4>1. UNCHANGED <<clock, server, restarts>> /\ handler[h].at = "begin"
        BY <1>3 DEF Begin
      <4>2. server.at # "down"
        BY <4>1, BusyHandler DEF OwnInv
      <4> QED BY <2>1, <4>1, <4>2 DEF BeginRefused
    <3>2. NumberInv' /\ KeyedOnce'
      BY <3>1 DEF KeyInv, NumberInv, KeyedOnce
    <3>3. \A k \in Key : mgr'.cache[k].op # 0 => mgr'.cache[k].op \in mgr'.active
      BY <3>1, CacheHonest DEF NoEntry
    <3>4. ASSUME NEW o \in OpIds, ops[o].key # NoKey, ops[o].life = restarts
          PROVE  \/ mgr'.cache[ops[o].key] = [op |-> o, when |-> ops[o].begun]
                 \/ clock - ops[o].begun > KeyTTL
      <4>1. ops[o].key \in Key
        BY <3>4 DEF OpsShape, Operation
      <4> QED BY <3>1, <3>4, <4>1, CacheHonest
    <3> QED BY <3>1, <3>2, <3>3, <3>4 DEF KeyInv
  <2>2. ASSUME NEW o \in OpIds, BeginAdmits(h, o) PROVE KeyInv'
    BY <1>3, <2>2, KeyAdmits
  <2> QED BY <1>3, <2>1, <2>2, BeginCases DEF KeyInv
<1>4. ASSUME NEW o \in OpIds, NEW s \in {"succeeded", "failed"}, Finish(o, s),
             UNCHANGED <<clock, server, restarts>>
      PROVE  KeyInv'
  <2>1. /\ \A p \in OpIds : /\ ops'[p].kind = ops[p].kind /\ ops'[p].key = ops[p].key
                            /\ ops'[p].begun = ops[p].begun /\ ops'[p].life = ops[p].life
        /\ mgr'.active = mgr.active /\ mgr'.cache = mgr.cache
    BY <1>4, FinishFacts
  <2> QED BY <1>s, <1>c, <1>4, <2>1, KeyKept
<1>5. ASSUME NEW h \in Handler, BuildFails(h) PROVE KeyInv'
  <2>1. handler[h].op \in OpIds
    BY <1>5 DEF BuildFails, OwnInv, HandlerInv, HandlerOf
  <2> QED BY <1>4, <1>5, <2>1 DEF BuildFails
<1>6. ASSUME NEW o \in OpIds, RunEnds(o) PROVE KeyInv'
  BY <1>4, <1>6 DEF RunEnds
<1>7. ASSUME NEW o \in OpIds, NEW t \in {"run", "gone"}, NEW b \in BOOLEAN, Tasked(o, t, b),
             UNCHANGED <<mgr, clock, server, restarts>>
      PROVE  KeyInv'
  <2>1. \A p \in OpIds : /\ ops'[p].kind = ops[p].kind /\ ops'[p].key = ops[p].key
                         /\ ops'[p].begun = ops[p].begun /\ ops'[p].life = ops[p].life
    BY <1>7, TaskFacts
  <2>2. /\ mgr'.active = mgr.active /\ mgr'.cache = mgr.cache /\ restarts' = restarts
        /\ clock' >= clock /\ server' = server
    BY <1>7, <1>c
  <2> QED BY <1>s, <2>1, <2>2, KeyKept
<1>8. ASSUME NEW h \in Handler, Spawn(h) PROVE KeyInv'
  <2>1. handler[h].op \in OpIds /\ handler[h].slot \in BOOLEAN
    BY <1>8 DEF Spawn, OwnInv, HandlerInv, HandlerOf, OpsShape, HandlerState
  <2>2. /\ Tasked(handler[h].op, "run", handler[h].slot)
        /\ UNCHANGED <<mgr, clock, server, restarts>>
    BY <1>8 DEF Spawn, Tasked
  <2> QED BY <1>7, <2>1, <2>2
<1>9. ASSUME NEW o \in OpIds, TaskEnds(o) PROVE KeyInv'
  <2>1. Tasked(o, "gone", FALSE) /\ UNCHANGED <<mgr, clock, server, restarts>>
    BY <1>9 DEF TaskEnds, Tasked
  <2> QED BY <1>7, <2>1
<1>10. ASSUME NEW d \in BOOLEAN, Gone(d) PROVE KeyInv'
  <2>1. \A p \in OpIds : /\ ops'[p].kind = ops[p].kind /\ ops'[p].key = ops[p].key
                         /\ ops'[p].begun = ops[p].begun /\ ops'[p].life = ops[p].life
    BY <1>10, GoneFacts
  <2>2. mgr' = EmptyManager /\ server'.at = "down"
    BY <1>10, GoneFacts
  <2>3. \A p \in OpIds : ops[p] = NoOperation <=> ops'[p] = NoOperation
    BY <1>s, <2>1, Unbegun DEF CutInv, CutOf
  <2>4. NumberInv'
    BY <2>3 DEF KeyInv, NumberInv
  <2>5. KeyedOnce'
    BY <2>1 DEF KeyInv, KeyedOnce
  <2> QED BY <2>2, <2>4, <2>5, EmptyTypes DEF KeyInv
<1>11. CASE Boot
  <2>1. \A p \in OpIds : /\ ops'[p].kind = ops[p].kind /\ ops'[p].key = ops[p].key
                         /\ ops'[p].begun = ops[p].begun /\ ops'[p].life = ops[p].life
    BY <1>11, BootFacts
  <2>2. mgr'.cache = EmptyManager.cache /\ restarts' = restarts /\ server.at = "down"
    BY <1>11, BootFacts DEF Boot
  <2>3. \A p \in OpIds : ops[p] = NoOperation <=> ops'[p] = NoOperation
    BY <1>s, <2>1, Unbegun DEF CutInv, CutOf
  <2>4. NumberInv'
    BY <2>3 DEF KeyInv, NumberInv
  <2>5. KeyedOnce'
    BY <2>1 DEF KeyInv, KeyedOnce
  <2>6. \A p \in OpIds : ops'[p].key # NoKey => ops'[p].life # restarts'
    <3> SUFFICES ASSUME NEW p \in OpIds, ops[p].key # NoKey PROVE ops[p].life # restarts
      BY <2>1, <2>2
    <3>1. ops[p].kind # "none" /\ ops[p].life \in Nat
      BY DEF OwnInv, CutInv, CutOf, NoOperation, OpsShape, Operation
    <3>2. ops[p].life < restarts
      BY <2>2, <3>1 DEF OwnInv, ServerInv
    <3> QED BY <1>c, <3>1, <3>2
  <2> QED BY <2>2, <2>4, <2>5, <2>6, EmptyTypes DEF KeyInv
<1>12. CASE Drain \/ Crash
  BY <1>10, <1>12 DEF Drain, Crash
<1> QED BY <1>1, <1>2, <1>b, <1>3, <1>5, <1>6, <1>8, <1>9, <1>11, <1>12 DEF OpsNext

-----------------------------------------------------------------------------
(* Read-only slots.                                                        *)

HandlerSlots == {h \in Handler : handler[h].slot}
TaskSlots == {o \in OpIds : ops[o].slot}

\* Both sets are finite, so that adding or removing one element counts.
LEMMA SlotSets ==
  /\ IsFiniteSet(HandlerSlots) /\ IsFiniteSet(TaskSlots)
  /\ Cardinality(HandlerSlots) \in Nat /\ Cardinality(TaskSlots) \in Nat
<1>1. IsFiniteSet(Handler) /\ IsFiniteSet(OpIds)
  BY MaintOpsAssumption, FS_Interval DEF OpIds
<1>2. IsFiniteSet(HandlerSlots) /\ IsFiniteSet(TaskSlots)
  BY <1>1, FS_Subset DEF HandlerSlots, TaskSlots
<1> QED BY <1>2, FS_CardinalityType

\* A handler that returns gives its slot back.
LEMMA SlotReturned ==
  ASSUME OpsShape, SlotInv, NEW h \in Handler, Returned(h),
         \A o \in OpIds : ops'[o].slot = ops[o].slot
  PROVE  SlotInv'
<1>1. /\ handler'[h] = Resting /\ \A g \in Handler \ {h} : handler'[g] = handler[g]
      /\ opSem' = IF handler[h].slot THEN opSem - 1 ELSE opSem
  BY ReturnFacts DEF Returned
<1>2. HandlerSlots' = HandlerSlots \ {h}
  BY <1>1 DEF HandlerSlots, Resting
<1>3. TaskSlots' = TaskSlots
  BY DEF TaskSlots
<1>4. Cardinality(HandlerSlots') = IF handler[h].slot THEN Cardinality(HandlerSlots) - 1
                                                     ELSE Cardinality(HandlerSlots)
  BY <1>2, SlotSets, FS_RemoveElement DEF HandlerSlots
<1>5. opSem \in Int /\ Slots \in Nat /\ opSem <= Slots
      /\ opSem = Cardinality(HandlerSlots) + Cardinality(TaskSlots)
  BY MaintOpsAssumption DEF OpsShape, SlotInv, SlotsAccounted, HandlerSlots, TaskSlots
<1>6. /\ opSem' = Cardinality(HandlerSlots') + Cardinality(TaskSlots') /\ opSem' <= Slots
  BY <1>1, <1>3, <1>4, <1>5, SlotSets
<1> QED BY <1>6 DEF SlotInv, SlotsAccounted, HandlerSlots, TaskSlots

\* A step that moves no slot.
LEMMA SlotKept ==
  ASSUME SlotInv, opSem' = opSem, \A h \in Handler : handler'[h].slot = handler[h].slot,
         \A o \in OpIds : ops'[o].slot = ops[o].slot
  PROVE  SlotInv'
BY DEF SlotInv, SlotsAccounted

\* A goroutine that starts takes its handler's slot over.
LEMMA SlotSpawn ==
  ASSUME OpsShape, OwnInv, SlotInv, NEW h \in Handler, Spawn(h)
  PROVE  SlotInv'
<1> DEFINE o == handler[h].op
<1>1. /\ o \in OpIds /\ handler[h].slot \in BOOLEAN /\ ops[o].slot = FALSE /\ opSem' = opSem
      /\ Tasked(o, "run", handler[h].slot)
  <2>1. handler[h].at = "spawn"
    BY DEF Spawn
  <2>2. o \in OpIds /\ ops[o].task = "none"
    BY <2>1 DEF OwnInv, HandlerInv, HandlerOf
  <2>3. ops[o].slot \in BOOLEAN /\ handler[h].slot \in BOOLEAN
    BY <2>2 DEF OpsShape, Operation, HandlerState
  <2>4. ~ops[o].slot
    BY <2>2 DEF OwnInv, RunInv, RunOf
  <2> QED BY <2>2, <2>3, <2>4 DEF Spawn, Tasked
<1>2. handler'[h] = Resting /\ \A g \in Handler \ {h} : handler'[g] = handler[g]
  BY ReturnFacts DEF Spawn
<1>3. ops'[o].slot = handler[h].slot /\ \A p \in OpIds \ {o} : ops'[p] = ops[p]
  BY <1>1, TaskFacts
<1>4. opSem = Cardinality(HandlerSlots) + Cardinality(TaskSlots) /\ opSem <= Slots
  BY DEF SlotInv, SlotsAccounted, HandlerSlots, TaskSlots
<1>5. HandlerSlots' = HandlerSlots \ {h}
  BY <1>2 DEF HandlerSlots, Resting
<1>6. CASE handler[h].slot = TRUE
  <2>1. TaskSlots' = TaskSlots \cup {o} /\ o \notin TaskSlots /\ h \in HandlerSlots
    BY <1>1, <1>3, <1>6 DEF TaskSlots, HandlerSlots
  <2>2. /\ Cardinality(TaskSlots') = Cardinality(TaskSlots) + 1
        /\ Cardinality(HandlerSlots') = Cardinality(HandlerSlots) - 1
    BY <1>5, <2>1, SlotSets, FS_AddElement, FS_RemoveElement
  <2>3. opSem' = Cardinality(HandlerSlots') + Cardinality(TaskSlots') /\ opSem' <= Slots
    BY <1>1, <1>4, <2>2, SlotSets
  <2> QED BY <2>3 DEF SlotInv, SlotsAccounted, HandlerSlots, TaskSlots
<1>7. CASE handler[h].slot = FALSE
  <2>1. TaskSlots' = TaskSlots /\ HandlerSlots' = HandlerSlots
    BY <1>1, <1>3, <1>5, <1>7 DEF TaskSlots, HandlerSlots
  <2> QED BY <1>1, <1>4, <2>1 DEF SlotInv, SlotsAccounted, HandlerSlots, TaskSlots
<1> QED BY <1>1, <1>6, <1>7

\* Every action keeps the slots accounted for.
LEMMA SlotStep ==
  ASSUME OpsShape, OwnInv, NumberInv, SlotInv, [OpsNext]_opsVars
  PROVE  SlotInv'
<1>b. /\ \A h \in Handler : handler[h].slot \in BOOLEAN
      /\ \A o \in OpIds : ops[o].slot \in BOOLEAN
      /\ opSem \in Int /\ Slots \in Nat /\ opSem <= Slots
      /\ opSem = Cardinality(HandlerSlots) + Cardinality(TaskSlots)
  BY MaintOpsAssumption DEF OpsShape, HandlerState, Operation, SlotInv, SlotsAccounted,
     HandlerSlots, TaskSlots
<1>1. CASE UNCHANGED opsVars \/ Tick \/ Signal \/ ShutdownReturns \/ ListenerFails
  <2>1. UNCHANGED <<ops, handler, opSem>>
    BY <1>1 DEF opsVars, Tick, Signal, ShutdownReturns, ListenerFails
  <2> QED BY <2>1, SlotKept
<1>2. ASSUME NEW h \in Handler, NEW kind \in Kind, NEW key \in Key \cup {NoKey},
             Request(h, kind, key)
      PROVE  SlotInv'
  <2>1. /\ ~handler[h].slot /\ \A g \in Handler \ {h} : handler'[g] = handler[g]
        /\ \/ handler'[h].slot = TRUE /\ opSem < Slots /\ opSem' = opSem + 1
           \/ handler'[h].slot = FALSE /\ opSem' = opSem
    BY <1>2, RequestFacts DEF OwnInv, HandlerInv, HandlerOf
  <2>2. TaskSlots' = TaskSlots
    BY <1>2 DEF Request, TaskSlots
  <2>3. CASE handler'[h].slot = TRUE /\ opSem < Slots /\ opSem' = opSem + 1
    <3>1. HandlerSlots' = HandlerSlots \cup {h} /\ h \notin HandlerSlots
      BY <2>1, <2>3 DEF HandlerSlots
    <3>2. Cardinality(HandlerSlots') = Cardinality(HandlerSlots) + 1
      BY <3>1, SlotSets, FS_AddElement
    <3>3. opSem' = Cardinality(HandlerSlots') + Cardinality(TaskSlots') /\ opSem' <= Slots
      BY <1>b, <2>2, <2>3, <3>2, SlotSets
    <3> QED BY <3>3 DEF SlotInv, SlotsAccounted, HandlerSlots, TaskSlots
  <2>4. CASE handler'[h].slot = FALSE /\ opSem' = opSem
    <3>1. HandlerSlots' = HandlerSlots
      BY <2>1, <2>4 DEF HandlerSlots
    <3> QED BY <1>b, <2>2, <2>4, <3>1 DEF SlotInv, SlotsAccounted, HandlerSlots, TaskSlots
  <2> QED BY <2>1, <2>3, <2>4
<1>3. ASSUME NEW h \in Handler, Begin(h) PROVE SlotInv'
  <2>1. CASE BeginRefused(h)
    BY <2>1, SlotReturned DEF BeginRefused
  <2>2. ASSUME NEW o \in OpIds, BeginAdmits(h, o) PROVE SlotInv'
    <3>1. ops[o].slot = FALSE
      BY <2>2 DEF BeginAdmits, NoOperation
    <3>2. /\ opSem' = opSem /\ \A g \in Handler : handler'[g].slot = handler[g].slot
          /\ \A p \in OpIds : ops'[p].slot = ops[p].slot
      BY <2>2, <3>1 DEF BeginAdmits
    <3> QED BY <3>2, SlotKept
  <2> QED BY <1>3, <2>1, <2>2, BeginCases
<1>4. ASSUME NEW h \in Handler, Build(h) PROVE SlotInv'
  <2>1. \A g \in Handler : handler'[g].slot = handler[g].slot
    BY <1>4, BuildFacts
  <2>2. ops' = ops /\ opSem' = opSem
    BY <1>4 DEF Build
  <2> QED BY <2>1, <2>2, SlotKept
<1>5. ASSUME NEW h \in Handler, BuildFails(h) PROVE SlotInv'
  <2>1. handler[h].op \in OpIds /\ Finish(handler[h].op, "failed") /\ Returned(h)
    BY <1>5 DEF BuildFails, OwnInv, HandlerInv, HandlerOf
  <2>2. \A o \in OpIds : ops'[o].slot = ops[o].slot
    BY <2>1, FinishFacts
  <2> QED BY <2>1, <2>2, SlotReturned
<1>6. ASSUME NEW o \in OpIds, RunEnds(o) PROVE SlotInv'
  <2>1. \A p \in OpIds : ops'[p].slot = ops[p].slot
    BY <1>6, FinishFacts DEF RunEnds
  <2>2. handler' = handler /\ opSem' = opSem
    BY <1>6 DEF RunEnds
  <2> QED BY <2>1, <2>2, SlotKept
<1>7. ASSUME NEW o \in OpIds, TaskEnds(o) PROVE SlotInv'
  <2>1. /\ Tasked(o, "gone", FALSE) /\ handler' = handler
        /\ opSem' = IF ops[o].slot THEN opSem - 1 ELSE opSem
    BY <1>7 DEF TaskEnds, Tasked
  <2>2. ops'[o].slot = FALSE /\ \A p \in OpIds \ {o} : ops'[p] = ops[p]
    BY <2>1, TaskFacts
  <2>3. TaskSlots' = TaskSlots \ {o} /\ HandlerSlots' = HandlerSlots
    BY <2>1, <2>2 DEF TaskSlots, HandlerSlots
  <2>4. Cardinality(TaskSlots') = IF ops[o].slot THEN Cardinality(TaskSlots) - 1
                                                ELSE Cardinality(TaskSlots)
    BY <2>3, SlotSets, FS_RemoveElement DEF TaskSlots
  <2>5. opSem' = Cardinality(HandlerSlots') + Cardinality(TaskSlots') /\ opSem' <= Slots
    BY <1>b, <2>1, <2>3, <2>4, SlotSets
  <2> QED BY <2>5 DEF SlotInv, SlotsAccounted, HandlerSlots, TaskSlots
<1>8. ASSUME NEW d \in BOOLEAN, Gone(d) PROVE SlotInv'
  <2>1. opSem' = 0 /\ (\A h \in Handler : handler'[h] = Resting) /\ \A o \in OpIds : ops'[o].slot = FALSE
    BY <1>8, GoneFacts
  <2>2. HandlerSlots' = {} /\ TaskSlots' = {}
    BY <2>1 DEF HandlerSlots, TaskSlots, Resting
  <2>3. opSem' = Cardinality(HandlerSlots') + Cardinality(TaskSlots') /\ opSem' <= Slots
    BY <1>b, <2>1, <2>2, FS_EmptySet
  <2> QED BY <2>3 DEF SlotInv, SlotsAccounted, HandlerSlots, TaskSlots
<1>9. CASE Boot
  <2>1. \A o \in OpIds : ops'[o].slot = ops[o].slot
    BY <1>9, BootFacts
  <2>2. handler' = handler /\ opSem' = opSem
    BY <1>9 DEF Boot
  <2> QED BY <2>1, <2>2, SlotKept
<1>10. CASE Drain \/ Crash
  BY <1>8, <1>10 DEF Drain, Crash
<1> QED BY <1>1, <1>2, <1>3, <1>4, <1>5, <1>6, <1>7, <1>9, <1>10, SlotSpawn DEF OpsNext

-----------------------------------------------------------------------------
(* The theorems.                                                           *)

\* The counters stay within the scenario.
BoundInv == clock <= bound.clock /\ restarts <= bound.restarts

OpsInv == OpsShape /\ OwnInv /\ KeyInv /\ SlotInv /\ BoundInv

\* The agent starts in the invariant.
LEMMA OpsInvInit == OpsInit => OpsInv
<1> SUFFICES ASSUME OpsInit PROVE OpsInv
  OBVIOUS
<1>0. MaxOpId \in Nat /\ Slots \in Nat /\ KeyTTL \in Nat
  BY MaintOpsAssumption
<1>1. /\ clock = 0 /\ mgr = EmptyManager /\ ops = [o \in OpIds |-> NoOperation]
      /\ handler = [h \in Handler |-> Resting] /\ opSem = 0
      /\ server.at = "serving" /\ server \in Server
      /\ records = {} /\ restarts = 0 /\ bound \in Bounds
  BY MaintOpsAssumption DEF OpsInit, Server, Bounds
<1>2. OpsShape
  BY <1>1, EmptyTypes DEF OpsShape
<1>3. /\ mgr.active = {} /\ mgr.holder = 0 /\ \A k \in Key : mgr.cache[k].op = 0
      /\ \A o \in OpIds : ops[o] = NoOperation
      /\ \A h \in Handler : handler[h] = Resting
  BY <1>1, EmptyTypes
<1>4. /\ NoOperation.kind = "none" /\ NoOperation.key = NoKey /\ NoOperation.state = "none"
      /\ NoOperation.task = "none" /\ NoOperation.slot = FALSE /\ NoOperation.cut = "no"
      /\ Resting.at = "idle" /\ Resting.op = 0 /\ Resting.slot = FALSE
  BY DEF NoOperation, Resting
<1>5. HandlerInv
  BY <1>3, <1>4 DEF HandlerInv, HandlerOf
<1>6. RunInv /\ CutInv /\ HolderInv
  BY <1>1, <1>3, <1>4 DEF RunInv, RunOf, CutInv, CutOf, HolderInv, Running
<1>7. ServerInv
  BY <1>1 DEF ServerInv
<1>8. KeyInv
  <2>1. NumberInv
    BY <1>0, <1>3 DEF NumberInv, OpIds
  <2> QED BY <1>3, <1>4, <2>1 DEF KeyInv, KeyedOnce
<1>9. SlotInv
  <2>1. {h \in Handler : handler[h].slot} = {} /\ {o \in OpIds : ops[o].slot} = {}
    BY <1>3, <1>4
  <2>2. Cardinality({h \in Handler : handler[h].slot}) = 0
        /\ Cardinality({o \in OpIds : ops[o].slot}) = 0
    BY <2>1, FS_EmptySet
  <2> QED BY <1>0, <1>1, <2>2 DEF SlotInv, SlotsAccounted
<1>10. BoundInv
  BY <1>1 DEF BoundInv, Bounds
<1> QED BY <1>2, <1>5, <1>6, <1>7, <1>8, <1>9, <1>10 DEF OpsInv, OwnInv

\* Every step of the agent keeps it.
LEMMA OpsInvStep == OpsInv /\ [OpsNext]_opsVars => OpsInv'
<1> SUFFICES ASSUME OpsInv, [OpsNext]_opsVars PROVE OpsInv'
  OBVIOUS
<1>1. OpsShape /\ OwnInv /\ KeyInv /\ SlotInv /\ BoundInv /\ NumberInv /\ HandlerInv
  BY DEF OpsInv, OwnInv, KeyInv
<1>2. OpsShape' /\ OwnInv' /\ KeyInv' /\ SlotInv'
  BY <1>1, ShapeStep, OwnStep, KeyStep, SlotStep
<1>3. BoundInv'
  <2>1. clock \in Nat /\ restarts \in Nat /\ bound.clock \in Nat /\ bound.restarts \in Nat
    BY <1>1 DEF OpsShape, Bounds
  <2>2. bound' = bound /\ (clock' = clock \/ Tick)
    <3>1. ASSUME NEW d \in BOOLEAN, Gone(d) PROVE bound' = bound /\ clock' = clock
      BY <1>1, <3>1, GoneFacts
    <3>2. CASE Drain \/ Crash
      BY <3>1, <3>2 DEF Drain, Crash
    <3>3. ASSUME NEW h \in Handler, Begin(h) \/ Build(h) \/ BuildFails(h) \/ Spawn(h)
          PROVE  bound' = bound /\ clock' = clock
      BY <3>3 DEF Begin, Build, BuildFails, Spawn
    <3>4. ASSUME NEW h \in Handler, NEW kind, NEW key, Request(h, kind, key)
          PROVE  bound' = bound /\ clock' = clock
      BY <3>4 DEF Request
    <3>5. ASSUME NEW o \in OpIds, RunEnds(o) \/ TaskEnds(o) PROVE bound' = bound /\ clock' = clock
      BY <3>5 DEF RunEnds, TaskEnds
    <3>6. CASE Signal \/ ShutdownReturns \/ ListenerFails \/ Boot \/ UNCHANGED opsVars
      BY <3>6 DEF Signal, ShutdownReturns, ListenerFails, Boot, opsVars
    <3>7. CASE Tick
      BY <3>7 DEF Tick
    <3>8. CASE OpsNext
      <4>1. CASE \E h \in Handler, kind \in Kind, key \in Key \cup {NoKey} : Request(h, kind, key)
        <5>1. PICK h \in Handler, kind \in Kind, key \in Key \cup {NoKey} : Request(h, kind, key)
          BY <4>1
        <5> QED BY <3>4, <5>1
      <4>2. CASE \E h \in Handler : Begin(h) \/ Build(h) \/ BuildFails(h) \/ Spawn(h)
        <5>1. PICK h \in Handler : Begin(h) \/ Build(h) \/ BuildFails(h) \/ Spawn(h)
          BY <4>2
        <5> QED BY <3>3, <5>1
      <4>3. CASE \E o \in OpIds : RunEnds(o) \/ TaskEnds(o)
        <5>1. PICK o \in OpIds : RunEnds(o) \/ TaskEnds(o)
          BY <4>3, ZenonT(60)
        <5> QED BY <3>5, <5>1
      <4> QED BY <3>2, <3>6, <3>7, <3>8, <4>1, <4>2, <4>3 DEF OpsNext
    <3> QED BY <3>6, <3>8
  <2>3. restarts' = restarts \/ (restarts' = restarts + 1 /\ restarts < bound.restarts)
    <3>1. CASE Drain
      BY <1>1, <3>1 DEF Drain, Gone, OwnInv, ServerInv
    <3>2. CASE Crash
      BY <3>2 DEF Crash, Gone
    <3> QED BY <3>1, <3>2 DEF OpsNext, opsVars, Tick, Request, Begin, Build, BuildFails, Spawn,
                              RunEnds, TaskEnds, Signal, ShutdownReturns, ListenerFails, Boot
  <2>4. clock' = clock \/ (clock' = clock + 1 /\ clock < bound.clock)
    BY <2>2 DEF Tick
  <2> QED BY <1>1, <2>1, <2>2, <2>3, <2>4 DEF BoundInv
<1> QED BY <1>2, <1>3 DEF OpsInv

\* Every reachable state is in it.
LEMMA OpsInvariant == OpsSpec => []OpsInv
BY OpsInvInit, OpsInvStep, PTL DEF OpsSpec

\* Every reachable state of the operation manager and server is well typed; in
\* particular never more slots are taken than there are, and none is given back
\* twice.
THEOREM OpsTypeCorrect == OpsSpec => []OpsTypeOK
<1>1. OpsInv => OpsTypeOK
  <2> SUFFICES ASSUME OpsInv PROVE OpsTypeOK
    OBVIOUS
  <2>1. OpsShape /\ SlotInv /\ BoundInv
    BY DEF OpsInv
  <2>2. clock \in 0..bound.clock /\ restarts \in 0..bound.restarts
    BY <2>1 DEF OpsShape, Bounds, BoundInv
  <2>3. opSem \in 0..Slots
    <3>1. opSem = Cardinality(HandlerSlots) + Cardinality(TaskSlots) /\ opSem <= Slots
      BY <2>1 DEF SlotInv, SlotsAccounted, HandlerSlots, TaskSlots
    <3> QED BY <3>1, SlotSets, MaintOpsAssumption
  <2> QED BY <2>1, <2>2, <2>3 DEF OpsShape, OpsTypeOK
<1> QED BY <1>1, OpsInvariant, PTL

\* The maintenance lock is never shared and never stranded: a state-changing
\* operation that has not ended holds it, and its holder has a handler or a
\* goroutine that will end it, across refusals, failing admissions, crashes and
\* restarts.
THEOREM LockNeverStranded == OpsSpec => []LockAttended
<1>1. OpsInv => LockAttended
  <2> SUFFICES ASSUME OpsInv PROVE LockAttended
    OBVIOUS
  <2>1. OpsShape /\ RunInv /\ HolderInv
    BY DEF OpsInv, OwnInv
  <2>2. mgr.holder # 0 => mgr.holder \in OpIds
    BY <2>1 DEF OpsShape, Manager, OpIds
  <2> QED BY <2>1, <2>2 DEF RunInv, RunOf, HolderInv, Running, LockAttended
<1> QED BY <1>1, OpsInvariant, PTL

\* A keyed request is carried out once per TTL and life of the process
\* (BeginIdempotent), however small the table and however short the retention.
THEOREM KeyedRequestOnce == OpsSpec => []KeyedOnce
<1>1. OpsInv => KeyedOnce
  BY DEF OpsInv, KeyInv
<1> QED BY <1>1, OpsInvariant, PTL

\* Every slot of opSem that is taken is with a handler or a goroutine that will
\* give it back.
THEOREM SlotsNeverLeak == OpsSpec => []SlotsAccounted
<1>1. OpsInv => SlotsAccounted
  BY DEF OpsInv, SlotInv
<1> QED BY <1>1, OpsInvariant, PTL

\* A shutdown that waited for its handlers and drained cuts no operation off,
\* and after any other end a state-changing operation that was running has its
\* record, and is listed as failed once it is listed (drainOps,
\* MarkAllInterrupted).
THEOREM CutsAreRecorded == OpsSpec => []NoSilentCut
<1>1. OpsInv => NoSilentCut
  BY DEF OpsInv, OwnInv, CutInv, CutOf, ServerInv, NoSilentCut
<1> QED BY <1>1, OpsInvariant, PTL

-----------------------------------------------------------------------------
(* The two models together.                                                *)

\* The agent implements the operation on Docker and the operation manager, so
\* that every theorem about either holds of it.
THEOREM AgentImplementsParts == AgentSpec => MaintSpec /\ OpsSpec
<1>1. AgentInit => MaintInit /\ OpsInit
  BY DEF AgentInit
<1>2. [AgentNext]_agentVars => [MaintNext]_maintVars /\ [OpsNext]_opsVars
  <2>1. AgentNext => [MaintNext]_maintVars /\ [OpsNext]_opsVars
    BY Zenon DEF AgentNext
  <2>2. UNCHANGED agentVars => [MaintNext]_maintVars /\ [OpsNext]_opsVars
    BY Zenon DEF agentVars
  <2> QED BY <2>1, <2>2
<1> QED
  BY <1>1, <1>2, PTL DEF AgentSpec, MaintSpec, OpsSpec

\* Every reachable state of the agent is well typed, on either side.
THEOREM AgentTypeCorrect == AgentSpec => []AgentTypeOK
<1>1. MaintTypeOK /\ OpsTypeOK => AgentTypeOK
  BY DEF AgentTypeOK
<1> QED
  BY <1>1, AgentImplementsParts, MaintTypeCorrect, OpsTypeCorrect, PTL
=============================================================================
