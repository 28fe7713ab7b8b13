------------------------------ MODULE MaintOps ------------------------------
(***************************************************************************)
(* The maintenance agent's operation manager and server: admission of      *)
(* operations with the maintenance lock, idempotency keys and read-only    *)
(* slots, the goroutine that runs each operation, graceful shutdown with   *)
(* its drain, and the restart that marks interrupted operations.           *)
(*                                                                         *)
(* Abstractions.  What an operation does is MaintUpgrade's subject; here   *)
(* it runs and ends.  Caller, kind and key of a request are one identity,  *)
(* its key; keys of state-changing and of read-only kinds are two sets.    *)
(* Each critical section of Manager.mu is one step.  The clock ticks where *)
(* the code reads time.                                                    *)
(***************************************************************************)
EXTENDS Integers, FiniteSets

CONSTANTS
  Handler,       \* goroutines of the HTTP server
  StateKey,      \* idempotency keys of journaled, state-changing requests
  ReadKey,       \* idempotency keys of read-only requests
  NoKey,         \* a request without a key
  KeyTTL,        \* idempCacheTTL
  Retention,     \* activeRetention
  MaxActive,     \* maxActive
  Slots,         \* capacity of opSem
  MaxOpId,       \* bound on operations
  OpsScenarios   \* bounds on the clock, on ends of the process, on operations;
                 \* whether the journal's disk may fail

ASSUME MaintOpsAssumption ==
  /\ IsFiniteSet(Handler)
  /\ StateKey \cap ReadKey = {} /\ NoKey \notin StateKey \cup ReadKey
  /\ {KeyTTL, Retention, MaxActive, Slots, MaxOpId} \subseteq Nat
  /\ Slots > 0 /\ Retention <= KeyTTL
  /\ OpsScenarios \subseteq [clock : Nat, restarts : Nat, ops : 0..MaxOpId, disk : BOOLEAN]

VARIABLES
  clock,     \* m.now
  mgr,       \* Manager: active (the resident operations), holder, cache
  ops,       \* every operation of the run: its kind, key, state, times
  handler,   \* what each request handler is at
  opSem,     \* read-only slots taken
  server,    \* Serve: its stage, and whether Shutdown gave up on a handler
  records,   \* operations with a record in the journal
  restarts,  \* ends of the process so far
  bound      \* the scenario

opsVars == <<clock, mgr, ops, handler, opSem, server, records, restarts, bound>>

Key == StateKey \cup ReadKey
Kind == {"state", "read"}
OpIds == 1..MaxOpId
KeysOf(kind) == {NoKey} \cup (IF kind = "state" THEN StateKey ELSE ReadKey)

\* life: the incarnation of the process it began in.  task: its goroutine not
\* begun, running, terminated or gone.  cut (history): how far it was when its
\* process ended.
NoOperation == [kind |-> "none", key |-> NoKey, state |-> "none", begun |-> 0, ended |-> 0,
                life |-> 0, task |-> "none", slot |-> FALSE, cut |-> "no"]
NoEntry == [op |-> 0, when |-> 0]
Resting == [at |-> "idle", kind |-> "none", key |-> NoKey, slot |-> FALSE, op |-> 0]
EmptyManager == [active |-> {}, holder |-> 0, cache |-> [k \in Key |-> NoEntry]]

Bounds == [clock : Nat, restarts : Nat, ops : 0..MaxOpId, disk : BOOLEAN]
Operation == [kind : Kind \cup {"none"}, key : Key \cup {NoKey},
              state : {"none", "running", "succeeded", "failed"}, begun : Nat, ended : Nat,
              life : Nat, task : {"none", "run", "ended", "gone"}, slot : BOOLEAN,
              cut : {"no", "run", "admitted"}]
Entry == [op : 0..MaxOpId, when : Nat]
Manager == [active : SUBSET OpIds, holder : 0..MaxOpId, cache : [Key -> Entry]]
HandlerState == [at : {"idle", "begin", "build", "spawn"}, kind : Kind \cup {"none"},
                 key : Key \cup {NoKey}, slot : BOOLEAN, op : 0..MaxOpId]
Server == [at : {"serving", "stopping", "draining", "down"}, hurried : BOOLEAN, drained : BOOLEAN]

OpsTypeOK ==
  /\ bound \in Bounds /\ clock \in 0..bound.clock /\ restarts \in 0..bound.restarts
  /\ mgr \in Manager /\ ops \in [OpIds -> Operation] /\ handler \in [Handler -> HandlerState]
  /\ opSem \in 0..Slots /\ server \in Server /\ records \subseteq OpIds

OpsInit ==
  /\ clock = 0 /\ mgr = EmptyManager /\ ops = [o \in OpIds |-> NoOperation]
  /\ handler = [h \in Handler |-> Resting] /\ opSem = 0
  /\ server = [at |-> "serving", hurried |-> FALSE, drained |-> FALSE]
  /\ records = {} /\ restarts = 0 /\ bound \in OpsScenarios

Tick ==
  /\ clock < bound.clock /\ clock' = clock + 1
  /\ UNCHANGED <<mgr, ops, handler, opSem, server, records, restarts, bound>>

-----------------------------------------------------------------------------
(* The manager.                                                            *)

Terminal(o) == ops[o].state \in {"succeeded", "failed"}

\* purgeIdempCacheLocked: entries older than the TTL go.
PurgedCache(cache) ==
  [k \in Key |-> IF cache[k].when < clock - KeyTTL THEN NoEntry ELSE cache[k]]

Referenced(cache) == {cache[k].op : k \in Key} \ {0}

\* Mutant: a finished operation is reaped although its key still refers to it.
PurgedUnreferenced(active, cache) ==
  {o \in active : ~(Terminal(o) /\ ops[o].ended < clock - Retention)}

\* purgeActiveLocked: finished operations past the retention go, then, over
\* the cap, the longest finished ones; never one a live key refers to.
PurgedActive(active, cache) ==
  LET kept == {o \in active : o \in Referenced(cache)
                                \/ ~(Terminal(o) /\ ops[o].ended < clock - Retention)}
      loose == {o \in kept : Terminal(o) /\ o \notin Referenced(cache)}
      older(o) == {p \in loose : ops[p].ended < ops[o].ended
                                   \/ (ops[p].ended = ops[o].ended /\ p < o)}
      excess == Cardinality(kept) - MaxActive
  IN IF MaxActive > 0 /\ excess > 0
     THEN {o \in kept : o \notin loose \/ Cardinality(older(o)) >= excess}
     ELSE kept

NextId == CHOOSE o \in OpIds : ops[o] = NoOperation /\ \A p \in 1..(o - 1) : ops[p] # NoOperation
IdsLeft == \E o \in 1..bound.ops : ops[o] = NoOperation

\* HasLiveIdempotent: would the request be answered by an earlier operation?
HasLive(key) == key # NoKey /\ mgr.cache[key].op # 0 /\ mgr.cache[key].op \in mgr.active

\* Finish: the operation becomes terminal and frees the lock if it held it.
Finish(o, state) ==
  /\ ops' = [ops EXCEPT ![o].state = state, ![o].ended = clock,
                        ![o].task = IF @ = "run" THEN "ended" ELSE @]
  /\ mgr' = [mgr EXCEPT !.holder = IF @ = o THEN 0 ELSE @]

-----------------------------------------------------------------------------
(* A request: startAsyncOp.                                                *)

Answered(h) == handler' = [handler EXCEPT ![h] = Resting]

\* Mutant: an early return keeps the slot.
ReturnedWithSlot(h) == Answered(h) /\ UNCHANGED opSem

\* The handler returns; a slot it still has is given back.
Returned(h) == Answered(h) /\ opSem' = IF handler[h].slot THEN opSem - 1 ELSE opSem

\* A read-only request takes a slot, or is refused for want of one, unless an
\* earlier operation will answer it.
Request(h, kind, key) ==
  /\ server.at = "serving" /\ handler[h].at = "idle" /\ IdsLeft /\ key \in KeysOf(kind)
  /\ LET gated == kind = "read" /\ ~HasLive(key)
     IN /\ gated => opSem < Slots
        /\ opSem' = IF gated THEN opSem + 1 ELSE opSem
        /\ handler' = [handler EXCEPT ![h] = [Resting EXCEPT !.at = "begin", !.kind = kind,
                                                 !.key = key, !.slot = gated]]
  /\ UNCHANGED <<clock, mgr, ops, server, records, restarts, bound>>

\* BeginIdempotent: purge, answer a duplicate, refuse a second state-changing
\* operation, or admit.
Begin(h) ==
  /\ handler[h].at = "begin" /\ IdsLeft
  /\ LET key == handler[h].key
         kind == handler[h].kind
         cache == PurgedCache(mgr.cache)
         active == PurgedActive(mgr.active, cache)
         found == key # NoKey /\ cache[key].op \in active
         busy == kind = "state" /\ mgr.holder # 0
         kept == IF key = NoKey THEN cache ELSE [cache EXCEPT ![key] = IF found THEN @ ELSE NoEntry]
         o == NextId
     IN IF found \/ busy
        THEN /\ mgr' = [mgr EXCEPT !.active = active, !.cache = kept]
             /\ Returned(h) /\ UNCHANGED ops
        ELSE /\ mgr' = [active |-> active \cup {o},
                        holder |-> IF kind = "state" THEN o ELSE mgr.holder,
                        cache |-> IF key = NoKey THEN kept
                                  ELSE [kept EXCEPT ![key] = [op |-> o, when |-> clock]]]
             /\ ops' = [ops EXCEPT ![o] = [NoOperation EXCEPT
                          !.kind = kind, !.key = key, !.state = "running", !.begun = clock,
                          !.life = restarts]]
             /\ handler' = [handler EXCEPT ![h].at = "build", ![h].op = o] /\ UNCHANGED opSem
  /\ UNCHANGED <<clock, server, records, restarts, bound>>

\* Stages, log file and journal record are made.
Build(h) ==
  /\ handler[h].at = "build" /\ handler' = [handler EXCEPT ![h].at = "spawn"]
  /\ records' = IF handler[h].kind = "state" THEN records \cup {handler[h].op} ELSE records
  /\ UNCHANGED <<clock, mgr, ops, opSem, server, restarts, bound>>

\* Mutant: a failing admission leaves the operation as it is.
BuildFailsSilently(h) ==
  /\ handler[h].at = "build" /\ Returned(h)
  /\ UNCHANGED <<clock, mgr, ops, server, records, restarts, bound>>

\* One of them fails: recordAdmissionFailure ends the operation.  A journal
\* write that failed late may have left its record.
BuildFails(h) ==
  /\ handler[h].at = "build" /\ Finish(handler[h].op, "failed") /\ Returned(h)
  /\ \/ UNCHANGED records
     \/ bound.disk /\ handler[h].kind = "state" /\ records' = records \cup {handler[h].op}
  /\ UNCHANGED <<clock, server, restarts, bound>>

\* goOp: the goroutine owns the slot from here.
Spawn(h) ==
  /\ handler[h].at = "spawn" /\ Answered(h)
  /\ ops' = [ops EXCEPT ![handler[h].op].task = "run", ![handler[h].op].slot = handler[h].slot]
  /\ UNCHANGED <<clock, mgr, opSem, server, records, restarts, bound>>

-----------------------------------------------------------------------------
(* The orchestrator goroutine.                                             *)

\* Run ends, by its stages, its deadline or a recovered panic: terminate.
RunEnds(o) ==
  /\ ops[o].task = "run" /\ \E s \in {"succeeded", "failed"} : Finish(o, s)
  /\ UNCHANGED <<clock, handler, opSem, server, records, restarts, bound>>

\* The record is removed if the disk lets it, the slot freed, opWG counted down.
TaskEnds(o) ==
  /\ ops[o].task = "ended" /\ ops' = [ops EXCEPT ![o].task = "gone", ![o].slot = FALSE]
  /\ \/ records' = records \ {o}
     \/ bound.disk /\ UNCHANGED records
  /\ opSem' = IF ops[o].slot THEN opSem - 1 ELSE opSem
  /\ UNCHANGED <<clock, mgr, handler, server, restarts, bound>>

-----------------------------------------------------------------------------
(* Shutdown and restart.                                                   *)

Tracked == {o \in OpIds : ops[o].task \in {"run", "ended"}}   \* opWG

Signal ==
  /\ server.at = "serving" /\ restarts < bound.restarts /\ server' = [server EXCEPT !.at = "stopping"]
  /\ UNCHANGED <<clock, mgr, ops, handler, opSem, records, restarts, bound>>

\* Mutant: Serve drains as soon as Shutdown is called.
ShutdownAtOnce ==
  /\ server.at = "stopping" /\ server' = [server EXCEPT !.at = "draining"]
  /\ UNCHANGED <<clock, mgr, ops, handler, opSem, records, restarts, bound>>

\* Shutdown returns when no handler is active, or gives up after its bound.
ShutdownReturns ==
  /\ server.at = "stopping"
  /\ server' = [server EXCEPT !.at = "draining",
                              !.hurried = \E h \in Handler : handler[h].at # "idle"]
  /\ UNCHANGED <<clock, mgr, ops, handler, opSem, records, restarts, bound>>

\* The listener fails: Serve drains without waiting for its handlers.
ListenerFails ==
  /\ server.at = "serving" /\ restarts < bound.restarts
  /\ server' = [server EXCEPT !.at = "draining", !.hurried = TRUE]
  /\ UNCHANGED <<clock, mgr, ops, handler, opSem, records, restarts, bound>>

\* The process is gone: what was in memory with it.
Gone(drained) ==
  /\ server' = [server EXCEPT !.at = "down", !.drained = drained]
  /\ mgr' = EmptyManager /\ handler' = [h \in Handler |-> Resting] /\ opSem' = 0
  /\ ops' = [o \in OpIds |->
               [ops[o] EXCEPT !.task = "none", !.slot = FALSE, !.state = "none",
                              !.cut = IF ops[o].state # "running" THEN @
                                      ELSE IF ops[o].task = "run" THEN "run" ELSE "admitted"]]
  /\ restarts' = restarts + 1
  /\ UNCHANGED <<clock, records, bound>>

\* drainOps: all tracked goroutines are done, or its bound has passed.
Drain == server.at = "draining" /\ Gone(Tracked = {})

Crash == server.at # "down" /\ restarts < bound.restarts /\ Gone(FALSE)

\* initJournal and MarkAllInterrupted.  A start that finds the journal unreadable
\* refuses to serve: the process stays down.
Boot ==
  /\ server.at = "down" /\ server' = [at |-> "serving", hurried |-> FALSE, drained |-> FALSE]
  /\ mgr' = [EmptyManager EXCEPT !.active = records]
  /\ ops' = [o \in OpIds |-> IF o \in records
                             THEN [ops[o] EXCEPT !.state = "failed", !.ended = clock] ELSE ops[o]]
  /\ UNCHANGED <<clock, handler, opSem, records, restarts, bound>>

OpsNext ==
  \/ Tick
  \/ \E h \in Handler, kind \in Kind, key \in Key \cup {NoKey} : Request(h, kind, key)
  \/ \E h \in Handler : Begin(h) \/ Build(h) \/ BuildFails(h) \/ Spawn(h)
  \/ \E o \in OpIds : RunEnds(o) \/ TaskEnds(o)
  \/ Signal \/ ShutdownReturns \/ ListenerFails \/ Drain \/ Crash \/ Boot

OpsSpec == OpsInit /\ [][OpsNext]_opsVars

-----------------------------------------------------------------------------
(* Properties.                                                             *)

\* The maintenance lock is never shared and never stranded, whatever ends,
\* fails or is refused meanwhile: a state-changing operation that has not ended
\* is its holder, and the holder has a handler or a goroutine that will end it.
LockAttended ==
  /\ \A o \in OpIds : (ops[o].kind = "state" /\ ops[o].state = "running") => mgr.holder = o
  /\ mgr.holder # 0 => \/ ops[mgr.holder].task = "run"
                       \/ \E h \in Handler : handler[h].op = mgr.holder

\* A keyed request is carried out once: within one life of the process two
\* operations with one key began more than the key's TTL apart, however early
\* the first one ended and however full the table is.
KeyedOnce ==
  \A o, p \in OpIds :
    (o < p /\ ops[o].key = ops[p].key /\ ops[p].key # NoKey /\ ops[o].life = ops[p].life)
      => ops[p].begun - ops[o].begun > KeyTTL

\* Every slot taken is with the handler or the goroutine that will free it: no
\* refusal, duplicate or failing admission shrinks the capacity.
SlotsAccounted ==
  opSem = Cardinality({h \in Handler : handler[h].slot}) + Cardinality({o \in OpIds : ops[o].slot})

\* No operation is cut off unknown.  "By then every admitted op is tracked and
\* drainOps sees the full set": a shutdown that waited for its handlers and
\* drained cuts none off; after any other end, one that was running has its
\* record, and a later start that lists it reports it as failed.
NoSilentCut ==
  \A o \in OpIds :
    /\ (server.at = "down" /\ server.drained /\ ~server.hurried /\ ops[o].life = restarts - 1)
         => ops[o].cut = "no"
    /\ (ops[o].kind = "state" /\ ops[o].cut = "run")
         => o \in records /\ (o \in mgr.active => ops[o].state = "failed")
=============================================================================
