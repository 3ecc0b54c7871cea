------------------------------ MODULE Executor ------------------------------
(***************************************************************************)
(* The execution of one evaluation run (src/evalharness/execution): the    *)
(* plan, the bounded queue between the producer and its workers, the       *)
(* response cache, the persistence of every case, the shutdown signal with *)
(* its drain, the run deadline, the final status, and the passes that      *)
(* resume a run after a crash.  Several processes may execute the same run *)
(* (the documentation asks for one; nothing in the code enforces it).      *)
(*                                                                         *)
(* A step is what the event loop runs between two awaits, or one committed *)
(* transaction of the store.  The retry loop inside a case is abstracted   *)
(* here to the way it ends (CaseAttempts.tla has its detail), time to the  *)
(* order in which timers fire.                                             *)
(***************************************************************************)
EXTENDS Integers, Sequences, FiniteSets

CONSTANTS
    Executors,      \* processes that may execute the run
    WorkerCount,    \* workers of one pool: max(1, concurrency)
    Cases,          \* case_db_id of the dataset's cases, in plan order
    RepeatCount,    \* repeats of the run
    Prompts,        \* rendered prompts, as the cache key tells them apart
    PromptOfCase,   \* [Cases -> Prompts]
    Texts,          \* what a provider may answer
    Inputs,         \* what validate_resume compares
    CacheEnabled,   \* temperature 0
    MaxPasses,      \* bound: how often the run is started or resumed
    MaxFaults,      \* bound: store operations (or other steps) that raise
    MaxDeaths,      \* bound: workers ended by a BaseException
    NoRow, NoText, NoInputs, NoKey, Pill

ASSUME ExecutorAssumption ==
    /\ WorkerCount \in Nat \ {0}
    /\ Cases \subseteq Int
    /\ RepeatCount \in Nat \ {0}
    /\ PromptOfCase \in [Cases -> Prompts]
    /\ CacheEnabled \in BOOLEAN
    /\ NoText \notin Texts
    /\ NoInputs \notin Inputs

Keys == Cases \X (0 .. RepeatCount - 1)
PromptOf == [k \in Keys |-> PromptOfCase[k[1]]]
Workers == Executors \X (1 .. WorkerCount)
Pool(e) == {w \in Workers : w[1] = e}
QueueCapacity == 2 * WorkerCount

ASSUME MarkersAreNotData ==
    /\ NoKey \notin Keys
    /\ Pill \notin Keys

Answers == [kind: {"answer"}, text: Texts, cached: BOOLEAN, inputs: Inputs]
HarnessRows == [kind: {"harness_error", "harness_timeout"}, text: {NoText},
                cached: {FALSE}, inputs: Inputs]
Rows == Answers \cup HarnessRows

ASSUME NoRowIsNotARow == NoRow \notin Rows

VARIABLES
    \* the database
    status,      \* runs.status ("queued" never leaves create_run's transaction)
    runInputs,   \* the input columns of the runs row
    rows,        \* generations: [Keys -> Rows \cup {NoRow}]
    cache,       \* response_cache: [Prompts -> Texts \cup {NoText}]
    \* the driver of each process
    phase,       \* where execute_run stands
    inputs,      \* the inputs the process was started with
    shutdown,    \* GracefulShutdown.event
    failures,    \* what _drive_workers returned
    verdict,     \* the status about to be recorded
    \* the producer and its queue
    planned,     \* the keys of the plan
    todo,        \* plan items the producer has not reached
    offered,     \* the item it is blocked on in queue.put
    pills,       \* end markers still to be put
    queue,
    \* the workers
    wpc,         \* where each worker stands
    item,        \* the key it is running
    result,      \* the row it is about to persist
    \* bounds
    passes, faults, deaths

store == <<status, runInputs, rows, cache>>
driver == <<phase, inputs, shutdown, failures, verdict>>
producer == <<planned, todo, offered, pills>>
workers == <<wpc, item, result>>
bounds == <<passes, faults, deaths>>
vars == <<store, driver, producer, queue, workers, bounds>>

Phases == {"off", "planning", "running", "draining", "finalizing", "recording"}
InCase == {"lookup", "call", "putcache", "persist", "terminal"}
WorkerStates == InCase \cup {"stopped", "idle", "done", "dead"}
Verdicts == {"completed", "cancelled", "failed"}
Statuses == Verdicts \cup {"absent", "running"}

TypeOK ==
    /\ status \in Statuses
    /\ runInputs \in Inputs \cup {NoInputs}
    /\ rows \in [Keys -> Rows \cup {NoRow}]
    /\ cache \in [Prompts -> Texts \cup {NoText}]
    /\ phase \in [Executors -> Phases]
    /\ inputs \in [Executors -> Inputs \cup {NoInputs}]
    /\ shutdown \in [Executors -> BOOLEAN]
    /\ failures \in [Executors -> BOOLEAN]
    /\ verdict \in [Executors -> Verdicts]
    /\ planned \in [Executors -> SUBSET Keys]
    /\ todo \in [Executors -> SUBSET Keys]
    /\ offered \in [Executors -> Keys \cup {NoKey}]
    /\ pills \in [Executors -> 0 .. WorkerCount]
    /\ queue \in [Executors -> Seq(Keys \cup {Pill})]
    /\ wpc \in [Workers -> WorkerStates]
    /\ item \in [Workers -> Keys \cup {NoKey}]
    /\ result \in [Workers -> Rows \cup {NoRow}]
    /\ passes \in Nat /\ faults \in Nat /\ deaths \in Nat

Init ==
    /\ status = "absent"
    /\ runInputs = NoInputs
    /\ rows = [k \in Keys |-> NoRow]
    /\ cache = [p \in Prompts |-> NoText]
    /\ phase = [e \in Executors |-> "off"]
    /\ inputs = [e \in Executors |-> NoInputs]
    /\ shutdown = [e \in Executors |-> FALSE]
    /\ failures = [e \in Executors |-> FALSE]
    /\ verdict = [e \in Executors |-> "failed"]
    /\ planned = [e \in Executors |-> {}]
    /\ todo = [e \in Executors |-> {}]
    /\ offered = [e \in Executors |-> NoKey]
    /\ pills = [e \in Executors |-> 0]
    /\ queue = [e \in Executors |-> <<>>]
    /\ wpc = [w \in Workers |-> "stopped"]
    /\ item = [w \in Workers |-> NoKey]
    /\ result = [w \in Workers |-> NoRow]
    /\ passes = 0 /\ faults = 0 /\ deaths = 0

-----------------------------------------------------------------------------
(* A pass over the run: create or resume, then plan.                       *)

\* A process starts with its own inputs, no shutdown requested and no pool.
Begin(e, i) ==
    /\ phase[e] = "off"
    /\ passes < MaxPasses
    /\ passes' = passes + 1
    /\ inputs' = [inputs EXCEPT ![e] = i]
    /\ phase' = [phase EXCEPT ![e] = "planning"]
    /\ UNCHANGED <<shutdown, failures, verdict, faults, deaths>>

\* create_run inserts the row as "queued" and moves it to "running" in one
\* transaction.
CreateRun(e, i) ==
    /\ status = "absent"
    /\ Begin(e, i)
    /\ status' = "running"
    /\ runInputs' = i
    /\ UNCHANGED <<rows, cache, producer, queue, workers>>

\* A resume whose inputs differ from the stored ones raises before anything
\* changes.  It does not touch the status either.
SameInputs_Unchecked(i) == TRUE
SameInputs(i) == i = runInputs

ResumeRun(e, i) ==
    /\ status # "absent"
    /\ SameInputs(i)
    /\ Begin(e, i)
    /\ UNCHANGED <<store, producer, queue, workers>>

\* The end markers the producer puts: one per worker.
PillCount_Short == WorkerCount - 1
PillCount == WorkerCount

\* The keys that have no row yet, whatever the row says.
Owed == {k \in Keys : rows[k] = NoRow}

\* build_run_plan, and the pool started on it.
StartPool(e) ==
    /\ phase[e] = "planning"
    /\ phase' = [phase EXCEPT ![e] = "running"]
    /\ planned' = [planned EXCEPT ![e] = Owed]
    /\ todo' = [todo EXCEPT ![e] = Owed]
    /\ offered' = [offered EXCEPT ![e] = NoKey]
    /\ pills' = [pills EXCEPT ![e] = PillCount]
    /\ queue' = [queue EXCEPT ![e] = <<>>]
    /\ wpc' = [w \in Workers |-> IF w \in Pool(e) THEN "idle" ELSE wpc[w]]
    /\ UNCHANGED <<store, inputs, shutdown, failures, verdict, item, result, bounds>>

-----------------------------------------------------------------------------
(* The producer: plan order, one shutdown check per item, then one end     *)
(* marker per worker.                                                      *)

PoolLive(e) == phase[e] \in {"running", "draining"}
Room(e) == Len(queue[e]) < QueueCapacity
Before(k, j) == k[1] < j[1] \/ (k[1] = j[1] /\ k[2] < j[2])

\* The next item passes the shutdown check; it enters the queue at once, or
\* the producer blocks on it in queue.put.
Produce(e) ==
    /\ PoolLive(e)
    /\ offered[e] = NoKey
    /\ ~shutdown[e]
    /\ \E k \in todo[e] :
        /\ \A j \in todo[e] \ {k} : Before(k, j)
        /\ todo' = [todo EXCEPT ![e] = @ \ {k}]
        /\ IF Room(e)
           THEN /\ queue' = [queue EXCEPT ![e] = Append(@, k)]
                /\ UNCHANGED offered
           ELSE /\ offered' = [offered EXCEPT ![e] = k]
                /\ UNCHANGED queue
    /\ UNCHANGED <<store, driver, planned, pills, workers, bounds>>

\* A blocked put goes through, even when the shutdown came in the meantime.
ProduceBlocked(e) ==
    /\ PoolLive(e)
    /\ offered[e] # NoKey
    /\ Room(e)
    /\ queue' = [queue EXCEPT ![e] = Append(@, offered[e])]
    /\ offered' = [offered EXCEPT ![e] = NoKey]
    /\ UNCHANGED <<store, driver, planned, todo, pills, workers, bounds>>

StopProducing(e) ==
    /\ PoolLive(e)
    /\ offered[e] = NoKey
    /\ shutdown[e]
    /\ todo[e] # {}
    /\ todo' = [todo EXCEPT ![e] = {}]
    /\ UNCHANGED <<store, driver, planned, offered, pills, queue, workers, bounds>>

ProducePill(e) ==
    /\ PoolLive(e)
    /\ offered[e] = NoKey
    /\ todo[e] = {}
    /\ pills[e] > 0
    /\ Room(e)
    /\ queue' = [queue EXCEPT ![e] = Append(@, Pill)]
    /\ pills' = [pills EXCEPT ![e] = @ - 1]
    /\ UNCHANGED <<store, driver, planned, todo, offered, workers, bounds>>

-----------------------------------------------------------------------------
(* The workers: one case each, through cache, provider and store.          *)

\* save_generation: (run, case, repeat) is unique and a conflict changes
\* nothing.
SaveGeneration(k, r) ==
    rows' = IF rows[k] = NoRow THEN [rows EXCEPT ![k] = r] ELSE rows

\* put_cache: the first writer's response stays.
PutCache_Overwrites(p, t) == cache' = [cache EXCEPT ![p] = t]
PutCache(p, t) ==
    cache' = IF cache[p] = NoText THEN [cache EXCEPT ![p] = t] ELSE cache

CaseEnds(w) ==
    /\ wpc' = [wpc EXCEPT ![w] = "idle"]
    /\ item' = [item EXCEPT ![w] = NoKey]
    /\ result' = [result EXCEPT ![w] = NoRow]

\* The dequeued item reaches run_one's shutdown check without an await.
\* None ends the worker; an item refused by the check writes nothing and is
\* not progress.
Dequeue(w) ==
    /\ wpc[w] = "idle"
    /\ queue[w[1]] # <<>>
    /\ queue' = [queue EXCEPT ![w[1]] = Tail(@)]

TakePill(w) ==
    /\ Dequeue(w)
    /\ Head(queue[w[1]]) = Pill
    /\ wpc' = [wpc EXCEPT ![w] = "done"]
    /\ UNCHANGED <<store, driver, producer, item, result, bounds>>

SkipCase(w) ==
    /\ Dequeue(w)
    /\ Head(queue[w[1]]) # Pill
    /\ shutdown[w[1]]
    /\ UNCHANGED <<store, driver, producer, workers, bounds>>

StartCase(w) ==
    /\ Dequeue(w)
    /\ Head(queue[w[1]]) # Pill
    /\ ~shutdown[w[1]]
    /\ item' = [item EXCEPT ![w] = Head(queue[w[1]])]
    /\ wpc' = [wpc EXCEPT ![w] = IF CacheEnabled THEN "lookup" ELSE "call"]
    /\ UNCHANGED <<store, driver, producer, result, bounds>>

AnswerRow(w, t, fromCache) ==
    [kind |-> "answer", text |-> t, cached |-> fromCache, inputs |-> inputs[w[1]]]
FailureRow(w, k) ==
    [kind |-> k, text |-> NoText, cached |-> FALSE, inputs |-> inputs[w[1]]]

CacheHit(w) ==
    /\ wpc[w] = "lookup"
    /\ cache[PromptOf[item[w]]] # NoText
    /\ result' = [result EXCEPT ![w] = AnswerRow(w, cache[PromptOf[item[w]]], TRUE)]
    /\ wpc' = [wpc EXCEPT ![w] = "persist"]
    /\ UNCHANGED <<store, driver, producer, queue, item, bounds>>

CacheMiss(w) ==
    /\ wpc[w] = "lookup"
    /\ cache[PromptOf[item[w]]] = NoText
    /\ wpc' = [wpc EXCEPT ![w] = "call"]
    /\ UNCHANGED <<store, driver, producer, queue, item, result, bounds>>

\* generate_with_retries ends with a response, or with a harness failure.
ProviderAnswers(w, t) ==
    /\ wpc[w] = "call"
    /\ result' = [result EXCEPT ![w] = AnswerRow(w, t, FALSE)]
    /\ wpc' = [wpc EXCEPT ![w] = IF CacheEnabled THEN "putcache" ELSE "persist"]
    /\ UNCHANGED <<store, driver, producer, queue, item, bounds>>

ProviderFails(w, k) ==
    /\ wpc[w] = "call"
    /\ result' = [result EXCEPT ![w] = FailureRow(w, k)]
    /\ wpc' = [wpc EXCEPT ![w] = "persist"]
    /\ UNCHANGED <<store, driver, producer, queue, item, bounds>>

\* The response is shared before the row that used it exists.
StoreResponse(w) ==
    /\ wpc[w] = "putcache"
    /\ PutCache(PromptOf[item[w]], result[w].text)
    /\ wpc' = [wpc EXCEPT ![w] = "persist"]
    /\ UNCHANGED <<status, runInputs, rows, driver, producer, queue, item, result, bounds>>

\* The row of a case, or of its terminal failure, is committed and counted.
Persist(w) ==
    /\ wpc[w] \in {"persist", "terminal"}
    /\ SaveGeneration(item[w], result[w])
    /\ CaseEnds(w)
    /\ UNCHANGED <<status, runInputs, cache, driver, producer, queue, bounds>>

-----------------------------------------------------------------------------
(* Steps that raise.  A store operation may fail before its commit or      *)
(* after it (the connection drops with the answer in flight).              *)

Fault == faults < MaxFaults /\ faults' = faults + 1 /\ UNCHANGED <<passes, deaths>>

CaseRaises_Drops(w) ==
    /\ wpc[w] \in InCase \ {"terminal"}
    /\ Fault
    /\ CaseEnds(w)
    /\ UNCHANGED <<store, driver, producer, queue>>

\* Any exception inside the case turns it into a harness_error row to save;
\* a response the provider already gave is lost.
CaseRaises(w) ==
    /\ wpc[w] \in InCase \ {"terminal"}
    /\ Fault
    /\ wpc' = [wpc EXCEPT ![w] = "terminal"]
    /\ result' = [result EXCEPT ![w] = FailureRow(w, "harness_error")]
    /\ \/ UNCHANGED <<rows, cache>>
       \/ wpc[w] = "persist" /\ SaveGeneration(item[w], result[w]) /\ UNCHANGED cache
       \/ wpc[w] = "putcache" /\ PutCache(PromptOf[item[w]], result[w].text) /\ UNCHANGED rows
    /\ UNCHANGED <<status, runInputs, driver, producer, queue, item>>

\* Saving the terminal failure raises too: the worker logs it and goes on.
TerminalRaises(w) ==
    /\ wpc[w] = "terminal"
    /\ Fault
    /\ rows' = rows \/ SaveGeneration(item[w], result[w])
    /\ CaseEnds(w)
    /\ UNCHANGED <<status, runInputs, cache, driver, producer, queue>>

\* A BaseException (a cancellation nobody in the pool asked for) ends the
\* worker itself; gather keeps it as a result.
WorkerDies(w) ==
    /\ wpc[w] \in InCase
    /\ deaths < MaxDeaths
    /\ deaths' = deaths + 1
    /\ wpc' = [wpc EXCEPT ![w] = "dead"]
    /\ item' = [item EXCEPT ![w] = NoKey]
    /\ result' = [result EXCEPT ![w] = NoRow]
    /\ UNCHANGED <<store, driver, producer, queue, passes, faults>>

-----------------------------------------------------------------------------
(* The driver: pipeline done, shutdown with its drain, or run deadline.    *)

PipelineDone(e) ==
    /\ offered[e] = NoKey /\ todo[e] = {} /\ pills[e] = 0
    /\ \A w \in Pool(e) : wpc[w] \in {"done", "dead"}

\* The pool of e is gone: its tasks have ended or were cancelled and awaited.
ClearPool(e) ==
    /\ todo' = [todo EXCEPT ![e] = {}]
    /\ offered' = [offered EXCEPT ![e] = NoKey]
    /\ pills' = [pills EXCEPT ![e] = 0]
    /\ queue' = [queue EXCEPT ![e] = <<>>]
    /\ wpc' = [w \in Workers |-> IF w \in Pool(e) THEN "stopped" ELSE wpc[w]]
    /\ item' = [w \in Workers |-> IF w \in Pool(e) THEN NoKey ELSE item[w]]
    /\ result' = [w \in Workers |-> IF w \in Pool(e) THEN NoRow ELSE result[w]]

PoolEnds(e) ==
    /\ PoolLive(e)
    /\ PipelineDone(e)
    /\ failures' = [failures EXCEPT ![e] = \E w \in Pool(e) : wpc[w] = "dead"]
    /\ phase' = [phase EXCEPT ![e] = "finalizing"]
    /\ ClearPool(e)
    /\ UNCHANGED <<store, inputs, shutdown, verdict, planned, bounds>>

BeginDrain(e) ==
    /\ phase[e] = "running"
    /\ shutdown[e]
    /\ ~PipelineDone(e)
    /\ phase' = [phase EXCEPT ![e] = "draining"]
    /\ UNCHANGED <<store, inputs, shutdown, failures, verdict, producer, queue, workers, bounds>>

DrainTimeout_Unbounded(e) ==
    /\ phase[e] = "draining"
    /\ PipelineDone(e)
    /\ failures' = [failures EXCEPT ![e] = FALSE]
    /\ phase' = [phase EXCEPT ![e] = "finalizing"]
    /\ ClearPool(e)
    /\ UNCHANGED <<store, inputs, shutdown, verdict, planned, bounds>>

DrainTimeout(e) ==
    /\ phase[e] = "draining"
    /\ ~PipelineDone(e)
    /\ failures' = [failures EXCEPT ![e] = FALSE]
    /\ phase' = [phase EXCEPT ![e] = "finalizing"]
    /\ ClearPool(e)
    /\ UNCHANGED <<store, inputs, shutdown, verdict, planned, bounds>>

\* The deadline requests a shutdown of its own and cancels without a drain.
RunDeadline(e) ==
    /\ phase[e] = "running"
    /\ ~PipelineDone(e)
    /\ shutdown' = [shutdown EXCEPT ![e] = TRUE]
    /\ failures' = [failures EXCEPT ![e] = FALSE]
    /\ phase' = [phase EXCEPT ![e] = "finalizing"]
    /\ ClearPool(e)
    /\ UNCHANGED <<store, inputs, verdict, planned, bounds>>

\* SIGTERM or SIGINT, from install() on.
Signal(e) ==
    /\ phase[e] \in {"planning", "running", "draining", "finalizing"}
    /\ ~shutdown[e]
    /\ shutdown' = [shutdown EXCEPT ![e] = TRUE]
    /\ UNCHANGED <<store, phase, inputs, failures, verdict, producer, queue, workers, bounds>>

\* What is left is read afresh, in a session of its own, and decides the
\* status that a later commit records.
VerdictOf_NothingReread(e) ==
    IF shutdown[e] THEN "cancelled" ELSE IF failures[e] THEN "failed" ELSE "completed"
VerdictOf_ShutdownFirst(e) ==
    IF shutdown[e] THEN "cancelled"
    ELSE IF Owed = {} /\ ~failures[e] THEN "completed" ELSE "failed"
VerdictOf(e) ==
    IF Owed = {} /\ ~failures[e] THEN "completed"
    ELSE IF shutdown[e] THEN "cancelled" ELSE "failed"

Decide(e) ==
    /\ phase[e] = "finalizing"
    /\ verdict' = [verdict EXCEPT ![e] = VerdictOf(e)]
    /\ phase' = [phase EXCEPT ![e] = "recording"]
    /\ UNCHANGED <<store, inputs, shutdown, failures, producer, queue, workers, bounds>>

\* Nothing a process held outlives its pass.
Forget(e) ==
    /\ phase' = [phase EXCEPT ![e] = "off"]
    /\ inputs' = [inputs EXCEPT ![e] = NoInputs]
    /\ shutdown' = [shutdown EXCEPT ![e] = FALSE]
    /\ failures' = [failures EXCEPT ![e] = FALSE]
    /\ verdict' = [verdict EXCEPT ![e] = "failed"]
    /\ planned' = [planned EXCEPT ![e] = {}]
    /\ ClearPool(e)

RecordStatus(e) ==
    /\ phase[e] = "recording"
    /\ status' = verdict[e]
    /\ Forget(e)
    /\ UNCHANGED <<runInputs, rows, cache, bounds>>

\* Planning, reading what is left or recording the status raises: execute_run
\* propagates it and the status stays as it was.
RunRaises(e) ==
    /\ phase[e] \in {"planning", "finalizing", "recording"}
    /\ Fault
    /\ Forget(e)
    /\ UNCHANGED store

\* The process dies; what was committed stays, the rest is gone.
Crash(e) ==
    /\ phase[e] # "off"
    /\ Forget(e)
    /\ UNCHANGED <<store, bounds>>

-----------------------------------------------------------------------------
ProducerStep(e) == Produce(e) \/ ProduceBlocked(e) \/ StopProducing(e) \/ ProducePill(e)

CaseStep(w) ==
    \/ CacheHit(w) \/ CacheMiss(w)
    \/ \E t \in Texts : ProviderAnswers(w, t)
    \/ \E k \in {"harness_error", "harness_timeout"} : ProviderFails(w, k)
    \/ StoreResponse(w) \/ Persist(w)

WorkerStep(w) == TakePill(w) \/ SkipCase(w) \/ StartCase(w) \/ CaseStep(w)

WorkerFault(w) == CaseRaises(w) \/ TerminalRaises(w) \/ WorkerDies(w)

\* Steps of the driver that wait for the store, and steps the event loop takes
\* by itself: all tasks of the pool are done, or the shutdown event is set.
DriverQuery(e) == StartPool(e) \/ Decide(e) \/ RecordStatus(e)
LoopStep(e) == PoolEnds(e) \/ BeginDrain(e)

Timer(e) == DrainTimeout(e) \/ RunDeadline(e)

Next ==
    \/ \E e \in Executors, i \in Inputs : CreateRun(e, i) \/ ResumeRun(e, i)
    \/ \E e \in Executors : ProducerStep(e) \/ DriverQuery(e) \/ LoopStep(e) \/ Timer(e)
    \/ \E w \in Workers : WorkerStep(w) \/ WorkerFault(w)
    \/ \E e \in Executors : Signal(e) \/ RunRaises(e) \/ Crash(e)

Spec == Init /\ [][Next]_vars

\* The event loop runs what is ready.  It owes nothing that waits for another.
DrivenSpec == Spec /\ \A e \in Executors : WF_vars(LoopStep(e))

\* What PassEnds and PoolFinishes assume of others.  The driver reads its plan,
\* reads what is left and commits the status without a timeout of its own: the
\* store answers it or raises (which ends the pass as well).
StoreServesDriver == \A e \in Executors : WF_vars(DriverQuery(e))

\* A timer fires, and the tasks it cancels then end: _cancel waits for them,
\* while they close their sessions, without a timeout.
TimersFire == \A e \in Executors : WF_vars(Timer(e))

\* The provider and the store answer the workers.
CasesEnd ==
    /\ \A e \in Executors : WF_vars(ProducerStep(e))
    /\ \A w \in Workers : WF_vars(WorkerStep(w))

-----------------------------------------------------------------------------
(* Properties.                                                             *)

Missing == {k \in Keys : rows[k] = NoRow}
InFlight(e) == {w \in Pool(e) : wpc[w] \in InCase}

\* The status "completed" never stands over a run that still owes a
\* generation, whoever recorded it and whatever crashed before
\* (_execute_run_with_context reads what is left before it decides).
CompletedMeansComplete == status = "completed" => Missing = {}

\* A generation, once written, is what every later reader sees: no retry, no
\* resume and no second executor rewrites it (save_generation).
RowsWriteOnce ==
    [][\A k \in Keys : rows[k] # NoRow => rows'[k] = rows[k]]_vars

\* A row reported as served from the cache carries the text the cache holds
\* under its key, even when two workers missed the cache together and both
\* stored an answer (put_cache keeps the first).
CachedRowsMatchCache ==
    \A k \in Keys :
        rows[k] # NoRow /\ rows[k].cached => rows[k].text = cache[PromptOf[k]]

\* All rows of a run were generated from the inputs it was created with,
\* across every resume (validate_resume).
RowsShareInputs ==
    \A k \in Keys : rows[k] # NoRow => rows[k].inputs = runInputs

\* From the shutdown request on, the cases in flight only become fewer: what
\* was queued already, or blocked in put, is not started.
DrainStartsNothing ==
    [][\A e \in Executors : shutdown[e] => InFlight(e)' \subseteq InFlight(e)]_vars

\* With one executor per run, "cancelled" and "failed" are recorded only over
\* a run that owes generations, or whose pool lost a worker.
UnfinishedIsHonest ==
    [][\A e \in Executors :
        RecordStatus(e) /\ verdict[e] # "completed" => Missing # {} \/ failures[e]]_vars

\* With one executor per run, a completed run stays completed.
CompletedIsFinal == [][status = "completed" => status' = "completed"]_vars

\* Every pass ends, even when cases hang for ever in the provider or the store:
\* the drain timeout and the run deadline need no worker's help
\* (_drive_workers).  It holds while the store serves the driver and cancelled
\* tasks end: nothing in the code bounds either.
PassEnds ==
    StoreServesDriver /\ TimersFire =>
        \A e \in Executors : phase[e] # "off" ~> phase[e] = "off"

\* A pool ends without the help of a timer when its cases do, unless a worker
\* died: producer and workers never wait for each other (_run_worker_pool).
PoolFinishes ==
    CasesEnd =>
        \A e \in Executors : PoolLive(e) ~> ~PoolLive(e) \/ deaths > 0

\* Some step of producer or workers can be taken.
CanMove(e) ==
    \/ offered[e] = NoKey /\ todo[e] # {}
    \/ Room(e) /\ (offered[e] # NoKey \/ pills[e] > 0)
    \/ \E w \in Pool(e) : wpc[w] \in InCase \/ (wpc[w] = "idle" /\ queue[e] # <<>>)

\* Producer and workers of a pool are never all waiting for each other, unless
\* every worker of it died (_run_worker_pool).
NoPoolStalls ==
    \A e \in Executors :
        PoolLive(e) /\ ~PipelineDone(e) =>
            CanMove(e) \/ \A w \in Pool(e) : wpc[w] = "dead"

\* A pool that nobody shut down has written a row for every key of its plan
\* when its tasks are done, but for one key per worker that died and one per
\* two operations that raised: the first costs nothing, since its failure is
\* saved (CaseRunner.run_one), and the other workers empty the queue.
Unwritten(e) == {k \in planned[e] : rows[k] = NoRow}
NothingPlannedIsLost ==
    \A e \in Executors :
        /\ PoolLive(e) /\ PipelineDone(e) /\ ~shutdown[e]
        /\ \E w \in Pool(e) : wpc[w] = "done"
        => 2 * Cardinality(Unwritten(e)) <= 2 * deaths + faults

\* What the guide says of a resume after an outage ("exhaustion => harness_error
\* and coverage loss ... Fix backend, then --resume"): a new pass plans the
\* keys whose row is a harness failure.  The code plans keys without a row.
ResumeRepairsHarnessFailures ==
    [][\A e \in Executors : StartPool(e) =>
        \A k \in Keys :
            rows[k] # NoRow /\ rows[k].kind # "answer" => k \in planned'[e]]_vars

\* Why the safety properties hold: the inductive invariant that
\* ExecutorProofs.tla preserves step by step.
WorkersOk ==
    \A w \in Workers :
        /\ wpc[w] \in InCase => item[w] \in Keys
        /\ wpc[w] \in InCase \cup {"idle"} => PoolLive(w[1])
        /\ result[w] # NoRow <=> wpc[w] \in {"putcache", "persist", "terminal"}
        /\ wpc[w] = "putcache" => result[w] \in Answers

InputsOk ==
    /\ status # "absent" => runInputs \in Inputs
    /\ \A e \in Executors :
        phase[e] # "off" => status # "absent" /\ inputs[e] = runInputs
    /\ \A k \in Keys : rows[k] # NoRow => status # "absent"
    /\ \A w \in Workers : result[w] # NoRow => result[w].inputs = runInputs
    /\ RowsShareInputs

CacheOk ==
    /\ \A w \in Workers :
        result[w] # NoRow /\ result[w].cached =>
            wpc[w] = "persist" /\ result[w].text = cache[PromptOf[item[w]]]
    /\ CachedRowsMatchCache

VerdictsOk ==
    /\ \A e \in Executors :
        phase[e] = "recording" /\ verdict[e] = "completed" => Missing = {}
    /\ CompletedMeansComplete

\* The whole invariant, stated of every state of the executor.
InductiveInvariant == TypeOK /\ WorkersOk /\ InputsOk /\ CacheOk /\ VerdictsOk

\* The end markers of a pool, still to be put, at the end of the queue or
\* taken, are one per worker, and come after every key.
Done(e) == {w \in Pool(e) : wpc[w] = "done"}

MarkersInQueue(e, c) ==
    /\ c <= Len(queue[e])
    /\ \A n \in 1 .. Len(queue[e]) : queue[e][n] = Pill <=> n > Len(queue[e]) - c

MarkersOk ==
    \A e \in Executors :
        PoolLive(e) =>
            /\ \A w \in Pool(e) : wpc[w] # "stopped"
            /\ pills[e] < WorkerCount => todo[e] = {} /\ offered[e] = NoKey
            /\ \E c \in 0 .. WorkerCount :
                /\ MarkersInQueue(e, c)
                /\ pills[e] + c + Cardinality(Done(e)) = WorkerCount
                /\ Done(e) # {} => c = Len(queue[e])

\* A planned key without a row is in somebody's hands, or a worker died with
\* it, or saving its failure raised too; who has a failure to save has used
\* one operation up already.
InHand(e) ==
    todo[e] \cup {offered[e]} \cup {queue[e][n] : n \in 1 .. Len(queue[e])}
    \cup {item[w] : w \in InFlight(e)}
Lost(e) == Unwritten(e) \ InHand(e)
Saving(e) == {w \in Pool(e) : wpc[w] = "terminal"}

LossOk ==
    \A e \in Executors :
        PoolLive(e) /\ ~shutdown[e] =>
            /\ IsFiniteSet(Lost(e))
            /\ 2 * Cardinality(Lost(e)) + Cardinality(Saving(e)) <= 2 * deaths + faults

\* What producer and workers keep between them.
PoolInvariant == MarkersOk /\ LossOk

\* The executor implements the run's ledger.
Ledger == INSTANCE RunLedger
LedgerSpec == Ledger!Spec
=============================================================================
