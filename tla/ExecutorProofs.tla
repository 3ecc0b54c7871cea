--------------------------- MODULE ExecutorProofs ---------------------------
(***************************************************************************)
(* Proofs about Executor.tla, for every number of executors, workers,      *)
(* cases, repeats and faults.                                              *)
(***************************************************************************)
EXTENDS Executor, FiniteSetTheorems, TLAPS

USE ExecutorAssumption, MarkersAreNotData, NoRowIsNotARow

-----------------------------------------------------------------------------
(* Facts about the operators.                                              *)

\* Every worker belongs to an executor.
LEMMA WorkerOwner == ASSUME NEW w \in Workers PROVE w[1] \in Executors
BY DEF Workers

\* A key has a prompt.
LEMMA PromptOfKey == ASSUME NEW k \in Keys PROVE PromptOf[k] \in Prompts
BY DEF Keys, PromptOf

\* The row of an answer is an answer, with the inputs of its process.
LEMMA AnswerRowFacts ==
    ASSUME NEW w \in Workers, inputs[w[1]] \in Inputs,
           NEW t \in Texts, NEW b \in BOOLEAN
    PROVE  /\ AnswerRow(w, t, b) \in Answers
           /\ AnswerRow(w, t, b).inputs = inputs[w[1]]
           /\ AnswerRow(w, t, b).text = t
           /\ AnswerRow(w, t, b).cached = b
BY DEF AnswerRow, Answers

\* The row of a harness failure is a row of its process, never a cached one.
LEMMA FailureRowFacts ==
    ASSUME NEW w \in Workers, inputs[w[1]] \in Inputs,
           NEW k \in {"harness_error", "harness_timeout"}
    PROVE  /\ FailureRow(w, k) \in Rows
           /\ FailureRow(w, k).inputs = inputs[w[1]]
           /\ FailureRow(w, k).cached = FALSE
BY DEF FailureRow, Rows, HarnessRows

\* A worker inside a case runs a key, for the inputs the run was created with.
LEMMA CaseFacts ==
    ASSUME InductiveInvariant, NEW w \in Workers, wpc[w] \in InCase
    PROVE  /\ item[w] \in Keys
           /\ status # "absent"
           /\ inputs[w[1]] = runInputs
           /\ runInputs \in Inputs
<1>1. item[w] \in Keys /\ PoolLive(w[1])
  BY DEF InductiveInvariant, WorkersOk
<1>2. w[1] \in Executors /\ phase[w[1]] # "off"
  BY <1>1, WorkerOwner DEF PoolLive
<1>3. QED
  BY <1>1, <1>2 DEF InductiveInvariant, InputsOk

\* What a worker takes from the queue, unless it is the end marker, is a key.
LEMMA DequeuedKey ==
    ASSUME InductiveInvariant, NEW w \in Workers,
           Dequeue(w), Head(queue[w[1]]) # Pill
    PROVE  Head(queue[w[1]]) \in Keys
<1>1. queue[w[1]] \in Seq(Keys \cup {Pill}) /\ queue[w[1]] # <<>>
  BY WorkerOwner DEF InductiveInvariant, TypeOK, Dequeue
<1>2. QED
  BY <1>1

\* A cache hit becomes a row of this run with the text of the cache.
LEMMA CacheHitRow ==
    ASSUME InductiveInvariant, NEW w \in Workers, CacheHit(w)
    PROVE  /\ result'[w] \in Answers
           /\ result'[w].inputs = runInputs
           /\ result'[w].text = cache[PromptOf[item[w]]]
<1>1. wpc[w] \in InCase
  BY DEF CacheHit, InCase
<1>2. cache[PromptOf[item[w]]] \in Texts
  BY <1>1, CaseFacts, PromptOfKey DEF CacheHit, InductiveInvariant, TypeOK
<1>3. result'[w] = AnswerRow(w, cache[PromptOf[item[w]]], TRUE)
  BY DEF CacheHit, InductiveInvariant, TypeOK
<1>4. inputs[w[1]] = runInputs /\ inputs[w[1]] \in Inputs
  BY <1>1, CaseFacts
<1>5. /\ AnswerRow(w, cache[PromptOf[item[w]]], TRUE) \in Answers
      /\ AnswerRow(w, cache[PromptOf[item[w]]], TRUE).inputs = inputs[w[1]]
      /\ AnswerRow(w, cache[PromptOf[item[w]]], TRUE).text = cache[PromptOf[item[w]]]
  BY <1>2, <1>4, AnswerRowFacts
<1>6. QED
  BY <1>3, <1>4, <1>5

\* An answer of the provider becomes a row of this run that is not from the cache.
LEMMA ProviderRow ==
    ASSUME InductiveInvariant, NEW w \in Workers, NEW t \in Texts, ProviderAnswers(w, t)
    PROVE  /\ result'[w] \in Answers
           /\ result'[w].inputs = runInputs
           /\ result'[w].cached = FALSE
<1>1. wpc[w] \in InCase
  BY DEF ProviderAnswers, InCase
<1>2. result'[w] = AnswerRow(w, t, FALSE)
  BY DEF ProviderAnswers, InductiveInvariant, TypeOK
<1>3. inputs[w[1]] = runInputs /\ inputs[w[1]] \in Inputs
  BY <1>1, CaseFacts
<1>4. /\ AnswerRow(w, t, FALSE) \in Answers
      /\ AnswerRow(w, t, FALSE).inputs = inputs[w[1]]
      /\ AnswerRow(w, t, FALSE).cached = FALSE
  BY <1>3, AnswerRowFacts
<1>5. QED
  BY <1>2, <1>3, <1>4

\* A case that fails becomes a harness row of this run.
LEMMA FailedRow ==
    ASSUME InductiveInvariant, NEW w \in Workers,
           NEW k \in {"harness_error", "harness_timeout"},
           wpc[w] \in InCase,
           result' = [result EXCEPT ![w] = FailureRow(w, k)]
    PROVE  /\ result'[w] \in Rows
           /\ result'[w].inputs = runInputs
           /\ result'[w].cached = FALSE
<1>1. result'[w] = FailureRow(w, k)
  BY DEF InductiveInvariant, TypeOK
<1>2. QED
  BY <1>1, CaseFacts, FailureRowFacts

\* A pool that is cleared stops its own workers and no others.
LEMMA ClearPoolFacts ==
    ASSUME NEW e \in Executors, ClearPool(e), NEW w \in Workers
    PROVE  /\ w[1] = e => wpc'[w] = "stopped" /\ item'[w] = NoKey /\ result'[w] = NoRow
           /\ w[1] # e => /\ wpc'[w] = wpc[w] /\ item'[w] = item[w]
                          /\ result'[w] = result[w]
BY DEF ClearPool, Pool

\* Before the run exists nothing of it does.
LEMMA AbsentFacts ==
    ASSUME InductiveInvariant, status = "absent"
    PROVE  /\ \A e \in Executors : phase[e] = "off"
           /\ \A k \in Keys : rows[k] = NoRow
           /\ \A w \in Workers : result[w] = NoRow
<1>1. \A e \in Executors : phase[e] = "off"
  BY DEF InductiveInvariant, InputsOk
<1>2. \A k \in Keys : rows[k] = NoRow
  BY DEF InductiveInvariant, InputsOk
<1>3. ASSUME NEW w \in Workers PROVE result[w] = NoRow
  <2>1. ~PoolLive(w[1])
    BY <1>1, WorkerOwner DEF PoolLive
  <2>2. QED
    BY <2>1 DEF InductiveInvariant, WorkersOk, InCase
<1>4. QED
  BY <1>1, <1>2, <1>3

\* An answer is a row, so it is not the marker for a missing one.
LEMMA AnswersAreRows == Answers \subseteq Rows
BY DEF Rows

\* A row served from the cache is an answer, so it has a text.
LEMMA CachedTexts ==
    ASSUME NEW r \in Rows \cup {NoRow}, r # NoRow, r.cached
    PROVE  r.text \in Texts
BY DEF Rows, Answers, HarnessRows

\* Saving a generation leaves every other row, and this one if it was there.
LEMMA SaveFacts ==
    ASSUME rows \in [Keys -> Rows \cup {NoRow}],
           NEW k \in Keys, NEW r, SaveGeneration(k, r), NEW j \in Keys
    PROVE  /\ rows[j] # NoRow => rows'[j] = rows[j]
           /\ rows'[j] # rows[j] => j = k /\ rows'[j] = r
BY DEF SaveGeneration

\* The cache only ever gains the text that was put, where it had none.
LEMMA PutFacts ==
    ASSUME cache \in [Prompts -> Texts \cup {NoText}],
           NEW p \in Prompts, NEW t, PutCache(p, t), NEW q \in Prompts
    PROVE  /\ cache[q] # NoText => cache'[q] = cache[q]
           /\ cache'[q] # cache[q] => q = p /\ cache'[q] = t
BY DEF PutCache

\* Saving a row of this run keeps the rows of this run together.
LEMMA SaveKeepsInputs ==
    ASSUME rows \in [Keys -> Rows \cup {NoRow}], RowsShareInputs,
           NEW k \in Keys, NEW r, r.inputs = runInputs, SaveGeneration(k, r),
           NEW j \in Keys, rows'[j] # NoRow
    PROVE  rows'[j].inputs = runInputs
<1>1. CASE rows'[j] = rows[j]
  BY <1>1 DEF RowsShareInputs
<1>2. CASE rows'[j] # rows[j]
  BY <1>2, SaveFacts
<1>3. QED
  BY <1>1, <1>2

\* Saving a row the cache vouches for keeps the cached rows true.
LEMMA SaveKeepsCached ==
    ASSUME rows \in [Keys -> Rows \cup {NoRow}], CachedRowsMatchCache,
           NEW k \in Keys, NEW r, r.cached => r.text = cache[PromptOf[k]],
           SaveGeneration(k, r),
           NEW j \in Keys, rows'[j] # NoRow, rows'[j].cached
    PROVE  rows'[j].text = cache[PromptOf[j]]
<1>1. CASE rows'[j] = rows[j]
  BY <1>1 DEF CachedRowsMatchCache
<1>2. CASE rows'[j] # rows[j]
  <2>1. j = k /\ rows'[j] = r
    BY <1>2, SaveFacts
  <2>2. QED
    BY <2>1
<1>3. QED
  BY <1>1, <1>2

\* What the cache holds it keeps, so whoever relied on it may go on doing so.
LEMMA PutKeepsTexts ==
    ASSUME cache \in [Prompts -> Texts \cup {NoText}],
           NEW p \in Prompts, NEW t, PutCache(p, t),
           NEW q \in Prompts, cache[q] \in Texts
    PROVE  cache'[q] = cache[q]
BY PutFacts

\* A result that survives the end of a pool belongs to another one.
LEMMA ClearPoolResults ==
    ASSUME NEW e \in Executors, ClearPool(e), NEW w \in Workers, result'[w] # NoRow
    PROVE  wpc'[w] = wpc[w] /\ item'[w] = item[w] /\ result'[w] = result[w]
BY ClearPoolFacts

-----------------------------------------------------------------------------
(* The initial state.                                                      *)

\* The initial state satisfies the invariant.
LEMMA InitInvariant == Init => InductiveInvariant
<1> SUFFICES ASSUME Init PROVE InductiveInvariant
  OBVIOUS
<1>1. TypeOK
  BY DEF Init, TypeOK, Statuses, Verdicts, Phases, WorkerStates
<1>2. WorkersOk
  BY DEF Init, WorkersOk, InCase, Workers
<1>3. InputsOk
  BY DEF Init, InputsOk, RowsShareInputs
<1>4. CacheOk
  BY DEF Init, CacheOk, CachedRowsMatchCache
<1>5. VerdictsOk
  BY DEF Init, VerdictsOk, CompletedMeansComplete
<1>6. QED
  BY <1>1, <1>2, <1>3, <1>4, <1>5 DEF InductiveInvariant

-----------------------------------------------------------------------------
(* Every step preserves every part of the invariant.                       *)

\* Every step keeps the types.
LEMMA TypeStep == InductiveInvariant /\ [Next]_vars => TypeOK'
<1> SUFFICES ASSUME InductiveInvariant, [Next]_vars PROVE TypeOK'
  OBVIOUS
<1> USE DEF InductiveInvariant, TypeOK, Statuses, Verdicts, Phases, WorkerStates, InCase,
           store, driver, producer, workers, bounds
<1>1. ASSUME NEW e \in Executors, NEW i \in Inputs,
         CreateRun(e, i)
      PROVE  TypeOK'
  BY <1>1 DEF CreateRun, Begin
<1>2. ASSUME NEW e \in Executors, NEW i \in Inputs,
         ResumeRun(e, i)
      PROVE  TypeOK'
  BY <1>2 DEF ResumeRun, Begin, SameInputs
<1>3. ASSUME NEW e \in Executors,
         StartPool(e)
      PROVE  TypeOK'
  BY <1>3 DEF StartPool, Owed, PillCount, Pool
<1>4. ASSUME NEW e \in Executors,
         Produce(e)
      PROVE  TypeOK'
  <2> PICK k \in todo[e] :
        /\ todo' = [todo EXCEPT ![e] = @ \ {k}]
        /\ IF Room(e)
           THEN queue' = [queue EXCEPT ![e] = Append(@, k)] /\ UNCHANGED offered
           ELSE offered' = [offered EXCEPT ![e] = k] /\ UNCHANGED queue
    BY <1>4 DEF Produce
  <2>1. k \in Keys
    OBVIOUS
  <2>2. queue' \in [Executors -> Seq(Keys \cup {Pill})]
    <3>1. CASE Room(e)
      <4>1. Append(queue[e], k) \in Seq(Keys \cup {Pill})
        BY <2>1
      <4>2. QED
        BY <3>1, <4>1
    <3>2. CASE ~Room(e)
      BY <3>2
    <3>3. QED
      BY <3>1, <3>2
  <2>3. offered' \in [Executors -> Keys \cup {NoKey}]
    BY <2>1
  <2>4. QED
    BY <1>4, <2>2, <2>3 DEF Produce
<1>5. ASSUME NEW e \in Executors,
         ProduceBlocked(e)
      PROVE  TypeOK'
  BY <1>5 DEF ProduceBlocked
<1>6. ASSUME NEW e \in Executors,
         StopProducing(e)
      PROVE  TypeOK'
  BY <1>6 DEF StopProducing
<1>7. ASSUME NEW e \in Executors,
         ProducePill(e)
      PROVE  TypeOK'
  BY <1>7 DEF ProducePill
<1>8. ASSUME NEW e \in Executors,
         PoolEnds(e)
      PROVE  TypeOK'
  BY <1>8 DEF PoolEnds, ClearPool, Pool
<1>9. ASSUME NEW e \in Executors,
         BeginDrain(e)
      PROVE  TypeOK'
  BY <1>9 DEF BeginDrain
<1>10. ASSUME NEW e \in Executors,
         Decide(e)
      PROVE  TypeOK'
  BY <1>10 DEF Decide, VerdictOf
<1>11. ASSUME NEW e \in Executors,
         RecordStatus(e)
      PROVE  TypeOK'
  BY <1>11 DEF RecordStatus, Forget, ClearPool
<1>12. ASSUME NEW e \in Executors,
         DrainTimeout(e)
      PROVE  TypeOK'
  BY <1>12 DEF DrainTimeout, ClearPool
<1>13. ASSUME NEW e \in Executors,
         RunDeadline(e)
      PROVE  TypeOK'
  BY <1>13 DEF RunDeadline, ClearPool
<1>14. ASSUME NEW e \in Executors,
         Signal(e)
      PROVE  TypeOK'
  BY <1>14 DEF Signal
<1>15. ASSUME NEW e \in Executors,
         RunRaises(e)
      PROVE  TypeOK'
  BY <1>15 DEF RunRaises, Forget, ClearPool, Fault
<1>16. ASSUME NEW e \in Executors,
         Crash(e)
      PROVE  TypeOK'
  BY <1>16 DEF Crash, Forget, ClearPool
<1>17. ASSUME NEW w \in Workers,
         TakePill(w)
      PROVE  TypeOK'
  BY <1>17, WorkerOwner DEF TakePill, Dequeue
<1>18. ASSUME NEW w \in Workers,
         SkipCase(w)
      PROVE  TypeOK'
  BY <1>18, WorkerOwner DEF SkipCase, Dequeue
<1>19. ASSUME NEW w \in Workers,
         StartCase(w)
      PROVE  TypeOK'
  <2>1. queue[w[1]] \in Seq(Keys \cup {Pill}) /\ queue[w[1]] # <<>>
    BY <1>19, WorkerOwner DEF StartCase, Dequeue
  <2>2. Head(queue[w[1]]) \in Keys
    BY <1>19, <2>1 DEF StartCase
  <2>3. item' \in [Workers -> Keys \cup {NoKey}]
    BY <1>19, <2>2 DEF StartCase
  <2>4. queue' \in [Executors -> Seq(Keys \cup {Pill})]
    <3>1. Tail(queue[w[1]]) \in Seq(Keys \cup {Pill})
      BY <2>1
    <3>2. queue' = [queue EXCEPT ![w[1]] = Tail(queue[w[1]])]
      BY <1>19 DEF StartCase, Dequeue
    <3>3. QED
      BY <3>1, <3>2
  <2>5. QED
    BY <1>19, <2>3, <2>4 DEF StartCase
<1>20. ASSUME NEW w \in Workers,
         CacheHit(w)
      PROVE  TypeOK'
  <2>1. cache[PromptOf[item[w]]] \in Texts /\ inputs[w[1]] \in Inputs
    BY <1>20, CaseFacts, PromptOfKey DEF CacheHit
  <2>2. AnswerRow(w, cache[PromptOf[item[w]]], TRUE) \in Rows
    BY <2>1, AnswerRowFacts DEF Rows
  <2>3. QED
    BY <1>20, <2>2 DEF CacheHit
<1>21. ASSUME NEW w \in Workers,
         CacheMiss(w)
      PROVE  TypeOK'
  BY <1>21 DEF CacheMiss
<1>22. ASSUME NEW w \in Workers, NEW t \in Texts,
         ProviderAnswers(w, t)
      PROVE  TypeOK'
  <2>1. AnswerRow(w, t, FALSE) \in Rows
    BY ZenonT(60), <1>22, CaseFacts, AnswerRowFacts DEF ProviderAnswers, Rows
  <2>2. QED
    BY <1>22, <2>1 DEF ProviderAnswers
<1>23. ASSUME NEW w \in Workers, NEW k \in {"harness_error", "harness_timeout"},
         ProviderFails(w, k)
      PROVE  TypeOK'
  <2>1. FailureRow(w, k) \in Rows
    BY <1>23, CaseFacts, FailureRowFacts DEF ProviderFails
  <2>2. QED
    BY <1>23, <2>1 DEF ProviderFails
<1>24. ASSUME NEW w \in Workers,
         StoreResponse(w)
      PROVE  TypeOK'
  <2>1. result[w] \in Answers
    BY <1>24 DEF StoreResponse, WorkersOk
  <2>2. result[w].text \in Texts
    BY <2>1 DEF Answers
  <2>3. QED
    BY <1>24, <2>2 DEF StoreResponse, PutCache
<1>25. ASSUME NEW w \in Workers,
         Persist(w)
      PROVE  TypeOK'
  BY <1>25 DEF Persist, SaveGeneration, CaseEnds
<1>26. ASSUME NEW w \in Workers,
         CaseRaises(w)
      PROVE  TypeOK'
  <2>1. FailureRow(w, "harness_error") \in Rows
    BY <1>26, CaseFacts, FailureRowFacts DEF CaseRaises
  <2>2. rows' \in [Keys -> Rows \cup {NoRow}]
    BY <1>26 DEF CaseRaises, SaveGeneration
  <2>3. cache' \in [Prompts -> Texts \cup {NoText}]
    <3>1. CASE wpc[w] = "putcache"
      <4>1. result[w] \in Answers
        BY <3>1 DEF WorkersOk
      <4>2. result[w].text \in Texts
        BY <4>1 DEF Answers
      <4>3. cache' = cache \/ PutCache(PromptOf[item[w]], result[w].text)
        BY <1>26 DEF CaseRaises
      <4>4. QED
        BY ZenonT(60), <4>2, <4>3 DEF PutCache
    <3>2. CASE wpc[w] # "putcache"
      BY <1>26, <3>2 DEF CaseRaises
    <3>3. QED
      BY <3>1, <3>2
  <2>4. QED
    BY <1>26, <2>1, <2>2, <2>3 DEF CaseRaises, Fault
<1>27. ASSUME NEW w \in Workers,
         TerminalRaises(w)
      PROVE  TypeOK'
  BY <1>27 DEF TerminalRaises, Fault, SaveGeneration, CaseEnds
<1>28. ASSUME NEW w \in Workers,
         WorkerDies(w)
      PROVE  TypeOK'
  BY <1>28 DEF WorkerDies
<1>29. CASE UNCHANGED vars
  BY <1>29 DEF vars
<1> HIDE DEF InductiveInvariant, TypeOK, Statuses, Verdicts, Phases, WorkerStates, InCase,
           store, driver, producer, workers, bounds
<1> QED
  BY <1>1, <1>2, <1>3, <1>4, <1>5, <1>6, <1>7, <1>8, <1>9, <1>10,
     <1>11, <1>12, <1>13, <1>14, <1>15, <1>16, <1>17, <1>18, <1>19, <1>20,
     <1>21, <1>22, <1>23, <1>24, <1>25, <1>26, <1>27, <1>28, <1>29
  DEF Next, ProducerStep, DriverQuery, LoopStep, Timer, WorkerStep, CaseStep, WorkerFault

\* A worker inside a case keeps a key, a live pool, and a row to save exactly
\* while it is about to save one.
LEMMA WorkersStep == InductiveInvariant /\ [Next]_vars => WorkersOk'
<1> SUFFICES ASSUME InductiveInvariant, [Next]_vars PROVE WorkersOk'
  OBVIOUS
<1> USE DEF InductiveInvariant, TypeOK, WorkersOk, Phases, WorkerStates, InCase, PoolLive,
           store, driver, producer, workers, bounds
<1>1. ASSUME NEW e \in Executors, NEW i \in Inputs,
         CreateRun(e, i)
      PROVE  WorkersOk'
  BY <1>1 DEF CreateRun, Begin
<1>2. ASSUME NEW e \in Executors, NEW i \in Inputs,
         ResumeRun(e, i)
      PROVE  WorkersOk'
  BY <1>2 DEF ResumeRun, Begin, SameInputs
<1>3. ASSUME NEW e \in Executors,
         StartPool(e)
      PROVE  WorkersOk'
  BY <1>3 DEF StartPool, Owed, PillCount, Pool
<1>4. ASSUME NEW e \in Executors,
         Produce(e)
      PROVE  WorkersOk'
  BY <1>4 DEF Produce
<1>5. ASSUME NEW e \in Executors,
         ProduceBlocked(e)
      PROVE  WorkersOk'
  BY <1>5 DEF ProduceBlocked
<1>6. ASSUME NEW e \in Executors,
         StopProducing(e)
      PROVE  WorkersOk'
  BY <1>6 DEF StopProducing
<1>7. ASSUME NEW e \in Executors,
         ProducePill(e)
      PROVE  WorkersOk'
  BY <1>7 DEF ProducePill
<1>8. ASSUME NEW e \in Executors,
         PoolEnds(e)
      PROVE  WorkersOk'
  BY <1>8, ClearPoolFacts, WorkerOwner DEF PoolEnds
<1>9. ASSUME NEW e \in Executors,
         BeginDrain(e)
      PROVE  WorkersOk'
  BY <1>9 DEF BeginDrain
<1>10. ASSUME NEW e \in Executors,
         Decide(e)
      PROVE  WorkersOk'
  BY <1>10 DEF Decide, VerdictOf
<1>11. ASSUME NEW e \in Executors,
         RecordStatus(e)
      PROVE  WorkersOk'
  BY <1>11, ClearPoolFacts, WorkerOwner DEF RecordStatus, Forget
<1>12. ASSUME NEW e \in Executors,
         DrainTimeout(e)
      PROVE  WorkersOk'
  BY <1>12, ClearPoolFacts, WorkerOwner DEF DrainTimeout
<1>13. ASSUME NEW e \in Executors,
         RunDeadline(e)
      PROVE  WorkersOk'
  BY <1>13, ClearPoolFacts, WorkerOwner DEF RunDeadline
<1>14. ASSUME NEW e \in Executors,
         Signal(e)
      PROVE  WorkersOk'
  BY <1>14 DEF Signal
<1>15. ASSUME NEW e \in Executors,
         RunRaises(e)
      PROVE  WorkersOk'
  BY <1>15, ClearPoolFacts, WorkerOwner DEF RunRaises, Forget, Fault
<1>16. ASSUME NEW e \in Executors,
         Crash(e)
      PROVE  WorkersOk'
  BY <1>16, ClearPoolFacts, WorkerOwner DEF Crash, Forget
<1>17. ASSUME NEW w \in Workers,
         TakePill(w)
      PROVE  WorkersOk'
  BY <1>17 DEF TakePill, Dequeue
<1>18. ASSUME NEW w \in Workers,
         SkipCase(w)
      PROVE  WorkersOk'
  BY <1>18 DEF SkipCase, Dequeue
<1>19. ASSUME NEW w \in Workers,
         StartCase(w)
      PROVE  WorkersOk'
  <2>1. Head(queue[w[1]]) \in Keys
    BY <1>19, DequeuedKey DEF StartCase
  <2>2. item'[w] \in Keys /\ wpc'[w] \in {"lookup", "call"} /\ result[w] = NoRow
    BY ZenonT(60), <1>19, <2>1 DEF StartCase, Dequeue
  <2>3. PoolLive(w[1])'
    BY <1>19 DEF StartCase, Dequeue
  <2>4. QED
    BY <1>19, <2>2, <2>3 DEF StartCase
<1>20. ASSUME NEW w \in Workers,
         CacheHit(w)
      PROVE  WorkersOk'
  <2>1. result'[w] # NoRow
    BY <1>20, CacheHitRow, AnswersAreRows
  <2>2. QED
    BY <1>20, <2>1 DEF CacheHit
<1>21. ASSUME NEW w \in Workers,
         CacheMiss(w)
      PROVE  WorkersOk'
  BY <1>21 DEF CacheMiss
<1>22. ASSUME NEW w \in Workers, NEW t \in Texts,
         ProviderAnswers(w, t)
      PROVE  WorkersOk'
  <2>1. result'[w] \in Answers /\ result'[w] # NoRow
    BY ZenonT(60), <1>22, ProviderRow, AnswersAreRows
  <2>2. QED
    BY <1>22, <2>1 DEF ProviderAnswers
<1>23. ASSUME NEW w \in Workers, NEW k \in {"harness_error", "harness_timeout"},
         ProviderFails(w, k)
      PROVE  WorkersOk'
  <2>1. result'[w] \in Rows
    BY <1>23, FailedRow DEF ProviderFails
  <2>2. result'[w] # NoRow
    BY <2>1
  <2>3. QED
    BY <1>23, <2>2 DEF ProviderFails
<1>24. ASSUME NEW w \in Workers,
         StoreResponse(w)
      PROVE  WorkersOk'
  BY <1>24 DEF StoreResponse, PutCache
<1>25. ASSUME NEW w \in Workers,
         Persist(w)
      PROVE  WorkersOk'
  BY <1>25 DEF Persist, SaveGeneration, CaseEnds
<1>26. ASSUME NEW w \in Workers,
         CaseRaises(w)
      PROVE  WorkersOk'
  <2>1. result'[w] \in Rows
    BY <1>26, FailedRow DEF CaseRaises
  <2>2. result'[w] # NoRow
    BY <2>1
  <2>3. QED
    BY <1>26, <2>2 DEF CaseRaises
<1>27. ASSUME NEW w \in Workers,
         TerminalRaises(w)
      PROVE  WorkersOk'
  BY <1>27 DEF TerminalRaises, Fault, SaveGeneration, CaseEnds
<1>28. ASSUME NEW w \in Workers,
         WorkerDies(w)
      PROVE  WorkersOk'
  BY <1>28 DEF WorkerDies
<1>29. CASE UNCHANGED vars
  BY <1>29 DEF vars
<1> HIDE DEF InductiveInvariant, TypeOK, WorkersOk, Phases, WorkerStates, InCase, PoolLive,
           store, driver, producer, workers, bounds
<1> QED
  BY <1>1, <1>2, <1>3, <1>4, <1>5, <1>6, <1>7, <1>8, <1>9, <1>10,
     <1>11, <1>12, <1>13, <1>14, <1>15, <1>16, <1>17, <1>18, <1>19, <1>20,
     <1>21, <1>22, <1>23, <1>24, <1>25, <1>26, <1>27, <1>28, <1>29
  DEF Next, ProducerStep, DriverQuery, LoopStep, Timer, WorkerStep, CaseStep, WorkerFault

\* Nothing generated for other inputs ever gets near the run's rows.
LEMMA InputsStep == InductiveInvariant /\ [Next]_vars => InputsOk'
<1> SUFFICES ASSUME InductiveInvariant, [Next]_vars PROVE InputsOk'
  OBVIOUS
<1> USE DEF InductiveInvariant, TypeOK, InputsOk, RowsShareInputs, Phases, InCase,
           store, driver, producer, workers, bounds
<1>1. ASSUME NEW e \in Executors, NEW i \in Inputs,
         CreateRun(e, i)
      PROVE  InputsOk'
  BY <1>1, AbsentFacts DEF CreateRun, Begin
<1>2. ASSUME NEW e \in Executors, NEW i \in Inputs,
         ResumeRun(e, i)
      PROVE  InputsOk'
  BY <1>2 DEF ResumeRun, Begin, SameInputs
<1>3. ASSUME NEW e \in Executors,
         StartPool(e)
      PROVE  InputsOk'
  BY <1>3 DEF StartPool, Owed, PillCount, Pool
<1>4. ASSUME NEW e \in Executors,
         Produce(e)
      PROVE  InputsOk'
  BY <1>4 DEF Produce
<1>5. ASSUME NEW e \in Executors,
         ProduceBlocked(e)
      PROVE  InputsOk'
  BY <1>5 DEF ProduceBlocked
<1>6. ASSUME NEW e \in Executors,
         StopProducing(e)
      PROVE  InputsOk'
  BY <1>6 DEF StopProducing
<1>7. ASSUME NEW e \in Executors,
         ProducePill(e)
      PROVE  InputsOk'
  BY <1>7 DEF ProducePill
<1>8. ASSUME NEW e \in Executors,
         PoolEnds(e)
      PROVE  InputsOk'
  BY <1>8, ClearPoolResults DEF PoolEnds, PoolLive
<1>9. ASSUME NEW e \in Executors,
         BeginDrain(e)
      PROVE  InputsOk'
  BY <1>9 DEF BeginDrain
<1>10. ASSUME NEW e \in Executors,
         Decide(e)
      PROVE  InputsOk'
  BY <1>10 DEF Decide, VerdictOf
<1>11. ASSUME NEW e \in Executors,
         RecordStatus(e)
      PROVE  InputsOk'
  BY <1>11, ClearPoolResults DEF RecordStatus, Verdicts, Forget
<1>12. ASSUME NEW e \in Executors,
         DrainTimeout(e)
      PROVE  InputsOk'
  BY <1>12, ClearPoolResults DEF DrainTimeout
<1>13. ASSUME NEW e \in Executors,
         RunDeadline(e)
      PROVE  InputsOk'
  BY <1>13, ClearPoolResults DEF RunDeadline
<1>14. ASSUME NEW e \in Executors,
         Signal(e)
      PROVE  InputsOk'
  BY <1>14 DEF Signal
<1>15. ASSUME NEW e \in Executors,
         RunRaises(e)
      PROVE  InputsOk'
  BY <1>15, ClearPoolResults DEF RunRaises, Forget, Fault
<1>16. ASSUME NEW e \in Executors,
         Crash(e)
      PROVE  InputsOk'
  BY <1>16, ClearPoolResults DEF Crash, Forget
<1>17. ASSUME NEW w \in Workers,
         TakePill(w)
      PROVE  InputsOk'
  BY <1>17 DEF TakePill, Dequeue
<1>18. ASSUME NEW w \in Workers,
         SkipCase(w)
      PROVE  InputsOk'
  BY <1>18 DEF SkipCase, Dequeue
<1>19. ASSUME NEW w \in Workers,
         StartCase(w)
      PROVE  InputsOk'
  BY <1>19 DEF StartCase, Dequeue
<1>20. ASSUME NEW w \in Workers,
         CacheHit(w)
      PROVE  InputsOk'
  BY <1>20, CacheHitRow DEF CacheHit
<1>21. ASSUME NEW w \in Workers,
         CacheMiss(w)
      PROVE  InputsOk'
  BY <1>21 DEF CacheMiss
<1>22. ASSUME NEW w \in Workers, NEW t \in Texts,
         ProviderAnswers(w, t)
      PROVE  InputsOk'
  BY <1>22, ProviderRow DEF ProviderAnswers
<1>23. ASSUME NEW w \in Workers, NEW k \in {"harness_error", "harness_timeout"},
         ProviderFails(w, k)
      PROVE  InputsOk'
  BY <1>23, FailedRow DEF ProviderFails
<1>24. ASSUME NEW w \in Workers,
         StoreResponse(w)
      PROVE  InputsOk'
  BY <1>24 DEF StoreResponse, PutCache
<1>25. ASSUME NEW w \in Workers,
         Persist(w)
      PROVE  InputsOk'
  <2>1. item[w] \in Keys /\ status # "absent"
    BY <1>25, CaseFacts DEF Persist
  <2>2. result[w].inputs = runInputs
    BY <1>25 DEF Persist, WorkersOk
  <2>3. \A j \in Keys : rows'[j] # NoRow => rows'[j].inputs = runInputs
    BY <1>25, <2>1, <2>2, SaveKeepsInputs DEF Persist
  <2>4. QED
    BY <1>25, <2>1, <2>3 DEF Persist, CaseEnds
<1>26. ASSUME NEW w \in Workers,
         CaseRaises(w)
      PROVE  InputsOk'
  <2>1. item[w] \in Keys /\ status # "absent"
    BY <1>26, CaseFacts DEF CaseRaises
  <2>2. \A j \in Keys : rows'[j] # NoRow => rows'[j].inputs = runInputs
    <3>1. CASE UNCHANGED rows
      BY <3>1
    <3>2. CASE wpc[w] = "persist" /\ SaveGeneration(item[w], result[w])
      <4>1. result[w].inputs = runInputs
        BY <3>2 DEF WorkersOk
      <4>2. QED
        BY <2>1, <3>2, <4>1, SaveKeepsInputs
    <3>3. QED
      BY <1>26, <3>1, <3>2 DEF CaseRaises
  <2>3. result'[w].inputs = runInputs
    BY <1>26, FailedRow DEF CaseRaises
  <2>4. QED
    BY <1>26, <2>1, <2>2, <2>3 DEF CaseRaises
<1>27. ASSUME NEW w \in Workers,
         TerminalRaises(w)
      PROVE  InputsOk'
  <2>1. item[w] \in Keys /\ status # "absent"
    BY <1>27, CaseFacts DEF TerminalRaises
  <2>2. result[w] # NoRow
    BY <1>27 DEF TerminalRaises, WorkersOk
  <2>3. \A j \in Keys : rows'[j] # NoRow => rows'[j].inputs = runInputs
    BY <1>27, <2>1, <2>2, SaveFacts DEF TerminalRaises
  <2>4. QED
    BY <1>27, <2>1, <2>3 DEF TerminalRaises, CaseEnds
<1>28. ASSUME NEW w \in Workers,
         WorkerDies(w)
      PROVE  InputsOk'
  BY <1>28 DEF WorkerDies
<1>29. CASE UNCHANGED vars
  BY <1>29 DEF vars
<1> HIDE DEF InductiveInvariant, TypeOK, InputsOk, RowsShareInputs, Phases, InCase,
           store, driver, producer, workers, bounds
<1> QED
  BY <1>1, <1>2, <1>3, <1>4, <1>5, <1>6, <1>7, <1>8, <1>9, <1>10,
     <1>11, <1>12, <1>13, <1>14, <1>15, <1>16, <1>17, <1>18, <1>19, <1>20,
     <1>21, <1>22, <1>23, <1>24, <1>25, <1>26, <1>27, <1>28, <1>29
  DEF Next, ProducerStep, DriverQuery, LoopStep, Timer, WorkerStep, CaseStep, WorkerFault

\* A text served from the cache is still there when the row is saved, and after.
LEMMA CacheStep == InductiveInvariant /\ [Next]_vars => CacheOk'
<1> SUFFICES ASSUME InductiveInvariant, [Next]_vars PROVE CacheOk'
  OBVIOUS
<1> USE DEF InductiveInvariant, TypeOK, CacheOk, CachedRowsMatchCache, InCase,
           store, driver, producer, workers, bounds
<1>1. ASSUME NEW e \in Executors, NEW i \in Inputs,
         CreateRun(e, i)
      PROVE  CacheOk'
  BY <1>1 DEF CreateRun, Begin
<1>2. ASSUME NEW e \in Executors, NEW i \in Inputs,
         ResumeRun(e, i)
      PROVE  CacheOk'
  BY <1>2 DEF ResumeRun, Begin, SameInputs
<1>3. ASSUME NEW e \in Executors,
         StartPool(e)
      PROVE  CacheOk'
  <2>1. \A w \in Workers : result[w] # NoRow => wpc'[w] = wpc[w]
    BY <1>3 DEF StartPool, Pool, WorkersOk, PoolLive, Workers
  <2>2. QED
    BY <1>3, <2>1 DEF StartPool
<1>4. ASSUME NEW e \in Executors,
         Produce(e)
      PROVE  CacheOk'
  BY <1>4 DEF Produce
<1>5. ASSUME NEW e \in Executors,
         ProduceBlocked(e)
      PROVE  CacheOk'
  BY <1>5 DEF ProduceBlocked
<1>6. ASSUME NEW e \in Executors,
         StopProducing(e)
      PROVE  CacheOk'
  BY <1>6 DEF StopProducing
<1>7. ASSUME NEW e \in Executors,
         ProducePill(e)
      PROVE  CacheOk'
  BY <1>7 DEF ProducePill
<1>8. ASSUME NEW e \in Executors,
         PoolEnds(e)
      PROVE  CacheOk'
  BY <1>8, ClearPoolResults DEF PoolEnds
<1>9. ASSUME NEW e \in Executors,
         BeginDrain(e)
      PROVE  CacheOk'
  BY <1>9 DEF BeginDrain
<1>10. ASSUME NEW e \in Executors,
         Decide(e)
      PROVE  CacheOk'
  BY <1>10 DEF Decide, VerdictOf
<1>11. ASSUME NEW e \in Executors,
         RecordStatus(e)
      PROVE  CacheOk'
  BY <1>11, ClearPoolResults DEF RecordStatus, Forget
<1>12. ASSUME NEW e \in Executors,
         DrainTimeout(e)
      PROVE  CacheOk'
  BY <1>12, ClearPoolResults DEF DrainTimeout
<1>13. ASSUME NEW e \in Executors,
         RunDeadline(e)
      PROVE  CacheOk'
  BY <1>13, ClearPoolResults DEF RunDeadline
<1>14. ASSUME NEW e \in Executors,
         Signal(e)
      PROVE  CacheOk'
  BY <1>14 DEF Signal
<1>15. ASSUME NEW e \in Executors,
         RunRaises(e)
      PROVE  CacheOk'
  BY <1>15, ClearPoolResults DEF RunRaises, Forget, Fault
<1>16. ASSUME NEW e \in Executors,
         Crash(e)
      PROVE  CacheOk'
  BY <1>16, ClearPoolResults DEF Crash, Forget
<1>17. ASSUME NEW w \in Workers,
         TakePill(w)
      PROVE  CacheOk'
  BY <1>17 DEF TakePill, Dequeue
<1>18. ASSUME NEW w \in Workers,
         SkipCase(w)
      PROVE  CacheOk'
  BY <1>18 DEF SkipCase, Dequeue
<1>19. ASSUME NEW w \in Workers,
         StartCase(w)
      PROVE  CacheOk'
  BY ZenonT(60), <1>19 DEF StartCase, Dequeue
<1>20. ASSUME NEW w \in Workers,
         CacheHit(w)
      PROVE  CacheOk'
  BY ZenonT(60), <1>20, CacheHitRow DEF CacheHit
<1>21. ASSUME NEW w \in Workers,
         CacheMiss(w)
      PROVE  CacheOk'
  BY <1>21 DEF CacheMiss
<1>22. ASSUME NEW w \in Workers, NEW t \in Texts,
         ProviderAnswers(w, t)
      PROVE  CacheOk'
  BY <1>22, ProviderRow DEF ProviderAnswers
<1>23. ASSUME NEW w \in Workers, NEW k \in {"harness_error", "harness_timeout"},
         ProviderFails(w, k)
      PROVE  CacheOk'
  BY <1>23, FailedRow DEF ProviderFails
<1>24. ASSUME NEW w \in Workers,
         StoreResponse(w)
      PROVE  CacheOk'
  <2>1. item[w] \in Keys
    BY <1>24, CaseFacts DEF StoreResponse
  <2>2. \A q \in Prompts : cache[q] \in Texts => cache'[q] = cache[q]
    BY <1>24, <2>1, PromptOfKey, PutKeepsTexts DEF StoreResponse
  <2>3. CachedRowsMatchCache'
    BY <1>24, <2>2, CachedTexts, PromptOfKey DEF StoreResponse
  <2>4. ASSUME NEW v \in Workers, result'[v] # NoRow, result'[v].cached
        PROVE  wpc'[v] = "persist" /\ result'[v].text = cache'[PromptOf[item'[v]]]
    <3>1. wpc[v] = "persist" /\ result[v].text = cache[PromptOf[item[v]]]
      BY <1>24, <2>4 DEF StoreResponse
    <3>2. result[v].text \in Texts /\ item[v] \in Keys
      BY <1>24, <2>4, <3>1, CachedTexts, CaseFacts DEF StoreResponse
    <3>3. QED
      BY <1>24, <2>2, <3>1, <3>2, PromptOfKey DEF StoreResponse
  <2>5. QED
    BY <2>3, <2>4
<1>25. ASSUME NEW w \in Workers,
         Persist(w)
      PROVE  CacheOk'
  <2>1. item[w] \in Keys /\ (result[w].cached => result[w].text = cache[PromptOf[item[w]]])
    BY <1>25 DEF Persist, WorkersOk
  <2>2. \A j \in Keys :
           rows'[j] # NoRow /\ rows'[j].cached => rows'[j].text = cache[PromptOf[j]]
    BY <1>25, <2>1, SaveKeepsCached DEF Persist
  <2>3. QED
    BY <1>25, <2>2 DEF Persist, CaseEnds
<1>26. ASSUME NEW w \in Workers,
         CaseRaises(w)
      PROVE  CacheOk'
  <2>1. item[w] \in Keys
    BY <1>26, CaseFacts DEF CaseRaises
  <2>2. \A q \in Prompts : cache[q] \in Texts => cache'[q] = cache[q]
    BY <1>26, <2>1, PromptOfKey, PutKeepsTexts DEF CaseRaises
  <2>3. ASSUME NEW j \in Keys, rows'[j] # NoRow, rows'[j].cached
        PROVE  rows'[j].text = cache[PromptOf[j]]
    <3>1. CASE UNCHANGED rows
      BY <2>3, <3>1
    <3>2. CASE wpc[w] = "persist" /\ SaveGeneration(item[w], result[w])
      <4>1. result[w].cached => result[w].text = cache[PromptOf[item[w]]]
        BY <3>2 DEF WorkersOk
      <4>2. QED
        BY <2>1, <2>3, <3>2, <4>1, SaveKeepsCached
    <3>3. QED
      BY <1>26, <3>1, <3>2 DEF CaseRaises
  <2>4. CachedRowsMatchCache'
    <3>1. rows' \in [Keys -> Rows \cup {NoRow}]
      BY TypeStep
    <3>2. \A j \in Keys : rows'[j] # NoRow /\ rows'[j].cached => rows'[j].text \in Texts
      BY <3>1, CachedTexts
    <3>3. QED
      BY <2>2, <2>3, <3>2, PromptOfKey
  <2>5. result'[w].cached = FALSE
    BY <1>26, FailedRow DEF CaseRaises
  <2>6. ASSUME NEW v \in Workers, result'[v] # NoRow, result'[v].cached
        PROVE  wpc'[v] = "persist" /\ result'[v].text = cache'[PromptOf[item'[v]]]
    <3>1. v # w /\ result'[v] = result[v] /\ wpc'[v] = wpc[v] /\ item'[v] = item[v]
      BY <1>26, <2>5, <2>6 DEF CaseRaises
    <3>2. wpc[v] = "persist" /\ result[v].text = cache[PromptOf[item[v]]]
      BY <2>6, <3>1
    <3>3. result[v].text \in Texts /\ item[v] \in Keys
      BY <2>6, <3>1, <3>2, CachedTexts, CaseFacts
    <3>4. QED
      BY <2>2, <3>1, <3>2, <3>3, PromptOfKey
  <2>7. QED
    BY <2>4, <2>6
<1>27. ASSUME NEW w \in Workers,
         TerminalRaises(w)
      PROVE  CacheOk'
  <2>1. item[w] \in Keys /\ (result[w].cached => result[w].text = cache[PromptOf[item[w]]])
    BY <1>27 DEF TerminalRaises, WorkersOk
  <2>2. \A j \in Keys :
           rows'[j] # NoRow /\ rows'[j].cached => rows'[j].text = cache[PromptOf[j]]
    <3>1. rows' = rows \/ SaveGeneration(item[w], result[w])
      BY <1>27 DEF TerminalRaises
    <3>2. QED
      BY <2>1, <3>1, SaveKeepsCached
  <2>3. QED
    BY <1>27, <2>2 DEF TerminalRaises, CaseEnds
<1>28. ASSUME NEW w \in Workers,
         WorkerDies(w)
      PROVE  CacheOk'
  BY <1>28 DEF WorkerDies
<1>29. CASE UNCHANGED vars
  BY <1>29 DEF vars
<1> HIDE DEF InductiveInvariant, TypeOK, CacheOk, CachedRowsMatchCache, InCase,
           store, driver, producer, workers, bounds
<1> QED
  BY <1>1, <1>2, <1>3, <1>4, <1>5, <1>6, <1>7, <1>8, <1>9, <1>10,
     <1>11, <1>12, <1>13, <1>14, <1>15, <1>16, <1>17, <1>18, <1>19, <1>20,
     <1>21, <1>22, <1>23, <1>24, <1>25, <1>26, <1>27, <1>28, <1>29
  DEF Next, ProducerStep, DriverQuery, LoopStep, Timer, WorkerStep, CaseStep, WorkerFault

\* Between the decision and the record no generation disappears.
LEMMA VerdictsStep == InductiveInvariant /\ [Next]_vars => VerdictsOk'
<1> SUFFICES ASSUME InductiveInvariant, [Next]_vars PROVE VerdictsOk'
  OBVIOUS
<1> USE DEF InductiveInvariant, TypeOK, VerdictsOk, CompletedMeansComplete, Missing, Verdicts,
           store, driver, producer, workers, bounds
<1>1. ASSUME NEW e \in Executors, NEW i \in Inputs,
         CreateRun(e, i)
      PROVE  VerdictsOk'
  BY <1>1 DEF CreateRun, Begin
<1>2. ASSUME NEW e \in Executors, NEW i \in Inputs,
         ResumeRun(e, i)
      PROVE  VerdictsOk'
  BY <1>2 DEF ResumeRun, Begin, SameInputs
<1>3. ASSUME NEW e \in Executors,
         StartPool(e)
      PROVE  VerdictsOk'
  BY <1>3 DEF StartPool, Owed, PillCount, Pool
<1>4. ASSUME NEW e \in Executors,
         Produce(e)
      PROVE  VerdictsOk'
  BY <1>4 DEF Produce
<1>5. ASSUME NEW e \in Executors,
         ProduceBlocked(e)
      PROVE  VerdictsOk'
  BY <1>5 DEF ProduceBlocked
<1>6. ASSUME NEW e \in Executors,
         StopProducing(e)
      PROVE  VerdictsOk'
  BY <1>6 DEF StopProducing
<1>7. ASSUME NEW e \in Executors,
         ProducePill(e)
      PROVE  VerdictsOk'
  BY <1>7 DEF ProducePill
<1>8. ASSUME NEW e \in Executors,
         PoolEnds(e)
      PROVE  VerdictsOk'
  BY <1>8 DEF PoolEnds, ClearPool, Pool
<1>9. ASSUME NEW e \in Executors,
         BeginDrain(e)
      PROVE  VerdictsOk'
  BY <1>9 DEF BeginDrain
<1>10. ASSUME NEW e \in Executors,
         Decide(e)
      PROVE  VerdictsOk'
  BY <1>10 DEF Decide, VerdictOf, Owed
<1>11. ASSUME NEW e \in Executors,
         RecordStatus(e)
      PROVE  VerdictsOk'
  BY <1>11 DEF RecordStatus, Forget, ClearPool
<1>12. ASSUME NEW e \in Executors,
         DrainTimeout(e)
      PROVE  VerdictsOk'
  BY <1>12 DEF DrainTimeout, ClearPool
<1>13. ASSUME NEW e \in Executors,
         RunDeadline(e)
      PROVE  VerdictsOk'
  BY <1>13 DEF RunDeadline, ClearPool
<1>14. ASSUME NEW e \in Executors,
         Signal(e)
      PROVE  VerdictsOk'
  BY <1>14 DEF Signal
<1>15. ASSUME NEW e \in Executors,
         RunRaises(e)
      PROVE  VerdictsOk'
  BY <1>15 DEF RunRaises, Forget, ClearPool, Fault
<1>16. ASSUME NEW e \in Executors,
         Crash(e)
      PROVE  VerdictsOk'
  BY <1>16 DEF Crash, Forget, ClearPool
<1>17. ASSUME NEW w \in Workers,
         TakePill(w)
      PROVE  VerdictsOk'
  BY <1>17 DEF TakePill, Dequeue
<1>18. ASSUME NEW w \in Workers,
         SkipCase(w)
      PROVE  VerdictsOk'
  BY <1>18 DEF SkipCase, Dequeue
<1>19. ASSUME NEW w \in Workers,
         StartCase(w)
      PROVE  VerdictsOk'
  BY <1>19 DEF StartCase, Dequeue
<1>20. ASSUME NEW w \in Workers,
         CacheHit(w)
      PROVE  VerdictsOk'
  BY <1>20 DEF CacheHit, AnswerRow
<1>21. ASSUME NEW w \in Workers,
         CacheMiss(w)
      PROVE  VerdictsOk'
  BY <1>21 DEF CacheMiss
<1>22. ASSUME NEW w \in Workers, NEW t \in Texts,
         ProviderAnswers(w, t)
      PROVE  VerdictsOk'
  BY <1>22 DEF ProviderAnswers, AnswerRow
<1>23. ASSUME NEW w \in Workers, NEW k \in {"harness_error", "harness_timeout"},
         ProviderFails(w, k)
      PROVE  VerdictsOk'
  BY <1>23 DEF ProviderFails, FailureRow
<1>24. ASSUME NEW w \in Workers,
         StoreResponse(w)
      PROVE  VerdictsOk'
  BY <1>24 DEF StoreResponse, PutCache
<1>25. ASSUME NEW w \in Workers,
         Persist(w)
      PROVE  VerdictsOk'
  BY <1>25 DEF Persist, SaveGeneration, CaseEnds
<1>26. ASSUME NEW w \in Workers,
         CaseRaises(w)
      PROVE  VerdictsOk'
  BY <1>26 DEF CaseRaises, Fault, SaveGeneration, PutCache, FailureRow
<1>27. ASSUME NEW w \in Workers,
         TerminalRaises(w)
      PROVE  VerdictsOk'
  BY <1>27 DEF TerminalRaises, Fault, SaveGeneration, CaseEnds
<1>28. ASSUME NEW w \in Workers,
         WorkerDies(w)
      PROVE  VerdictsOk'
  BY <1>28 DEF WorkerDies
<1>29. CASE UNCHANGED vars
  BY <1>29 DEF vars
<1> HIDE DEF InductiveInvariant, TypeOK, VerdictsOk, CompletedMeansComplete, Missing, Verdicts,
           store, driver, producer, workers, bounds
<1> QED
  BY <1>1, <1>2, <1>3, <1>4, <1>5, <1>6, <1>7, <1>8, <1>9, <1>10,
     <1>11, <1>12, <1>13, <1>14, <1>15, <1>16, <1>17, <1>18, <1>19, <1>20,
     <1>21, <1>22, <1>23, <1>24, <1>25, <1>26, <1>27, <1>28, <1>29
  DEF Next, ProducerStep, DriverQuery, LoopStep, Timer, WorkerStep, CaseStep, WorkerFault

-----------------------------------------------------------------------------
(* What a step may do to the database, and the ledger.                     *)

OpensRun ==
    /\ status = "absent" /\ status' = "running" /\ runInputs' \in Inputs
    /\ UNCHANGED <<rows, cache>>

SavesRow ==
    \E k \in Keys, r \in Rows :
        /\ status # "absent"
        /\ r.inputs = runInputs
        /\ r.cached => cache[PromptOf[k]] = r.text
        /\ SaveGeneration(k, r)
        /\ UNCHANGED <<status, runInputs, cache>>

SharesResponse ==
    \E p \in Prompts, t \in Texts :
        PutCache(p, t) /\ UNCHANGED <<status, runInputs, rows>>

SettlesRun ==
    /\ status # "absent"
    /\ status' \in Verdicts
    /\ status' = "completed" => Missing = {}
    /\ UNCHANGED <<runInputs, rows, cache>>

StoreEffect ==
    UNCHANGED store \/ OpensRun \/ SavesRow \/ SharesResponse \/ SettlesRun

\* The result a worker is about to save is a row of this run.
LEMMA SavedRow ==
    ASSUME InductiveInvariant, NEW w \in Workers, wpc[w] \in {"persist", "terminal"},
           SaveGeneration(item[w], result[w]), UNCHANGED <<status, runInputs, cache>>
    PROVE  SavesRow
<1>1. item[w] \in Keys /\ status # "absent"
  BY CaseFacts DEF InCase
<1>2. result[w] \in Rows /\ result[w].inputs = runInputs
  BY DEF InductiveInvariant, TypeOK, WorkersOk, InputsOk
<1>3. result[w].cached => cache[PromptOf[item[w]]] = result[w].text
  BY <1>2 DEF InductiveInvariant, CacheOk
<1>4. QED
  BY <1>1, <1>2, <1>3 DEF SavesRow

\* The response a worker is about to share is an answer.
LEMMA SharedResponse ==
    ASSUME InductiveInvariant, NEW w \in Workers, wpc[w] = "putcache",
           PutCache(PromptOf[item[w]], result[w].text),
           UNCHANGED <<status, runInputs, rows>>
    PROVE  SharesResponse
<1>1. PromptOf[item[w]] \in Prompts
  BY CaseFacts, PromptOfKey DEF InCase
<1>2. result[w].text \in Texts
  BY DEF InductiveInvariant, WorkersOk, Answers
<1>3. QED
  BY <1>1, <1>2 DEF SharesResponse

\* Whatever the executor does, the database sees one of five effects.
LEMMA StoreStep == InductiveInvariant /\ [Next]_vars => StoreEffect
<1> SUFFICES ASSUME InductiveInvariant, [Next]_vars PROVE StoreEffect
  OBVIOUS
<1> USE DEF StoreEffect, store, driver, producer, workers, bounds
<1>1. ASSUME NEW e \in Executors, NEW i \in Inputs,
         CreateRun(e, i)
      PROVE  StoreEffect
  BY <1>1 DEF CreateRun, OpensRun
<1>2. ASSUME NEW e \in Executors, NEW i \in Inputs,
         ResumeRun(e, i)
      PROVE  StoreEffect
  BY <1>2 DEF ResumeRun, Begin, SameInputs
<1>3. ASSUME NEW e \in Executors,
         StartPool(e)
      PROVE  StoreEffect
  BY <1>3 DEF StartPool, Owed, PillCount, Pool
<1>4. ASSUME NEW e \in Executors,
         Produce(e)
      PROVE  StoreEffect
  BY <1>4 DEF Produce
<1>5. ASSUME NEW e \in Executors,
         ProduceBlocked(e)
      PROVE  StoreEffect
  BY <1>5 DEF ProduceBlocked
<1>6. ASSUME NEW e \in Executors,
         StopProducing(e)
      PROVE  StoreEffect
  BY <1>6 DEF StopProducing
<1>7. ASSUME NEW e \in Executors,
         ProducePill(e)
      PROVE  StoreEffect
  BY <1>7 DEF ProducePill
<1>8. ASSUME NEW e \in Executors,
         PoolEnds(e)
      PROVE  StoreEffect
  BY <1>8 DEF PoolEnds, ClearPool, Pool
<1>9. ASSUME NEW e \in Executors,
         BeginDrain(e)
      PROVE  StoreEffect
  BY <1>9 DEF BeginDrain
<1>10. ASSUME NEW e \in Executors,
         Decide(e)
      PROVE  StoreEffect
  BY <1>10 DEF Decide, VerdictOf
<1>11. ASSUME NEW e \in Executors,
         RecordStatus(e)
      PROVE  StoreEffect
  <2>1. verdict[e] \in Verdicts /\ status # "absent"
    BY <1>11 DEF RecordStatus, InductiveInvariant, TypeOK, InputsOk
  <2>2. verdict[e] = "completed" => Missing = {}
    BY <1>11 DEF RecordStatus, InductiveInvariant, VerdictsOk
  <2>3. QED
    BY <1>11, <2>1, <2>2 DEF RecordStatus, SettlesRun
<1>12. ASSUME NEW e \in Executors,
         DrainTimeout(e)
      PROVE  StoreEffect
  BY <1>12 DEF DrainTimeout, ClearPool
<1>13. ASSUME NEW e \in Executors,
         RunDeadline(e)
      PROVE  StoreEffect
  BY <1>13 DEF RunDeadline, ClearPool
<1>14. ASSUME NEW e \in Executors,
         Signal(e)
      PROVE  StoreEffect
  BY <1>14 DEF Signal
<1>15. ASSUME NEW e \in Executors,
         RunRaises(e)
      PROVE  StoreEffect
  BY <1>15 DEF RunRaises, Forget, ClearPool, Fault
<1>16. ASSUME NEW e \in Executors,
         Crash(e)
      PROVE  StoreEffect
  BY <1>16 DEF Crash, Forget, ClearPool
<1>17. ASSUME NEW w \in Workers,
         TakePill(w)
      PROVE  StoreEffect
  BY <1>17 DEF TakePill, Dequeue
<1>18. ASSUME NEW w \in Workers,
         SkipCase(w)
      PROVE  StoreEffect
  BY <1>18 DEF SkipCase, Dequeue
<1>19. ASSUME NEW w \in Workers,
         StartCase(w)
      PROVE  StoreEffect
  BY <1>19 DEF StartCase, Dequeue
<1>20. ASSUME NEW w \in Workers,
         CacheHit(w)
      PROVE  StoreEffect
  BY <1>20 DEF CacheHit, AnswerRow
<1>21. ASSUME NEW w \in Workers,
         CacheMiss(w)
      PROVE  StoreEffect
  BY <1>21 DEF CacheMiss
<1>22. ASSUME NEW w \in Workers, NEW t \in Texts,
         ProviderAnswers(w, t)
      PROVE  StoreEffect
  BY <1>22 DEF ProviderAnswers, AnswerRow
<1>23. ASSUME NEW w \in Workers, NEW k \in {"harness_error", "harness_timeout"},
         ProviderFails(w, k)
      PROVE  StoreEffect
  BY <1>23 DEF ProviderFails, FailureRow
<1>24. ASSUME NEW w \in Workers,
         StoreResponse(w)
      PROVE  StoreEffect
  BY <1>24, SharedResponse DEF StoreResponse
<1>25. ASSUME NEW w \in Workers,
         Persist(w)
      PROVE  StoreEffect
  BY <1>25, SavedRow DEF Persist
<1>26. ASSUME NEW w \in Workers,
         CaseRaises(w)
      PROVE  StoreEffect
  BY <1>26, SavedRow, SharedResponse DEF CaseRaises
<1>27. ASSUME NEW w \in Workers,
         TerminalRaises(w)
      PROVE  StoreEffect
  BY <1>27, SavedRow DEF TerminalRaises
<1>28. ASSUME NEW w \in Workers,
         WorkerDies(w)
      PROVE  StoreEffect
  BY <1>28 DEF WorkerDies
<1>29. CASE UNCHANGED vars
  BY <1>29 DEF vars
<1> HIDE DEF StoreEffect, store, driver, producer, workers, bounds
<1> QED
  BY <1>1, <1>2, <1>3, <1>4, <1>5, <1>6, <1>7, <1>8, <1>9, <1>10,
     <1>11, <1>12, <1>13, <1>14, <1>15, <1>16, <1>17, <1>18, <1>19, <1>20,
     <1>21, <1>22, <1>23, <1>24, <1>25, <1>26, <1>27, <1>28, <1>29
  DEF Next, ProducerStep, DriverQuery, LoopStep, Timer, WorkerStep, CaseStep, WorkerFault

\* A row that is there stays as it is.
LEMMA RowsKept ==
    ASSUME InductiveInvariant, StoreEffect, NEW k \in Keys, rows[k] # NoRow
    PROVE  rows'[k] = rows[k]
<1>1. CASE UNCHANGED rows
  BY <1>1
<1>2. CASE SavesRow
  <2>1. PICK j \in Keys, r \in Rows : SaveGeneration(j, r)
    BY <1>2 DEF SavesRow
  <2>2. QED
    BY <2>1, SaveFacts DEF InductiveInvariant, TypeOK
<1>3. QED
  BY <1>1, <1>2 DEF StoreEffect, store, OpensRun, SharesResponse, SettlesRun

\* The initial state of the executor is one of the ledger.
LEMMA LedgerInit == Init => Ledger!Init
BY DEF Init, Ledger!Init

\* Each of the five effects on the store is a step of the ledger or none.
LEMMA LedgerStep ==
    ASSUME InductiveInvariant, StoreEffect
    PROVE  [Ledger!Next]_(Ledger!vars)
<1>1. CASE UNCHANGED store
  BY <1>1 DEF store, Ledger!vars
<1>2. CASE OpensRun
  <2>1. Ledger!Open(runInputs')
    BY <1>2 DEF OpensRun, Ledger!Open
  <2>2. QED
    BY <1>2, <2>1 DEF OpensRun, Ledger!Next
<1>3. CASE SavesRow
  <2>1. PICK k \in Keys, r \in Rows :
          /\ status # "absent"
          /\ r.inputs = runInputs
          /\ r.cached => cache[PromptOf[k]] = r.text
          /\ SaveGeneration(k, r)
          /\ UNCHANGED <<status, runInputs, cache>>
    BY <1>3 DEF SavesRow
  <2>2. CASE rows[k] = NoRow
    <3>1. Ledger!Record(k, r)
      BY <2>1, <2>2 DEF SaveGeneration, Ledger!Record
    <3>2. r \in Ledger!Rows
      BY DEF Rows, Answers, HarnessRows, Ledger!Rows, Ledger!Answers, Ledger!HarnessRows
    <3>3. QED
      BY <3>1, <3>2 DEF Ledger!Next
  <2>3. CASE rows[k] # NoRow
    BY <2>1, <2>3 DEF SaveGeneration, Ledger!vars
  <2>4. QED
    BY <2>2, <2>3
<1>4. CASE SharesResponse
  <2>1. PICK p \in Prompts, t \in Texts :
          PutCache(p, t) /\ UNCHANGED <<status, runInputs, rows>>
    BY <1>4 DEF SharesResponse
  <2>2. CASE cache[p] = NoText
    <3>1. Ledger!Remember(p, t)
      BY <2>1, <2>2 DEF PutCache, Ledger!Remember
    <3>2. QED
      BY <3>1 DEF Ledger!Next
  <2>3. CASE cache[p] # NoText
    BY <2>1, <2>3 DEF PutCache, Ledger!vars
  <2>4. QED
    BY <2>2, <2>3
<1>5. CASE SettlesRun
  <2>1. Ledger!Settle(status')
    BY <1>5 DEF SettlesRun, Ledger!Settle, Missing, Ledger!Missing
  <2>2. QED
    BY <1>5, <2>1 DEF SettlesRun, Verdicts, Ledger!Next
<1>6. QED
  BY <1>1, <1>2, <1>3, <1>4, <1>5 DEF StoreEffect

-----------------------------------------------------------------------------
(* The pool: its queue, its end markers, and the keys of its plan.         *)

\* A pool has as many workers as it was given.
LEMMA PoolSize ==
    ASSUME NEW e \in Executors
    PROVE  IsFiniteSet(Pool(e)) /\ Cardinality(Pool(e)) = WorkerCount
<1>1. Pool(e) = {e} \X (1 .. WorkerCount)
  BY DEF Pool, Workers
<1>2. IsFiniteSet({e}) /\ Cardinality({e}) = 1
  BY FS_Singleton
<1>3. IsFiniteSet(1 .. WorkerCount) /\ Cardinality(1 .. WorkerCount) = WorkerCount
  BY FS_Interval
<1>4. QED
  BY <1>1, <1>2, <1>3, FS_Product

\* So the workers that took an end marker can be counted.
LEMMA DoneSize ==
    ASSUME NEW e \in Executors
    PROVE  /\ IsFiniteSet(Done(e)) /\ Cardinality(Done(e)) \in Nat
           /\ Cardinality(Done(e)) = 0 <=> Done(e) = {}
<1>1. Done(e) \subseteq Pool(e)
  BY DEF Done
<1>2. QED
  BY <1>1, PoolSize, FS_Subset, FS_CardinalityType, FS_EmptySet

\* What MarkersOk says of one pool.
Markers(e) ==
    /\ \A w \in Pool(e) : wpc[w] # "stopped"
    /\ pills[e] < WorkerCount => todo[e] = {} /\ offered[e] = NoKey
    /\ \E c \in 0 .. WorkerCount :
        /\ MarkersInQueue(e, c)
        /\ pills[e] + c + Cardinality(Done(e)) = WorkerCount
        /\ Done(e) # {} => c = Len(queue[e])

\* A step that leaves the queue of a pool, its producer, and the ends of its
\* workers alone.
SamePool(e) ==
    /\ PoolLive(e)
    /\ todo'[e] = todo[e] /\ offered'[e] = offered[e] /\ pills'[e] = pills[e]
    /\ queue'[e] = queue[e]
    /\ \A w \in Pool(e) : /\ wpc'[w] = "done" <=> wpc[w] = "done"
                          /\ wpc'[w] = "stopped" <=> wpc[w] = "stopped"

\* A step of the pool's own on its queue.
QueueStep(e) ==
    \/ ProducerStep(e)
    \/ \E w \in Pool(e) : TakePill(w) \/ SkipCase(w) \/ StartCase(w)

\* No other process, and no other step, touches the queue of a pool.
LEMMA QueueIsPrivate ==
    ASSUME InductiveInvariant, [Next]_vars, NEW e \in Executors, PoolLive(e)'
    PROVE  SamePool(e) \/ QueueStep(e) \/ StartPool(e)
<1> USE DEF InductiveInvariant, TypeOK, SamePool, PoolLive, Pool, InCase,
           store, driver, producer, workers, bounds
<1>1. ASSUME NEW x \in Executors, NEW i \in Inputs,
         CreateRun(x, i)
      PROVE  SamePool(e) \/ QueueStep(e) \/ StartPool(e)
  BY <1>1 DEF CreateRun, Begin
<1>2. ASSUME NEW x \in Executors, NEW i \in Inputs,
         ResumeRun(x, i)
      PROVE  SamePool(e) \/ QueueStep(e) \/ StartPool(e)
  BY <1>2 DEF ResumeRun, Begin
<1>3. ASSUME NEW x \in Executors,
         StartPool(x)
      PROVE  SamePool(e) \/ QueueStep(e) \/ StartPool(e)
  <2>1. CASE x = e
    BY <1>3, <2>1
  <2>2. CASE x # e
    BY <1>3, <2>2 DEF StartPool
  <2>3. QED
    BY <2>1, <2>2
<1>4. ASSUME NEW x \in Executors,
         Produce(x)
      PROVE  SamePool(e) \/ QueueStep(e) \/ StartPool(e)
  BY <1>4 DEF Produce, ProducerStep, QueueStep
<1>5. ASSUME NEW x \in Executors,
         ProduceBlocked(x)
      PROVE  SamePool(e) \/ QueueStep(e) \/ StartPool(e)
  BY <1>5 DEF ProduceBlocked, ProducerStep, QueueStep
<1>6. ASSUME NEW x \in Executors,
         StopProducing(x)
      PROVE  SamePool(e) \/ QueueStep(e) \/ StartPool(e)
  BY <1>6 DEF StopProducing, ProducerStep, QueueStep
<1>7. ASSUME NEW x \in Executors,
         ProducePill(x)
      PROVE  SamePool(e) \/ QueueStep(e) \/ StartPool(e)
  BY <1>7 DEF ProducePill, ProducerStep, QueueStep
<1>8. ASSUME NEW x \in Executors,
         PoolEnds(x)
      PROVE  SamePool(e) \/ QueueStep(e) \/ StartPool(e)
  BY <1>8 DEF PoolEnds, ClearPool
<1>9. ASSUME NEW x \in Executors,
         BeginDrain(x)
      PROVE  SamePool(e) \/ QueueStep(e) \/ StartPool(e)
  BY <1>9 DEF BeginDrain
<1>10. ASSUME NEW x \in Executors,
         Decide(x)
      PROVE  SamePool(e) \/ QueueStep(e) \/ StartPool(e)
  BY <1>10 DEF Decide
<1>11. ASSUME NEW x \in Executors,
         RecordStatus(x)
      PROVE  SamePool(e) \/ QueueStep(e) \/ StartPool(e)
  BY <1>11 DEF RecordStatus, Forget, ClearPool
<1>12. ASSUME NEW x \in Executors,
         DrainTimeout(x)
      PROVE  SamePool(e) \/ QueueStep(e) \/ StartPool(e)
  BY <1>12 DEF DrainTimeout, ClearPool
<1>13. ASSUME NEW x \in Executors,
         RunDeadline(x)
      PROVE  SamePool(e) \/ QueueStep(e) \/ StartPool(e)
  BY <1>13 DEF RunDeadline, ClearPool
<1>14. ASSUME NEW x \in Executors,
         Signal(x)
      PROVE  SamePool(e) \/ QueueStep(e) \/ StartPool(e)
  BY <1>14 DEF Signal
<1>15. ASSUME NEW x \in Executors,
         RunRaises(x)
      PROVE  SamePool(e) \/ QueueStep(e) \/ StartPool(e)
  BY <1>15 DEF RunRaises, Forget, ClearPool
<1>16. ASSUME NEW x \in Executors,
         Crash(x)
      PROVE  SamePool(e) \/ QueueStep(e) \/ StartPool(e)
  BY <1>16 DEF Crash, Forget, ClearPool
<1>17. ASSUME NEW w \in Workers,
         TakePill(w)
      PROVE  SamePool(e) \/ QueueStep(e) \/ StartPool(e)
  BY <1>17 DEF TakePill, Dequeue, QueueStep, Workers
<1>18. ASSUME NEW w \in Workers,
         SkipCase(w)
      PROVE  SamePool(e) \/ QueueStep(e) \/ StartPool(e)
  BY <1>18 DEF SkipCase, Dequeue, QueueStep, Workers
<1>19. ASSUME NEW w \in Workers,
         StartCase(w)
      PROVE  SamePool(e) \/ QueueStep(e) \/ StartPool(e)
  BY <1>19 DEF StartCase, Dequeue, QueueStep, Workers
<1>20. ASSUME NEW w \in Workers,
         CacheHit(w)
      PROVE  SamePool(e) \/ QueueStep(e) \/ StartPool(e)
  BY <1>20 DEF CacheHit
<1>21. ASSUME NEW w \in Workers,
         CacheMiss(w)
      PROVE  SamePool(e) \/ QueueStep(e) \/ StartPool(e)
  BY <1>21 DEF CacheMiss
<1>22. ASSUME NEW w \in Workers, NEW t \in Texts,
         ProviderAnswers(w, t)
      PROVE  SamePool(e) \/ QueueStep(e) \/ StartPool(e)
  BY <1>22 DEF ProviderAnswers
<1>23. ASSUME NEW w \in Workers, NEW k \in {"harness_error", "harness_timeout"},
         ProviderFails(w, k)
      PROVE  SamePool(e) \/ QueueStep(e) \/ StartPool(e)
  BY <1>23 DEF ProviderFails
<1>24. ASSUME NEW w \in Workers,
         StoreResponse(w)
      PROVE  SamePool(e) \/ QueueStep(e) \/ StartPool(e)
  BY <1>24 DEF StoreResponse
<1>25. ASSUME NEW w \in Workers,
         Persist(w)
      PROVE  SamePool(e) \/ QueueStep(e) \/ StartPool(e)
  BY <1>25 DEF Persist, CaseEnds
<1>26. ASSUME NEW w \in Workers,
         CaseRaises(w)
      PROVE  SamePool(e) \/ QueueStep(e) \/ StartPool(e)
  BY <1>26 DEF CaseRaises
<1>27. ASSUME NEW w \in Workers,
         TerminalRaises(w)
      PROVE  SamePool(e) \/ QueueStep(e) \/ StartPool(e)
  BY <1>27 DEF TerminalRaises, CaseEnds
<1>28. ASSUME NEW w \in Workers,
         WorkerDies(w)
      PROVE  SamePool(e) \/ QueueStep(e) \/ StartPool(e)
  BY <1>28 DEF WorkerDies
<1>29. CASE UNCHANGED vars
  BY <1>29 DEF vars
<1> HIDE DEF InductiveInvariant, TypeOK, SamePool, PoolLive, Pool, InCase,
           store, driver, producer, workers, bounds
<1> QED
  BY <1>1, <1>2, <1>3, <1>4, <1>5, <1>6, <1>7, <1>8, <1>9, <1>10, <1>11,
     <1>12, <1>13, <1>14, <1>15, <1>16, <1>17, <1>18, <1>19, <1>20, <1>21,
     <1>22, <1>23, <1>24, <1>25, <1>26, <1>27, <1>28, <1>29
  DEF Next, ProducerStep, DriverQuery, LoopStep, Timer, WorkerStep, CaseStep, WorkerFault

\* A pool that just started has everything to do.
LEMMA MarkersStart ==
    ASSUME InductiveInvariant, NEW e \in Executors, StartPool(e)
    PROVE  Markers(e)'
<1>1. /\ queue'[e] = <<>> /\ pills'[e] = WorkerCount
      /\ \A w \in Pool(e) : wpc'[w] = "idle"
  BY DEF StartPool, PillCount, InductiveInvariant, TypeOK, Pool
<1>2. Done(e)' = {} /\ Cardinality({}) = 0
  BY <1>1, FS_EmptySet DEF Done, Pool
<1>3. MarkersInQueue(e, 0)'
  BY <1>1 DEF MarkersInQueue
<1>4. (pills[e] + 0 + Cardinality(Done(e)) = WorkerCount)'
  BY <1>1, <1>2
<1>5. QED
  BY <1>1, <1>2, <1>3, <1>4 DEF Markers, Pool

\* A key is put while all markers are still to come, so it stands before them.
LEMMA KeyIsPut ==
    ASSUME InductiveInvariant, NEW e \in Executors, Markers(e),
           NEW k \in Keys,
           todo[e] # {} \/ offered[e] # NoKey,
           queue'[e] = Append(queue[e], k), pills'[e] = pills[e],
           UNCHANGED wpc
    PROVE  Markers(e)'
<1>1. pills[e] \in 0 .. WorkerCount /\ queue[e] \in Seq(Keys \cup {Pill})
  BY DEF InductiveInvariant, TypeOK
<1>2. pills[e] = WorkerCount
  BY <1>1 DEF Markers
<1>3. PICK c \in 0 .. WorkerCount :
          /\ MarkersInQueue(e, c)
          /\ pills[e] + c + Cardinality(Done(e)) = WorkerCount
          /\ Done(e) # {} => c = Len(queue[e])
  BY DEF Markers
<1>4. c = 0 /\ Done(e) = {} /\ Done(e)' = Done(e)
  <2>1. Cardinality(Done(e)) \in Nat /\ (Cardinality(Done(e)) = 0 <=> Done(e) = {})
    BY DoneSize
  <2>2. c = 0 /\ Cardinality(Done(e)) = 0
    BY <1>2, <1>3, <2>1
  <2>3. Done(e)' = Done(e)
    BY DEF Done, Pool
  <2>4. QED
    BY <2>1, <2>2, <2>3
<1>5. MarkersInQueue(e, 0)'
  <2>1. \A n \in 1 .. Len(queue[e]) : queue[e][n] # Pill
    BY <1>1, <1>3, <1>4 DEF MarkersInQueue
  <2>2. k # Pill
    OBVIOUS
  <2>3. \A n \in 1 .. Len(queue'[e]) : queue'[e][n] # Pill
    BY <1>1, <2>1, <2>2
  <2>4. QED
    BY <1>1, <2>3 DEF MarkersInQueue
<1>6. (pills[e] + 0 + Cardinality(Done(e)) = WorkerCount)'
  BY <1>3, <1>4
<1>7. QED
  BY <1>2, <1>4, <1>5, <1>6 DEF Markers, Pool

\* A marker is put when nothing else is left to put.
LEMMA MarkerIsPut ==
    ASSUME InductiveInvariant, NEW e \in Executors, Markers(e), ProducePill(e)
    PROVE  Markers(e)'
<1>1. /\ pills[e] \in 0 .. WorkerCount /\ pills[e] > 0
      /\ queue[e] \in Seq(Keys \cup {Pill})
      /\ pills'[e] = pills[e] - 1 /\ queue'[e] = Append(queue[e], Pill)
      /\ todo'[e] = {} /\ offered'[e] = NoKey
      /\ wpc' = wpc
  BY DEF ProducePill, InductiveInvariant, TypeOK, workers
<1>2. PICK c \in 0 .. WorkerCount :
          /\ MarkersInQueue(e, c)
          /\ pills[e] + c + Cardinality(Done(e)) = WorkerCount
          /\ Done(e) # {} => c = Len(queue[e])
  BY DEF Markers
<1>3. Done(e)' = Done(e) /\ Cardinality(Done(e)) \in Nat
  BY <1>1, DoneSize DEF Done, Pool
<1>4. c + 1 \in 0 .. WorkerCount
  BY <1>1, <1>2, <1>3
<1>5. /\ Len(queue'[e]) = Len(queue[e]) + 1
      /\ \A n \in 1 .. Len(queue[e]) : queue'[e][n] = queue[e][n]
      /\ queue'[e][Len(queue[e]) + 1] = Pill
      /\ Len(queue[e]) \in Nat
  BY <1>1
<1>6. MarkersInQueue(e, c + 1)'
  BY <1>2, <1>5 DEF MarkersInQueue
<1>7. (pills[e] + (c + 1) + Cardinality(Done(e)) = WorkerCount)'
  <2>1. Cardinality(Done(e))' = Cardinality(Done(e))
    BY <1>3
  <2>2. pills'[e] = pills[e] - 1 /\ pills[e] \in Int /\ c \in Int
    BY <1>1
  <2>3. pills[e] + c + Cardinality(Done(e)) = WorkerCount
    BY <1>2
  <2>4. Cardinality(Done(e)) \in Int
    BY <1>3
  <2>5. pills'[e] + (c + 1) + Cardinality(Done(e))' = WorkerCount
    BY <2>1, <2>2, <2>3, <2>4
  <2>6. QED
    BY <2>5
<1>8. (Done(e) # {} => c + 1 = Len(queue[e]))'
  BY <1>2, <1>3, <1>5
<1>9. QED
  BY <1>1, <1>4, <1>6, <1>7, <1>8 DEF Markers, Pool

\* What is taken from the queue was its head.
LEMMA Shorter ==
    ASSUME InductiveInvariant, NEW w \in Workers, Dequeue(w), NEW e, e = w[1]
    PROVE  /\ e \in Executors /\ w \in Pool(e)
           /\ queue[e] \in Seq(Keys \cup {Pill}) /\ queue[e] # <<>>
           /\ Len(queue[e]) \in Nat /\ Len(queue[e]) > 0
           /\ Head(queue[e]) = queue[e][1]
           /\ queue'[e] = Tail(queue[e])
           /\ Len(queue'[e]) = Len(queue[e]) - 1
           /\ \A n \in 1 .. Len(queue'[e]) : queue'[e][n] = queue[e][n + 1]
<1>1. e \in Executors /\ w \in Pool(e)
  BY WorkerOwner DEF Pool
<1>2. queue[e] \in Seq(Keys \cup {Pill}) /\ queue[e] # <<>> /\ queue'[e] = Tail(queue[e])
  BY <1>1 DEF Dequeue, InductiveInvariant, TypeOK
<1>3. QED
  BY <1>1, <1>2

\* A worker takes a marker only when keys are all gone from the queue.
LEMMA MarkerIsTaken ==
    ASSUME InductiveInvariant, NEW w \in Workers, NEW e, e = w[1],
           Markers(e), TakePill(w)
    PROVE  Markers(e)'
<1>1. Dequeue(w) /\ wpc[w] = "idle" /\ queue[e][1] = Pill
  BY Shorter DEF TakePill, Dequeue
<1>2. /\ e \in Executors /\ w \in Pool(e) /\ Len(queue[e]) \in Nat /\ Len(queue[e]) > 0
      /\ Len(queue'[e]) = Len(queue[e]) - 1
      /\ \A n \in 1 .. Len(queue'[e]) : queue'[e][n] = queue[e][n + 1]
  BY <1>1, Shorter
<1>3. /\ pills[e] \in 0 .. WorkerCount
      /\ todo' = todo /\ offered' = offered /\ pills' = pills
      /\ wpc' = [wpc EXCEPT ![w] = "done"] /\ wpc \in [Workers -> WorkerStates]
  BY <1>2 DEF TakePill, InductiveInvariant, TypeOK, producer
<1>4. PICK c \in 0 .. WorkerCount :
          /\ MarkersInQueue(e, c)
          /\ pills[e] + c + Cardinality(Done(e)) = WorkerCount
          /\ Done(e) # {} => c = Len(queue[e])
  BY DEF Markers
<1>5. c = Len(queue[e])
  BY <1>1, <1>2, <1>4 DEF MarkersInQueue
<1>6. w \notin Done(e) /\ Done(e)' = Done(e) \cup {w}
  BY <1>1, <1>2, <1>3 DEF Done, Pool
<1>7. Cardinality(Done(e))' = Cardinality(Done(e)) + 1 /\ Cardinality(Done(e)) \in Nat
  <2>1. IsFiniteSet(Done(e)) /\ Cardinality(Done(e)) \in Nat
    BY <1>2, DoneSize
  <2>2. Cardinality(Done(e) \cup {w}) = Cardinality(Done(e)) + 1
    BY <1>6, <2>1, FS_AddElement
  <2>3. QED
    BY <1>6, <2>1, <2>2
<1>8. MarkersInQueue(e, c - 1)'
  <2>1. \A n \in 1 .. Len(queue[e]) : queue[e][n] = Pill
    BY <1>4, <1>5 DEF MarkersInQueue
  <2>2. ASSUME NEW n \in 1 .. Len(queue'[e]) PROVE queue'[e][n] = Pill
    <3>1. n + 1 \in 1 .. Len(queue[e])
      BY <1>2
    <3>2. QED
      BY <1>2, <2>1, <3>1
  <2>3. QED
    BY <1>2, <1>5, <2>2 DEF MarkersInQueue
<1>9. c - 1 \in 0 .. WorkerCount /\ (pills[e] + (c - 1) + Cardinality(Done(e)) = WorkerCount)'
  <2>1. c - 1 \in 0 .. WorkerCount
    BY <1>2, <1>5
  <2>2. pills'[e] + (c - 1) + Cardinality(Done(e))' = WorkerCount
    BY <1>3, <1>4, <1>7
  <2>3. QED
    BY <2>1, <2>2
<1>10. (c - 1 = Len(queue[e]))'
  BY <1>2, <1>5
<1>11. \A v \in Pool(e) : wpc'[v] # "stopped"
  BY <1>3 DEF Markers, Pool
<1>12. QED
  BY <1>3, <1>8, <1>9, <1>10, <1>11 DEF Markers, Pool

\* Taking a key leaves the markers where they are, at the end.
LEMMA KeyIsTaken ==
    ASSUME InductiveInvariant, NEW w \in Workers, NEW e, e = w[1],
           Markers(e), Dequeue(w), Head(queue[e]) # Pill,
           UNCHANGED producer,
           \A v \in Pool(e) : /\ wpc'[v] = "done" <=> wpc[v] = "done"
                              /\ wpc'[v] = "stopped" <=> wpc[v] = "stopped"
    PROVE  Markers(e)'
<1>2. /\ e \in Executors /\ Len(queue[e]) \in Nat /\ Len(queue[e]) > 0
      /\ queue[e][1] # Pill
      /\ Len(queue'[e]) = Len(queue[e]) - 1
      /\ \A n \in 1 .. Len(queue'[e]) : queue'[e][n] = queue[e][n + 1]
  <2>1. Head(queue[e]) = queue[e][1]
    BY Shorter
  <2>2. QED
    BY <2>1, Shorter
<1>3. todo' = todo /\ offered' = offered /\ pills' = pills
  BY DEF producer
<1>4. PICK c \in 0 .. WorkerCount :
          /\ MarkersInQueue(e, c)
          /\ pills[e] + c + Cardinality(Done(e)) = WorkerCount
          /\ Done(e) # {} => c = Len(queue[e])
  BY DEF Markers
<1>5. c < Len(queue[e])
  BY <1>2, <1>4 DEF MarkersInQueue
<1>6. Done(e)' = Done(e)
  BY DEF Done, Pool
<1>7. MarkersInQueue(e, c)'
  <2>1. ASSUME NEW n \in 1 .. Len(queue'[e])
        PROVE  queue'[e][n] = Pill <=> n > Len(queue'[e]) - c
    <3>1. n + 1 \in 1 .. Len(queue[e]) /\ queue'[e][n] = queue[e][n + 1]
      BY <1>2
    <3>2. queue[e][n + 1] = Pill <=> n + 1 > Len(queue[e]) - c
      BY <1>4, <3>1 DEF MarkersInQueue
    <3>3. QED
      BY <1>2, <3>1, <3>2
  <2>2. c <= Len(queue'[e])
    BY <1>2, <1>5
  <2>3. QED
    BY <2>1, <2>2 DEF MarkersInQueue
<1>8. QED
  BY <1>3, <1>4, <1>5, <1>6, <1>7 DEF Markers, Pool

\* Every step keeps the end markers of every pool one per worker.
LEMMA MarkersStep ==
    ASSUME InductiveInvariant, MarkersOk, [Next]_vars
    PROVE  MarkersOk'
<1> SUFFICES ASSUME NEW e \in Executors, PoolLive(e)'
             PROVE  Markers(e)'
  BY DEF MarkersOk, Markers
<1>0. PoolLive(e) => Markers(e)
  BY DEF MarkersOk, Markers
<1>1. CASE SamePool(e)
  <2>1. Done(e)' = Done(e)
    BY <1>1 DEF SamePool, Done, Pool
  <2>2. QED
    BY <1>0, <1>1, <2>1 DEF SamePool, Markers, MarkersInQueue, Pool
<1>2. CASE StartPool(e)
  BY <1>2, MarkersStart
<1>3. CASE Produce(e)
  <2>1. PICK k \in todo[e] :
          /\ todo' = [todo EXCEPT ![e] = @ \ {k}]
          /\ IF Room(e)
             THEN queue' = [queue EXCEPT ![e] = Append(@, k)] /\ UNCHANGED offered
             ELSE offered' = [offered EXCEPT ![e] = k] /\ UNCHANGED queue
    BY <1>3 DEF Produce
  <2>2. /\ k \in Keys /\ PoolLive(e) /\ pills' = pills /\ wpc' = wpc
        /\ pills[e] \in 0 .. WorkerCount
    BY <1>3 DEF Produce, InductiveInvariant, TypeOK, workers
  <2>3. CASE Room(e)
    <3>1. queue'[e] = Append(queue[e], k)
      BY <2>1, <2>3 DEF InductiveInvariant, TypeOK
    <3>2. QED
      BY <1>0, <2>2, <3>1, KeyIsPut
  <2>4. CASE ~Room(e)
    <3>1. queue'[e] = queue[e] /\ Done(e)' = Done(e)
      BY <2>1, <2>2, <2>4 DEF Done, Pool
    <3>2. pills[e] = WorkerCount
      BY <1>0, <2>2 DEF Markers
    <3>3. QED
      BY <1>0, <2>2, <3>1, <3>2 DEF Markers, MarkersInQueue, Pool
  <2>5. QED
    BY <2>3, <2>4
<1>4. CASE ProduceBlocked(e)
  <2>1. /\ offered[e] \in Keys /\ PoolLive(e) /\ pills' = pills /\ wpc' = wpc
        /\ queue'[e] = Append(queue[e], offered[e])
        /\ offered[e] # NoKey
    BY <1>4 DEF ProduceBlocked, InductiveInvariant, TypeOK, workers
  <2>2. QED
    BY <1>0, <2>1, KeyIsPut
<1>5. CASE StopProducing(e)
  <2>1. /\ PoolLive(e) /\ todo'[e] = {} /\ offered' = offered /\ pills' = pills
        /\ queue' = queue /\ wpc' = wpc
    BY <1>5 DEF StopProducing, InductiveInvariant, TypeOK, workers
  <2>2. Done(e)' = Done(e)
    BY <2>1 DEF Done, Pool
  <2>3. QED
    BY <1>0, <2>1, <2>2 DEF Markers, MarkersInQueue, Pool
<1>6. CASE ProducePill(e)
  BY <1>0, <1>6, MarkerIsPut DEF ProducePill
<1>7. ASSUME NEW w \in Pool(e), TakePill(w) \/ SkipCase(w) \/ StartCase(w)
      PROVE  Markers(e)'
  <2>1. w \in Workers /\ e = w[1] /\ wpc[w] = "idle"
    BY <1>7 DEF Pool, TakePill, SkipCase, StartCase, Dequeue
  <2>2. PoolLive(e)
    BY <2>1 DEF InductiveInvariant, WorkersOk
  <2>3. CASE TakePill(w)
    BY <1>0, <2>1, <2>2, <2>3, MarkerIsTaken
  <2>4. CASE SkipCase(w)
    BY <1>0, <2>1, <2>2, <2>4, KeyIsTaken DEF SkipCase, workers
  <2>5. CASE StartCase(w)
    <3>1. \A v \in Pool(e) : /\ wpc'[v] = "done" <=> wpc[v] = "done"
                             /\ wpc'[v] = "stopped" <=> wpc[v] = "stopped"
      BY <2>1, <2>5 DEF StartCase, Pool, InductiveInvariant, TypeOK
    <3>2. QED
      BY <1>0, <2>1, <2>2, <2>5, <3>1, KeyIsTaken DEF StartCase
  <2>6. QED
    BY <1>7, <2>3, <2>4, <2>5
<1>8. QED
  BY <1>1, <1>2, <1>3, <1>4, <1>5, <1>6, <1>7, QueueIsPrivate DEF QueueStep, ProducerStep

\* With markers for every worker, whoever is idle finds one, or somebody who
\* puts one, or a case.
LEMMA NobodyStalls ==
    ASSUME InductiveInvariant, MarkersOk
    PROVE  NoPoolStalls
<1> SUFFICES ASSUME NEW e \in Executors, PoolLive(e), ~PipelineDone(e), ~CanMove(e),
                    NEW w \in Pool(e), wpc[w] # "dead"
             PROVE  FALSE
  BY DEF NoPoolStalls
<1>0. /\ Markers(e) /\ pills[e] \in 0 .. WorkerCount /\ queue[e] \in Seq(Keys \cup {Pill})
      /\ wpc \in [Workers -> WorkerStates]
  BY DEF MarkersOk, Markers, InductiveInvariant, TypeOK
<1>1. PICK c \in 0 .. WorkerCount :
          /\ MarkersInQueue(e, c)
          /\ pills[e] + c + Cardinality(Done(e)) = WorkerCount
          /\ Done(e) # {} => c = Len(queue[e])
  BY <1>0 DEF Markers
<1>2. \A v \in Pool(e) : wpc[v] \in {"idle", "done", "dead"}
  BY <1>0 DEF Markers, CanMove, WorkerStates, Pool
<1>3. ASSUME Room(e) PROVE offered[e] = NoKey /\ todo[e] = {} /\ pills[e] = 0
  BY <1>0, <1>3 DEF CanMove
<1>4. ASSUME NEW v \in Pool(e), wpc[v] = "idle" PROVE FALSE
  <2>1. queue[e] = <<>>
    BY <1>4 DEF CanMove
  <2>2. Room(e)
    BY <2>1 DEF Room, QueueCapacity
  <2>3. c = 0 /\ pills[e] = 0
    BY <1>0, <1>1, <1>3, <2>1, <2>2 DEF MarkersInQueue
  <2>4. Cardinality(Done(e)) = WorkerCount
    BY <1>1, <2>3, DoneSize
  <2>5. Done(e) \subseteq Pool(e) /\ v \notin Done(e)
    BY <1>4 DEF Done
  <2>6. IsFiniteSet(Pool(e)) /\ Cardinality(Pool(e)) = WorkerCount
    BY PoolSize
  <2>7. Cardinality(Pool(e)) = Cardinality(Done(e)) => Pool(e) = Done(e)
    BY <2>5, <2>6, FS_Subset
  <2>8. QED
    BY <2>4, <2>5, <2>6, <2>7
<1>5. w \in Done(e)
  BY <1>2, <1>4 DEF Done
<1>6. Room(e)
  BY <1>0, <1>1, <1>5 DEF Room, QueueCapacity
<1>7. QED
  BY <1>2, <1>3, <1>4, <1>6 DEF PipelineDone

\* What a pool has in its hands, one key at a time.
LEMMA Hands ==
    ASSUME NEW e, NEW k
    PROVE  k \in InHand(e) <=>
               \/ k \in todo[e] \/ k = offered[e]
               \/ \E n \in 1 .. Len(queue[e]) : k = queue[e][n]
               \/ \E w \in InFlight(e) : k = item[w]
BY DEF InHand

\* A step after which a pool nobody shut down still has what it had, or a row
\* for it.
Careful(e) ==
    /\ PoolLive(e) /\ ~shutdown[e]
    /\ planned'[e] = planned[e]
    /\ deaths' = deaths
    /\ \A k \in Keys : k \in InHand(e) /\ rows'[k] = NoRow => (k \in InHand(e))'

\* The same, but for the case of one worker.
AllBut(e, w) ==
    /\ PoolLive(e) /\ ~shutdown[e]
    /\ planned'[e] = planned[e]
    /\ \A k \in Keys \ {item[w]} :
          k \in InHand(e) /\ rows'[k] = NoRow => (k \in InHand(e))'

\* The worker dies, or saving its failure raises.
Deadly(e) == deaths' = deaths + 1 /\ \E w \in Workers : AllBut(e, w)
Careless(e) == deaths' = deaths /\ \E w \in Pool(e) : TerminalRaises(w) /\ AllBut(e, w)

\* Nothing of a pool is anywhere else after a step that leaves its producer,
\* its queue and its cases alone.
LEMMA HandsStill ==
    ASSUME NEW e \in Executors,
           todo'[e] = todo[e], offered'[e] = offered[e], queue'[e] = queue[e],
           \A w \in Pool(e) : /\ wpc[w] \in InCase => wpc'[w] \in InCase
                              /\ wpc[w] \in InCase => item'[w] = item[w],
           NEW k, k \in InHand(e)
    PROVE  (k \in InHand(e))'
<1>1. ASSUME NEW w \in InFlight(e), k = item[w]
      PROVE  \E v \in InFlight(e)' : k = item'[v]
  BY <1>1 DEF InFlight, Pool
<1>2. QED
  BY <1>1, Hands DEF InHand

\* A key that is not taken moves up in the queue.
LEMMA LaterStays ==
    ASSUME InductiveInvariant, NEW w \in Workers, Dequeue(w), NEW e, e = w[1],
           NEW m \in 1 .. Len(queue[e]), queue[e][m] # Head(queue[e])
    PROVE  \E l \in 1 .. Len(queue'[e]) : queue[e][m] = queue'[e][l]
<1>1. /\ Len(queue[e]) \in Nat /\ Head(queue[e]) = queue[e][1]
      /\ Len(queue'[e]) = Len(queue[e]) - 1
      /\ \A n \in 1 .. Len(queue'[e]) : queue'[e][n] = queue[e][n + 1]
  BY Shorter
<1>2. m - 1 \in 1 .. Len(queue'[e]) /\ (m - 1) + 1 = m
  BY <1>1
<1>3. queue'[e][m - 1] = queue[e][m]
  BY <1>1, <1>2
<1>4. QED
  BY <1>2, <1>3

\* A pool nobody shuts down loses a key only with the worker that had it, or
\* with the failure that worker could not save.
LEMMA HandsStep ==
    ASSUME InductiveInvariant, [Next]_vars, NEW e \in Executors,
           PoolLive(e)', ~shutdown'[e]
    PROVE  Careful(e) \/ Deadly(e) \/ Careless(e) \/ StartPool(e)
<1> USE DEF InductiveInvariant, TypeOK, PoolLive,
           store, driver, producer, workers, bounds
<1>1. ASSUME NEW x \in Executors, NEW i \in Inputs,
         CreateRun(x, i)
      PROVE  Careful(e) \/ Deadly(e) \/ Careless(e) \/ StartPool(e)
  <2>1. PoolLive(e) /\ ~shutdown[e]
    BY <1>1 DEF CreateRun, Begin
  <2>2. /\ planned'[e] = planned[e] /\ deaths' = deaths /\ todo'[e] = todo[e]
        /\ offered'[e] = offered[e] /\ queue'[e] = queue[e]
    BY <1>1 DEF CreateRun, Begin
  <2>3. \A w \in Pool(e) : /\ wpc[w] \in InCase => wpc'[w] \in InCase
                           /\ wpc[w] \in InCase => item'[w] = item[w]
    BY <1>1 DEF Pool, InCase, CreateRun, Begin
  <2>4. QED
    BY <2>1, <2>2, <2>3, HandsStill DEF Careful
<1>2. ASSUME NEW x \in Executors, NEW i \in Inputs,
         ResumeRun(x, i)
      PROVE  Careful(e) \/ Deadly(e) \/ Careless(e) \/ StartPool(e)
  <2>1. PoolLive(e) /\ ~shutdown[e]
    BY <1>2 DEF ResumeRun, Begin
  <2>2. /\ planned'[e] = planned[e] /\ deaths' = deaths /\ todo'[e] = todo[e]
        /\ offered'[e] = offered[e] /\ queue'[e] = queue[e]
    BY <1>2 DEF ResumeRun, Begin
  <2>3. \A w \in Pool(e) : /\ wpc[w] \in InCase => wpc'[w] \in InCase
                           /\ wpc[w] \in InCase => item'[w] = item[w]
    BY <1>2 DEF Pool, InCase, ResumeRun, Begin
  <2>4. QED
    BY <2>1, <2>2, <2>3, HandsStill DEF Careful
<1>3. ASSUME NEW x \in Executors,
         StartPool(x)
      PROVE  Careful(e) \/ Deadly(e) \/ Careless(e) \/ StartPool(e)
  <2>1. CASE x # e
    <3>1. PoolLive(e) /\ ~shutdown[e]
      BY <1>3, <2>1 DEF StartPool
    <3>2. /\ planned'[e] = planned[e] /\ deaths' = deaths /\ todo'[e] = todo[e]
          /\ offered'[e] = offered[e] /\ queue'[e] = queue[e]
      BY <1>3, <2>1 DEF StartPool
    <3>3. \A w \in Pool(e) : /\ wpc[w] \in InCase => wpc'[w] \in InCase
                             /\ wpc[w] \in InCase => item'[w] = item[w]
      BY <1>3, <2>1 DEF Pool, InCase, StartPool
    <3>4. QED
      BY <3>1, <3>2, <3>3, HandsStill DEF Careful
  <2>2. CASE x = e
    BY <1>3, <2>2
  <2>3. QED
    BY <2>1, <2>2
<1>4. ASSUME NEW x \in Executors,
         Produce(x)
      PROVE  Careful(e) \/ Deadly(e) \/ Careless(e) \/ StartPool(e)
  <2>1. CASE x # e
    <3>1. PoolLive(e) /\ ~shutdown[e]
      BY <1>4, <2>1 DEF Produce
    <3>2. /\ planned'[e] = planned[e] /\ deaths' = deaths /\ todo'[e] = todo[e]
          /\ offered'[e] = offered[e] /\ queue'[e] = queue[e]
      BY <1>4, <2>1 DEF Produce
    <3>3. \A w \in Pool(e) : /\ wpc[w] \in InCase => wpc'[w] \in InCase
                             /\ wpc[w] \in InCase => item'[w] = item[w]
      BY <1>4, <2>1 DEF Pool, InCase, Produce
    <3>4. QED
      BY <3>1, <3>2, <3>3, HandsStill DEF Careful
  <2>2. CASE x = e
    <3>1. PoolLive(e) /\ ~shutdown[e]
      BY <1>4, <2>2 DEF Produce
    <3>2. planned' = planned /\ deaths' = deaths /\ wpc' = wpc /\ item' = item
      BY <1>4 DEF Produce
    <3>3. ASSUME NEW k \in Keys, k \in InHand(e) PROVE (k \in InHand(e))'
      <4>1. queue[e] \in Seq(Keys \cup {Pill})
        OBVIOUS
      <4>2. PICK j \in todo[e] :
              /\ todo'[e] = todo[e] \ {j}
              /\ \/ queue'[e] = Append(queue[e], j) /\ offered'[e] = offered[e]
                 \/ offered[e] = NoKey /\ offered'[e] = j /\ queue'[e] = queue[e]
        <5>1. PICK j \in todo[e] :
                /\ todo' = [todo EXCEPT ![e] = @ \ {j}]
                /\ IF Room(e)
                   THEN queue' = [queue EXCEPT ![e] = Append(@, j)] /\ UNCHANGED offered
                   ELSE offered' = [offered EXCEPT ![e] = j] /\ UNCHANGED queue
          BY <1>4, <2>2 DEF Produce
        <5>2. todo'[e] = todo[e] \ {j} /\ offered[e] = NoKey
          BY <1>4, <2>2, <5>1 DEF Produce
        <5>3. CASE Room(e)
          BY <5>1, <5>2, <5>3
        <5>4. CASE ~Room(e)
          BY <5>1, <5>2, <5>4
        <5>5. QED
          BY <5>3, <5>4
      <4>3. k \in todo[e] \/ k = offered[e] =>
               k \in todo'[e] \/ k = offered'[e] \/ \E m \in 1 .. Len(queue'[e]) : k = queue'[e][m]
        <5>1. CASE queue'[e] = Append(queue[e], j) /\ offered'[e] = offered[e]
          <6>1. Len(queue'[e]) \in 1 .. Len(queue'[e]) /\ queue'[e][Len(queue'[e])] = j
            BY <4>1, <5>1
          <6>2. QED
            BY <4>2, <5>1, <6>1
        <5>2. CASE offered[e] = NoKey /\ offered'[e] = j /\ queue'[e] = queue[e]
          BY <4>2, <5>2
        <5>3. QED
          BY <4>2, <5>1, <5>2
      <4>4. (\E m \in 1 .. Len(queue[e]) : k = queue[e][m]) =>
               \E m \in 1 .. Len(queue'[e]) : k = queue'[e][m]
        <5>1. CASE queue'[e] = Append(queue[e], j)
          BY <4>1, <5>1
        <5>2. CASE queue'[e] = queue[e]
          BY <5>2
        <5>3. QED
          BY <4>2, <5>1, <5>2
      <4>5. InFlight(e)' = InFlight(e)
        BY <3>2 DEF InFlight, Pool
      <4>6. QED
        BY <3>2, <3>3, <4>3, <4>4, <4>5, Hands DEF InHand
    <3>4. QED
      BY <3>1, <3>2, <3>3 DEF Careful
  <2>3. QED
    BY <2>1, <2>2
<1>5. ASSUME NEW x \in Executors,
         ProduceBlocked(x)
      PROVE  Careful(e) \/ Deadly(e) \/ Careless(e) \/ StartPool(e)
  <2>1. CASE x # e
    <3>1. PoolLive(e) /\ ~shutdown[e]
      BY <1>5, <2>1 DEF ProduceBlocked
    <3>2. /\ planned'[e] = planned[e] /\ deaths' = deaths /\ todo'[e] = todo[e]
          /\ offered'[e] = offered[e] /\ queue'[e] = queue[e]
      BY <1>5, <2>1 DEF ProduceBlocked
    <3>3. \A w \in Pool(e) : /\ wpc[w] \in InCase => wpc'[w] \in InCase
                             /\ wpc[w] \in InCase => item'[w] = item[w]
      BY <1>5, <2>1 DEF Pool, InCase, ProduceBlocked
    <3>4. QED
      BY <3>1, <3>2, <3>3, HandsStill DEF Careful
  <2>2. CASE x = e
    <3>1. PoolLive(e) /\ ~shutdown[e]
      BY <1>5, <2>2 DEF ProduceBlocked
    <3>2. planned' = planned /\ deaths' = deaths /\ wpc' = wpc /\ item' = item
      BY <1>5 DEF ProduceBlocked
    <3>3. ASSUME NEW k \in Keys, k \in InHand(e) PROVE (k \in InHand(e))'
      <4>1. /\ queue[e] \in Seq(Keys \cup {Pill})
            /\ queue'[e] = Append(queue[e], offered[e]) /\ todo'[e] = todo[e]
            /\ offered[e] \in Keys
        BY <1>5, <2>2 DEF ProduceBlocked
      <4>2. \E m \in 1 .. Len(queue'[e]) : offered[e] = queue'[e][m]
        <5>1. Len(queue'[e]) \in 1 .. Len(queue'[e]) /\ queue'[e][Len(queue'[e])] = offered[e]
          BY <4>1
        <5>2. QED
          BY <5>1
      <4>3. (\E m \in 1 .. Len(queue[e]) : k = queue[e][m]) =>
               \E m \in 1 .. Len(queue'[e]) : k = queue'[e][m]
        BY <4>1
      <4>4. InFlight(e)' = InFlight(e)
        BY <3>2 DEF InFlight, Pool
      <4>5. QED
        BY <3>2, <3>3, <4>1, <4>2, <4>3, <4>4, Hands DEF InHand
    <3>4. QED
      BY <3>1, <3>2, <3>3 DEF Careful
  <2>3. QED
    BY <2>1, <2>2
<1>6. ASSUME NEW x \in Executors,
         StopProducing(x)
      PROVE  Careful(e) \/ Deadly(e) \/ Careless(e) \/ StartPool(e)
  <2>1. CASE x # e
    <3>1. PoolLive(e) /\ ~shutdown[e]
      BY <1>6, <2>1 DEF StopProducing
    <3>2. /\ planned'[e] = planned[e] /\ deaths' = deaths /\ todo'[e] = todo[e]
          /\ offered'[e] = offered[e] /\ queue'[e] = queue[e]
      BY <1>6, <2>1 DEF StopProducing
    <3>3. \A w \in Pool(e) : /\ wpc[w] \in InCase => wpc'[w] \in InCase
                             /\ wpc[w] \in InCase => item'[w] = item[w]
      BY <1>6, <2>1 DEF Pool, InCase, StopProducing
    <3>4. QED
      BY <3>1, <3>2, <3>3, HandsStill DEF Careful
  <2>2. CASE x = e
    BY <1>6, <2>2 DEF StopProducing
  <2>3. QED
    BY <2>1, <2>2
<1>7. ASSUME NEW x \in Executors,
         ProducePill(x)
      PROVE  Careful(e) \/ Deadly(e) \/ Careless(e) \/ StartPool(e)
  <2>1. CASE x # e
    <3>1. PoolLive(e) /\ ~shutdown[e]
      BY <1>7, <2>1 DEF ProducePill
    <3>2. /\ planned'[e] = planned[e] /\ deaths' = deaths /\ todo'[e] = todo[e]
          /\ offered'[e] = offered[e] /\ queue'[e] = queue[e]
      BY <1>7, <2>1 DEF ProducePill
    <3>3. \A w \in Pool(e) : /\ wpc[w] \in InCase => wpc'[w] \in InCase
                             /\ wpc[w] \in InCase => item'[w] = item[w]
      BY <1>7, <2>1 DEF Pool, InCase, ProducePill
    <3>4. QED
      BY <3>1, <3>2, <3>3, HandsStill DEF Careful
  <2>2. CASE x = e
    <3>1. PoolLive(e) /\ ~shutdown[e]
      BY <1>7, <2>2 DEF ProducePill
    <3>2. planned' = planned /\ deaths' = deaths /\ wpc' = wpc /\ item' = item
      BY <1>7 DEF ProducePill
    <3>3. ASSUME NEW k \in Keys, k \in InHand(e) PROVE (k \in InHand(e))'
      <4>1. /\ queue[e] \in Seq(Keys \cup {Pill})
            /\ queue'[e] = Append(queue[e], Pill) /\ todo'[e] = todo[e]
            /\ offered'[e] = offered[e]
        BY <1>7, <2>2 DEF ProducePill
      <4>2. (\E m \in 1 .. Len(queue[e]) : k = queue[e][m]) =>
               \E m \in 1 .. Len(queue'[e]) : k = queue'[e][m]
        BY <4>1
      <4>3. InFlight(e)' = InFlight(e)
        BY <3>2 DEF InFlight, Pool
      <4>4. QED
        BY <3>2, <3>3, <4>1, <4>2, <4>3, Hands DEF InHand
    <3>4. QED
      BY <3>1, <3>2, <3>3 DEF Careful
  <2>3. QED
    BY <2>1, <2>2
<1>8. ASSUME NEW x \in Executors,
         PoolEnds(x)
      PROVE  Careful(e) \/ Deadly(e) \/ Careless(e) \/ StartPool(e)
  <2>1. CASE x # e
    <3>1. PoolLive(e) /\ ~shutdown[e]
      BY <1>8, <2>1 DEF PoolEnds, ClearPool
    <3>2. /\ planned'[e] = planned[e] /\ deaths' = deaths /\ todo'[e] = todo[e]
          /\ offered'[e] = offered[e] /\ queue'[e] = queue[e]
      BY <1>8, <2>1 DEF PoolEnds, ClearPool
    <3>3. \A w \in Pool(e) : /\ wpc[w] \in InCase => wpc'[w] \in InCase
                             /\ wpc[w] \in InCase => item'[w] = item[w]
      BY <1>8, <2>1 DEF Pool, InCase, PoolEnds, ClearPool
    <3>4. QED
      BY <3>1, <3>2, <3>3, HandsStill DEF Careful
  <2>2. CASE x = e
    BY <1>8, <2>2 DEF PoolEnds, ClearPool
  <2>3. QED
    BY <2>1, <2>2
<1>9. ASSUME NEW x \in Executors,
         BeginDrain(x)
      PROVE  Careful(e) \/ Deadly(e) \/ Careless(e) \/ StartPool(e)
  <2>1. PoolLive(e) /\ ~shutdown[e]
    BY <1>9 DEF BeginDrain
  <2>2. /\ planned'[e] = planned[e] /\ deaths' = deaths /\ todo'[e] = todo[e]
        /\ offered'[e] = offered[e] /\ queue'[e] = queue[e]
    BY <1>9 DEF BeginDrain
  <2>3. \A w \in Pool(e) : /\ wpc[w] \in InCase => wpc'[w] \in InCase
                           /\ wpc[w] \in InCase => item'[w] = item[w]
    BY <1>9 DEF Pool, InCase, BeginDrain
  <2>4. QED
    BY <2>1, <2>2, <2>3, HandsStill DEF Careful
<1>10. ASSUME NEW x \in Executors,
         Decide(x)
      PROVE  Careful(e) \/ Deadly(e) \/ Careless(e) \/ StartPool(e)
  <2>1. PoolLive(e) /\ ~shutdown[e]
    BY <1>10 DEF Decide
  <2>2. /\ planned'[e] = planned[e] /\ deaths' = deaths /\ todo'[e] = todo[e]
        /\ offered'[e] = offered[e] /\ queue'[e] = queue[e]
    BY <1>10 DEF Decide
  <2>3. \A w \in Pool(e) : /\ wpc[w] \in InCase => wpc'[w] \in InCase
                           /\ wpc[w] \in InCase => item'[w] = item[w]
    BY <1>10 DEF Pool, InCase, Decide
  <2>4. QED
    BY <2>1, <2>2, <2>3, HandsStill DEF Careful
<1>11. ASSUME NEW x \in Executors,
         RecordStatus(x)
      PROVE  Careful(e) \/ Deadly(e) \/ Careless(e) \/ StartPool(e)
  <2>1. CASE x # e
    <3>1. PoolLive(e) /\ ~shutdown[e]
      BY <1>11, <2>1 DEF RecordStatus, Forget, ClearPool
    <3>2. /\ planned'[e] = planned[e] /\ deaths' = deaths /\ todo'[e] = todo[e]
          /\ offered'[e] = offered[e] /\ queue'[e] = queue[e]
      BY <1>11, <2>1 DEF RecordStatus, Forget, ClearPool
    <3>3. \A w \in Pool(e) : /\ wpc[w] \in InCase => wpc'[w] \in InCase
                             /\ wpc[w] \in InCase => item'[w] = item[w]
      BY <1>11, <2>1 DEF Pool, InCase, RecordStatus, Forget, ClearPool
    <3>4. QED
      BY <3>1, <3>2, <3>3, HandsStill DEF Careful
  <2>2. CASE x = e
    BY <1>11, <2>2 DEF RecordStatus, Forget, ClearPool
  <2>3. QED
    BY <2>1, <2>2
<1>12. ASSUME NEW x \in Executors,
         DrainTimeout(x)
      PROVE  Careful(e) \/ Deadly(e) \/ Careless(e) \/ StartPool(e)
  <2>1. CASE x # e
    <3>1. PoolLive(e) /\ ~shutdown[e]
      BY <1>12, <2>1 DEF DrainTimeout, ClearPool
    <3>2. /\ planned'[e] = planned[e] /\ deaths' = deaths /\ todo'[e] = todo[e]
          /\ offered'[e] = offered[e] /\ queue'[e] = queue[e]
      BY <1>12, <2>1 DEF DrainTimeout, ClearPool
    <3>3. \A w \in Pool(e) : /\ wpc[w] \in InCase => wpc'[w] \in InCase
                             /\ wpc[w] \in InCase => item'[w] = item[w]
      BY <1>12, <2>1 DEF Pool, InCase, DrainTimeout, ClearPool
    <3>4. QED
      BY <3>1, <3>2, <3>3, HandsStill DEF Careful
  <2>2. CASE x = e
    BY <1>12, <2>2 DEF DrainTimeout, ClearPool
  <2>3. QED
    BY <2>1, <2>2
<1>13. ASSUME NEW x \in Executors,
         RunDeadline(x)
      PROVE  Careful(e) \/ Deadly(e) \/ Careless(e) \/ StartPool(e)
  <2>1. CASE x # e
    <3>1. PoolLive(e) /\ ~shutdown[e]
      BY <1>13, <2>1 DEF RunDeadline, ClearPool
    <3>2. /\ planned'[e] = planned[e] /\ deaths' = deaths /\ todo'[e] = todo[e]
          /\ offered'[e] = offered[e] /\ queue'[e] = queue[e]
      BY <1>13, <2>1 DEF RunDeadline, ClearPool
    <3>3. \A w \in Pool(e) : /\ wpc[w] \in InCase => wpc'[w] \in InCase
                             /\ wpc[w] \in InCase => item'[w] = item[w]
      BY <1>13, <2>1 DEF Pool, InCase, RunDeadline, ClearPool
    <3>4. QED
      BY <3>1, <3>2, <3>3, HandsStill DEF Careful
  <2>2. CASE x = e
    BY <1>13, <2>2 DEF RunDeadline, ClearPool
  <2>3. QED
    BY <2>1, <2>2
<1>14. ASSUME NEW x \in Executors,
         Signal(x)
      PROVE  Careful(e) \/ Deadly(e) \/ Careless(e) \/ StartPool(e)
  <2>1. PoolLive(e) /\ ~shutdown[e]
    BY <1>14 DEF Signal
  <2>2. /\ planned'[e] = planned[e] /\ deaths' = deaths /\ todo'[e] = todo[e]
        /\ offered'[e] = offered[e] /\ queue'[e] = queue[e]
    BY <1>14 DEF Signal
  <2>3. \A w \in Pool(e) : /\ wpc[w] \in InCase => wpc'[w] \in InCase
                           /\ wpc[w] \in InCase => item'[w] = item[w]
    BY <1>14 DEF Pool, InCase, Signal
  <2>4. QED
    BY <2>1, <2>2, <2>3, HandsStill DEF Careful
<1>15. ASSUME NEW x \in Executors,
         RunRaises(x)
      PROVE  Careful(e) \/ Deadly(e) \/ Careless(e) \/ StartPool(e)
  <2>1. CASE x # e
    <3>1. PoolLive(e) /\ ~shutdown[e]
      BY <1>15, <2>1 DEF RunRaises, Forget, ClearPool, Fault
    <3>2. /\ planned'[e] = planned[e] /\ deaths' = deaths /\ todo'[e] = todo[e]
          /\ offered'[e] = offered[e] /\ queue'[e] = queue[e]
      BY <1>15, <2>1 DEF RunRaises, Forget, ClearPool, Fault
    <3>3. \A w \in Pool(e) : /\ wpc[w] \in InCase => wpc'[w] \in InCase
                             /\ wpc[w] \in InCase => item'[w] = item[w]
      BY <1>15, <2>1 DEF Pool, InCase, RunRaises, Forget, ClearPool, Fault
    <3>4. QED
      BY <3>1, <3>2, <3>3, HandsStill DEF Careful
  <2>2. CASE x = e
    BY <1>15, <2>2 DEF RunRaises, Forget, ClearPool, Fault
  <2>3. QED
    BY <2>1, <2>2
<1>16. ASSUME NEW x \in Executors,
         Crash(x)
      PROVE  Careful(e) \/ Deadly(e) \/ Careless(e) \/ StartPool(e)
  <2>1. CASE x # e
    <3>1. PoolLive(e) /\ ~shutdown[e]
      BY <1>16, <2>1 DEF Crash, Forget, ClearPool
    <3>2. /\ planned'[e] = planned[e] /\ deaths' = deaths /\ todo'[e] = todo[e]
          /\ offered'[e] = offered[e] /\ queue'[e] = queue[e]
      BY <1>16, <2>1 DEF Crash, Forget, ClearPool
    <3>3. \A w \in Pool(e) : /\ wpc[w] \in InCase => wpc'[w] \in InCase
                             /\ wpc[w] \in InCase => item'[w] = item[w]
      BY <1>16, <2>1 DEF Pool, InCase, Crash, Forget, ClearPool
    <3>4. QED
      BY <3>1, <3>2, <3>3, HandsStill DEF Careful
  <2>2. CASE x = e
    BY <1>16, <2>2 DEF Crash, Forget, ClearPool
  <2>3. QED
    BY <2>1, <2>2
<1>17. ASSUME NEW w \in Workers,
         TakePill(w)
      PROVE  Careful(e) \/ Deadly(e) \/ Careless(e) \/ StartPool(e)
  <2>0. w[1] \in Executors
    BY WorkerOwner
  <2>1. CASE w[1] # e
    <3>1. PoolLive(e) /\ ~shutdown[e]
      BY <1>17, <2>0, <2>1 DEF TakePill, Dequeue
    <3>2. /\ planned'[e] = planned[e] /\ deaths' = deaths /\ todo'[e] = todo[e]
          /\ offered'[e] = offered[e] /\ queue'[e] = queue[e]
      BY <1>17, <2>0, <2>1 DEF TakePill, Dequeue
    <3>3. \A v \in Pool(e) : /\ wpc[v] \in InCase => wpc'[v] \in InCase
                             /\ wpc[v] \in InCase => item'[v] = item[v]
      BY <1>17, <2>0, <2>1 DEF Pool, InCase, TakePill, Dequeue
    <3>4. QED
      BY <3>1, <3>2, <3>3, HandsStill DEF Careful
  <2>2. CASE w[1] = e
    <3>1. /\ PoolLive(e) /\ ~shutdown[e]
          /\ planned' = planned /\ deaths' = deaths /\ todo' = todo /\ offered' = offered
          /\ item' = item
      BY <1>17 DEF TakePill
    <3>2. InFlight(e) \subseteq InFlight(e)'
      BY <1>17 DEF TakePill, Dequeue, InFlight, Pool, InCase
    <3>3. Dequeue(w) /\ Head(queue[e]) = Pill
      BY <1>17, <2>2 DEF TakePill
    <3>4. ASSUME NEW k \in Keys, NEW m \in 1 .. Len(queue[e]), k = queue[e][m]
          PROVE  \E l \in 1 .. Len(queue'[e]) : k = queue'[e][l]
      <4>1. k # Head(queue[e])
        BY <3>3, <3>4
      <4>2. e = w[1] /\ queue[e][m] # Head(queue[e])
        BY <2>2, <3>4, <4>1
      <4>3. \E l \in 1 .. Len(queue'[e]) : queue[e][m] = queue'[e][l]
        <5> HIDE DEF InductiveInvariant, TypeOK, PoolLive
        <5> QED
          BY <3>3, <4>2, LaterStays
      <4>4. QED
        BY <3>4, <4>3
    <3>5. ASSUME NEW k \in Keys, k \in InHand(e) PROVE (k \in InHand(e))'
      BY <3>1, <3>2, <3>4, <3>5, Hands DEF InHand
    <3>6. QED
      BY <3>1, <3>5 DEF Careful
  <2>3. QED
    BY <2>1, <2>2
<1>18. ASSUME NEW w \in Workers,
         SkipCase(w)
      PROVE  Careful(e) \/ Deadly(e) \/ Careless(e) \/ StartPool(e)
  <2>0. w[1] \in Executors
    BY WorkerOwner
  <2>1. CASE w[1] # e
    <3>1. PoolLive(e) /\ ~shutdown[e]
      BY <1>18, <2>0, <2>1 DEF SkipCase, Dequeue
    <3>2. /\ planned'[e] = planned[e] /\ deaths' = deaths /\ todo'[e] = todo[e]
          /\ offered'[e] = offered[e] /\ queue'[e] = queue[e]
      BY <1>18, <2>0, <2>1 DEF SkipCase, Dequeue
    <3>3. \A v \in Pool(e) : /\ wpc[v] \in InCase => wpc'[v] \in InCase
                             /\ wpc[v] \in InCase => item'[v] = item[v]
      BY <1>18, <2>0, <2>1 DEF Pool, InCase, SkipCase, Dequeue
    <3>4. QED
      BY <3>1, <3>2, <3>3, HandsStill DEF Careful
  <2>2. CASE w[1] = e
    BY <1>18, <2>2 DEF SkipCase
  <2>3. QED
    BY <2>1, <2>2
<1>19. ASSUME NEW w \in Workers,
         StartCase(w)
      PROVE  Careful(e) \/ Deadly(e) \/ Careless(e) \/ StartPool(e)
  <2>0. w[1] \in Executors
    BY WorkerOwner
  <2>1. CASE w[1] # e
    <3>1. PoolLive(e) /\ ~shutdown[e]
      BY <1>19, <2>0, <2>1 DEF StartCase, Dequeue
    <3>2. /\ planned'[e] = planned[e] /\ deaths' = deaths /\ todo'[e] = todo[e]
          /\ offered'[e] = offered[e] /\ queue'[e] = queue[e]
      BY <1>19, <2>0, <2>1 DEF StartCase, Dequeue
    <3>3. \A v \in Pool(e) : /\ wpc[v] \in InCase => wpc'[v] \in InCase
                             /\ wpc[v] \in InCase => item'[v] = item[v]
      BY <1>19, <2>0, <2>1 DEF Pool, InCase, StartCase, Dequeue
    <3>4. QED
      BY <3>1, <3>2, <3>3, HandsStill DEF Careful
  <2>2. CASE w[1] = e
    <3>1. /\ PoolLive(e) /\ ~shutdown[e]
          /\ planned' = planned /\ deaths' = deaths /\ todo' = todo /\ offered' = offered
      BY <1>19 DEF StartCase
    <3>2. InFlight(e) \subseteq InFlight(e)' /\ \A v \in InFlight(e) : item'[v] = item[v]
      BY <1>19 DEF StartCase, Dequeue, InFlight, Pool, InCase
    <3>3. /\ Dequeue(w)
          /\ w \in InFlight(e)' /\ item'[w] = Head(queue[e])
      BY <1>19, <2>2 DEF StartCase, InFlight, Pool, InCase
    <3>4. ASSUME NEW k \in Keys, NEW m \in 1 .. Len(queue[e]), k = queue[e][m], k # item'[w]
          PROVE  \E l \in 1 .. Len(queue'[e]) : k = queue'[e][l]
      <4>1. k # Head(queue[e])
        BY <3>3, <3>4
      <4>2. e = w[1] /\ queue[e][m] # Head(queue[e])
        BY <2>2, <3>4, <4>1
      <4>3. \E l \in 1 .. Len(queue'[e]) : queue[e][m] = queue'[e][l]
        <5> HIDE DEF InductiveInvariant, TypeOK, PoolLive
        <5> QED
          BY <3>3, <4>2, LaterStays
      <4>4. QED
        BY <3>4, <4>3
    <3>5. ASSUME NEW k \in Keys, k \in InHand(e) PROVE (k \in InHand(e))'
      <4>1. CASE k \in todo[e] \/ k = offered[e]
        BY <3>1, <4>1 DEF InHand
      <4>2. CASE \E m \in 1 .. Len(queue[e]) : k = queue[e][m]
        <5>1. CASE k = item'[w]
          BY <3>3, <5>1 DEF InHand
        <5>2. CASE k # item'[w]
          <6>1. \E l \in 1 .. Len(queue'[e]) : k = queue'[e][l]
            BY <3>4, <4>2, <5>2
          <6>2. QED
            BY <6>1 DEF InHand
        <5>3. QED
          BY <5>1, <5>2
      <4>3. CASE \E v \in InFlight(e) : k = item[v]
        <5>1. PICK v \in InFlight(e) : k = item[v]
          BY <4>3
        <5>2. v \in InFlight(e)' /\ k = item'[v]
          BY <3>2, <5>1
        <5>3. QED
          BY <5>2 DEF InHand
      <4>4. QED
        BY <3>5, <4>1, <4>2, <4>3 DEF InHand
    <3>6. QED
      BY <3>1, <3>5 DEF Careful
  <2>3. QED
    BY <2>1, <2>2
<1>20. ASSUME NEW w \in Workers,
         CacheHit(w)
      PROVE  Careful(e) \/ Deadly(e) \/ Careless(e) \/ StartPool(e)
  <2>1. PoolLive(e) /\ ~shutdown[e]
    BY <1>20 DEF CacheHit
  <2>2. /\ planned'[e] = planned[e] /\ deaths' = deaths /\ todo'[e] = todo[e]
        /\ offered'[e] = offered[e] /\ queue'[e] = queue[e]
    BY <1>20 DEF CacheHit
  <2>3. \A v \in Pool(e) : /\ wpc[v] \in InCase => wpc'[v] \in InCase
                           /\ wpc[v] \in InCase => item'[v] = item[v]
    BY <1>20 DEF Pool, InCase, CacheHit
  <2>4. QED
    BY <2>1, <2>2, <2>3, HandsStill DEF Careful
<1>21. ASSUME NEW w \in Workers,
         CacheMiss(w)
      PROVE  Careful(e) \/ Deadly(e) \/ Careless(e) \/ StartPool(e)
  <2>1. PoolLive(e) /\ ~shutdown[e]
    BY <1>21 DEF CacheMiss
  <2>2. /\ planned'[e] = planned[e] /\ deaths' = deaths /\ todo'[e] = todo[e]
        /\ offered'[e] = offered[e] /\ queue'[e] = queue[e]
    BY <1>21 DEF CacheMiss
  <2>3. \A v \in Pool(e) : /\ wpc[v] \in InCase => wpc'[v] \in InCase
                           /\ wpc[v] \in InCase => item'[v] = item[v]
    BY <1>21 DEF Pool, InCase, CacheMiss
  <2>4. QED
    BY <2>1, <2>2, <2>3, HandsStill DEF Careful
<1>22. ASSUME NEW w \in Workers, NEW t \in Texts,
         ProviderAnswers(w, t)
      PROVE  Careful(e) \/ Deadly(e) \/ Careless(e) \/ StartPool(e)
  <2>1. PoolLive(e) /\ ~shutdown[e]
    BY <1>22 DEF ProviderAnswers
  <2>2. /\ planned'[e] = planned[e] /\ deaths' = deaths /\ todo'[e] = todo[e]
        /\ offered'[e] = offered[e] /\ queue'[e] = queue[e]
    BY <1>22 DEF ProviderAnswers
  <2>3. \A v \in Pool(e) : /\ wpc[v] \in InCase => wpc'[v] \in InCase
                           /\ wpc[v] \in InCase => item'[v] = item[v]
    BY <1>22 DEF Pool, InCase, ProviderAnswers
  <2>4. QED
    BY <2>1, <2>2, <2>3, HandsStill DEF Careful
<1>23. ASSUME NEW w \in Workers, NEW k \in {"harness_error", "harness_timeout"},
         ProviderFails(w, k)
      PROVE  Careful(e) \/ Deadly(e) \/ Careless(e) \/ StartPool(e)
  <2>1. PoolLive(e) /\ ~shutdown[e]
    BY <1>23 DEF ProviderFails
  <2>2. /\ planned'[e] = planned[e] /\ deaths' = deaths /\ todo'[e] = todo[e]
        /\ offered'[e] = offered[e] /\ queue'[e] = queue[e]
    BY <1>23 DEF ProviderFails
  <2>3. \A v \in Pool(e) : /\ wpc[v] \in InCase => wpc'[v] \in InCase
                           /\ wpc[v] \in InCase => item'[v] = item[v]
    BY <1>23 DEF Pool, InCase, ProviderFails
  <2>4. QED
    BY <2>1, <2>2, <2>3, HandsStill DEF Careful
<1>24. ASSUME NEW w \in Workers,
         StoreResponse(w)
      PROVE  Careful(e) \/ Deadly(e) \/ Careless(e) \/ StartPool(e)
  <2>1. PoolLive(e) /\ ~shutdown[e]
    BY <1>24 DEF StoreResponse
  <2>2. /\ planned'[e] = planned[e] /\ deaths' = deaths /\ todo'[e] = todo[e]
        /\ offered'[e] = offered[e] /\ queue'[e] = queue[e]
    BY <1>24 DEF StoreResponse
  <2>3. \A v \in Pool(e) : /\ wpc[v] \in InCase => wpc'[v] \in InCase
                           /\ wpc[v] \in InCase => item'[v] = item[v]
    BY <1>24 DEF Pool, InCase, StoreResponse
  <2>4. QED
    BY <2>1, <2>2, <2>3, HandsStill DEF Careful
<1>25. ASSUME NEW w \in Workers,
         Persist(w)
      PROVE  Careful(e) \/ Deadly(e) \/ Careless(e) \/ StartPool(e)
  <2>0. w[1] \in Executors
    BY WorkerOwner
  <2>1. CASE w[1] # e
    <3>1. PoolLive(e) /\ ~shutdown[e]
      BY <1>25, <2>0, <2>1 DEF Persist, CaseEnds
    <3>2. /\ planned'[e] = planned[e] /\ deaths' = deaths /\ todo'[e] = todo[e]
          /\ offered'[e] = offered[e] /\ queue'[e] = queue[e]
      BY <1>25, <2>0, <2>1 DEF Persist, CaseEnds
    <3>3. \A v \in Pool(e) : /\ wpc[v] \in InCase => wpc'[v] \in InCase
                             /\ wpc[v] \in InCase => item'[v] = item[v]
      BY <1>25, <2>0, <2>1 DEF Pool, InCase, Persist, CaseEnds
    <3>4. QED
      BY <3>1, <3>2, <3>3, HandsStill DEF Careful
  <2>2. CASE w[1] = e
    <3>1. /\ PoolLive(e) /\ ~shutdown[e]
          /\ planned' = planned /\ deaths' = deaths /\ todo' = todo /\ offered' = offered
          /\ queue' = queue
          /\ \A v \in Pool(e) \ {w} : wpc'[v] = wpc[v] /\ item'[v] = item[v]
      BY <1>25 DEF Persist, CaseEnds, Pool
    <3>2. rows'[item[w]] # NoRow
      <4>1. item[w] \in Keys
        BY <1>25, CaseFacts DEF Persist, InCase
      <4>2. result[w] # NoRow
        BY <1>25 DEF Persist, WorkersOk
      <4>3. QED
        BY <1>25, <4>1, <4>2 DEF Persist, SaveGeneration
    <3>3. ASSUME NEW k \in Keys, k \in InHand(e), rows'[k] = NoRow PROVE (k \in InHand(e))'
      <4>1. ASSUME NEW v \in InFlight(e), k = item[v]
            PROVE  \E u \in InFlight(e)' : k = item'[u]
        BY <3>1, <3>2, <3>3, <4>1 DEF InFlight, Pool
      <4>2. QED
        BY <3>1, <3>3, <4>1, Hands DEF InHand
    <3>4. QED
      BY <3>1, <3>3 DEF Careful
  <2>3. QED
    BY <2>1, <2>2
<1>26. ASSUME NEW w \in Workers,
         CaseRaises(w)
      PROVE  Careful(e) \/ Deadly(e) \/ Careless(e) \/ StartPool(e)
  <2>1. PoolLive(e) /\ ~shutdown[e]
    BY <1>26 DEF CaseRaises, Fault
  <2>2. /\ planned'[e] = planned[e] /\ deaths' = deaths /\ todo'[e] = todo[e]
        /\ offered'[e] = offered[e] /\ queue'[e] = queue[e]
    BY <1>26 DEF CaseRaises, Fault
  <2>3. \A v \in Pool(e) : /\ wpc[v] \in InCase => wpc'[v] \in InCase
                           /\ wpc[v] \in InCase => item'[v] = item[v]
    BY <1>26 DEF Pool, InCase, CaseRaises, Fault
  <2>4. QED
    BY <2>1, <2>2, <2>3, HandsStill DEF Careful
<1>27. ASSUME NEW w \in Workers,
         TerminalRaises(w)
      PROVE  Careful(e) \/ Deadly(e) \/ Careless(e) \/ StartPool(e)
  <2>1. /\ PoolLive(e) /\ ~shutdown[e]
        /\ planned' = planned /\ deaths' = deaths /\ todo' = todo /\ offered' = offered
        /\ queue' = queue
        /\ \A v \in Pool(e) \ {w} : wpc'[v] = wpc[v] /\ item'[v] = item[v]
    BY <1>27 DEF TerminalRaises, CaseEnds, Fault, Pool
  <2>2. ASSUME NEW k \in Keys, k \in InHand(e), w \in Pool(e) => k # item[w]
        PROVE  (k \in InHand(e))'
    <3>1. ASSUME NEW v \in InFlight(e), k = item[v]
          PROVE  \E u \in InFlight(e)' : k = item'[u]
      BY <2>1, <2>2, <3>1 DEF InFlight, Pool
    <3>2. QED
      BY <2>1, <2>2, <3>1, Hands DEF InHand
  <2>3. CASE w \in Pool(e)
    BY <1>27, <2>1, <2>2, <2>3 DEF Careless, AllBut
  <2>4. CASE w \notin Pool(e)
    BY <2>1, <2>2, <2>4 DEF Careful
  <2>5. QED
    BY <2>3, <2>4
<1>28. ASSUME NEW w \in Workers,
         WorkerDies(w)
      PROVE  Careful(e) \/ Deadly(e) \/ Careless(e) \/ StartPool(e)
  <2>1. /\ PoolLive(e) /\ ~shutdown[e]
        /\ planned' = planned /\ deaths' = deaths + 1 /\ todo' = todo /\ offered' = offered
        /\ queue' = queue
        /\ \A v \in Pool(e) \ {w} : wpc'[v] = wpc[v] /\ item'[v] = item[v]
    BY <1>28 DEF WorkerDies, Pool
  <2>2. ASSUME NEW k \in Keys \ {item[w]}, k \in InHand(e) PROVE (k \in InHand(e))'
    <3>1. ASSUME NEW v \in InFlight(e), k = item[v]
          PROVE  \E u \in InFlight(e)' : k = item'[u]
      BY <2>1, <2>2, <3>1 DEF InFlight, Pool
    <3>2. QED
      BY <2>1, <2>2, <3>1, Hands DEF InHand
  <2>3. QED
    BY <2>1, <2>2 DEF Deadly, AllBut
<1>29. CASE UNCHANGED vars
  <2>1. PoolLive(e) /\ ~shutdown[e]
    BY <1>29 DEF vars
  <2>2. /\ planned'[e] = planned[e] /\ deaths' = deaths /\ todo'[e] = todo[e]
        /\ offered'[e] = offered[e] /\ queue'[e] = queue[e]
    BY <1>29 DEF vars
  <2>3. \A w \in Pool(e) : /\ wpc[w] \in InCase => wpc'[w] \in InCase
                           /\ wpc[w] \in InCase => item'[w] = item[w]
    BY <1>29 DEF Pool, InCase, vars
  <2>4. QED
    BY <2>1, <2>2, <2>3, HandsStill DEF Careful
<1> HIDE DEF InductiveInvariant, TypeOK, PoolLive,
           store, driver, producer, workers, bounds
<1> QED
  BY <1>1, <1>2, <1>3, <1>4, <1>5, <1>6, <1>7, <1>8, <1>9, <1>10, <1>11,
     <1>12, <1>13, <1>14, <1>15, <1>16, <1>17, <1>18, <1>19, <1>20, <1>21,
     <1>22, <1>23, <1>24, <1>25, <1>26, <1>27, <1>28, <1>29
  DEF Next, ProducerStep, DriverQuery, LoopStep, Timer, WorkerStep, CaseStep, WorkerFault

\* Only a case that raises becomes a terminal failure.
LEMMA TerminalComesFrom ==
    ASSUME InductiveInvariant, [Next]_vars, NEW v \in Workers, wpc'[v] = "terminal"
    PROVE  wpc[v] = "terminal" \/ CaseRaises(v)
<1> USE DEF InductiveInvariant, TypeOK,
           store, driver, producer, workers, bounds
<1>1. ASSUME NEW x \in Executors, NEW i \in Inputs,
         CreateRun(x, i)
      PROVE  wpc[v] = "terminal" \/ CaseRaises(v)
  BY <1>1 DEF CreateRun, Begin
<1>2. ASSUME NEW x \in Executors, NEW i \in Inputs,
         ResumeRun(x, i)
      PROVE  wpc[v] = "terminal" \/ CaseRaises(v)
  BY <1>2 DEF ResumeRun, Begin
<1>3. ASSUME NEW x \in Executors,
         StartPool(x)
      PROVE  wpc[v] = "terminal" \/ CaseRaises(v)
  BY <1>3 DEF StartPool
<1>4. ASSUME NEW x \in Executors,
         Produce(x)
      PROVE  wpc[v] = "terminal" \/ CaseRaises(v)
  BY <1>4 DEF Produce
<1>5. ASSUME NEW x \in Executors,
         ProduceBlocked(x)
      PROVE  wpc[v] = "terminal" \/ CaseRaises(v)
  BY <1>5 DEF ProduceBlocked
<1>6. ASSUME NEW x \in Executors,
         StopProducing(x)
      PROVE  wpc[v] = "terminal" \/ CaseRaises(v)
  BY <1>6 DEF StopProducing
<1>7. ASSUME NEW x \in Executors,
         ProducePill(x)
      PROVE  wpc[v] = "terminal" \/ CaseRaises(v)
  BY <1>7 DEF ProducePill
<1>8. ASSUME NEW x \in Executors,
         PoolEnds(x)
      PROVE  wpc[v] = "terminal" \/ CaseRaises(v)
  BY <1>8 DEF PoolEnds, ClearPool
<1>9. ASSUME NEW x \in Executors,
         BeginDrain(x)
      PROVE  wpc[v] = "terminal" \/ CaseRaises(v)
  BY <1>9 DEF BeginDrain
<1>10. ASSUME NEW x \in Executors,
         Decide(x)
      PROVE  wpc[v] = "terminal" \/ CaseRaises(v)
  BY <1>10 DEF Decide
<1>11. ASSUME NEW x \in Executors,
         RecordStatus(x)
      PROVE  wpc[v] = "terminal" \/ CaseRaises(v)
  BY <1>11 DEF RecordStatus, Forget, ClearPool
<1>12. ASSUME NEW x \in Executors,
         DrainTimeout(x)
      PROVE  wpc[v] = "terminal" \/ CaseRaises(v)
  BY <1>12 DEF DrainTimeout, ClearPool
<1>13. ASSUME NEW x \in Executors,
         RunDeadline(x)
      PROVE  wpc[v] = "terminal" \/ CaseRaises(v)
  BY <1>13 DEF RunDeadline, ClearPool
<1>14. ASSUME NEW x \in Executors,
         Signal(x)
      PROVE  wpc[v] = "terminal" \/ CaseRaises(v)
  BY <1>14 DEF Signal
<1>15. ASSUME NEW x \in Executors,
         RunRaises(x)
      PROVE  wpc[v] = "terminal" \/ CaseRaises(v)
  BY <1>15 DEF RunRaises, Forget, ClearPool, Fault
<1>16. ASSUME NEW x \in Executors,
         Crash(x)
      PROVE  wpc[v] = "terminal" \/ CaseRaises(v)
  BY <1>16 DEF Crash, Forget, ClearPool
<1>17. ASSUME NEW w \in Workers,
         TakePill(w)
      PROVE  wpc[v] = "terminal" \/ CaseRaises(v)
  BY <1>17 DEF TakePill, Dequeue
<1>18. ASSUME NEW w \in Workers,
         SkipCase(w)
      PROVE  wpc[v] = "terminal" \/ CaseRaises(v)
  BY <1>18 DEF SkipCase, Dequeue
<1>19. ASSUME NEW w \in Workers,
         StartCase(w)
      PROVE  wpc[v] = "terminal" \/ CaseRaises(v)
  BY <1>19 DEF StartCase, Dequeue
<1>20. ASSUME NEW w \in Workers,
         CacheHit(w)
      PROVE  wpc[v] = "terminal" \/ CaseRaises(v)
  BY <1>20 DEF CacheHit
<1>21. ASSUME NEW w \in Workers,
         CacheMiss(w)
      PROVE  wpc[v] = "terminal" \/ CaseRaises(v)
  BY <1>21 DEF CacheMiss
<1>22. ASSUME NEW w \in Workers, NEW t \in Texts,
         ProviderAnswers(w, t)
      PROVE  wpc[v] = "terminal" \/ CaseRaises(v)
  BY <1>22 DEF ProviderAnswers
<1>23. ASSUME NEW w \in Workers, NEW k \in {"harness_error", "harness_timeout"},
         ProviderFails(w, k)
      PROVE  wpc[v] = "terminal" \/ CaseRaises(v)
  BY <1>23 DEF ProviderFails
<1>24. ASSUME NEW w \in Workers,
         StoreResponse(w)
      PROVE  wpc[v] = "terminal" \/ CaseRaises(v)
  BY <1>24 DEF StoreResponse
<1>25. ASSUME NEW w \in Workers,
         Persist(w)
      PROVE  wpc[v] = "terminal" \/ CaseRaises(v)
  BY <1>25 DEF Persist, CaseEnds
<1>26. ASSUME NEW w \in Workers,
         CaseRaises(w)
      PROVE  wpc[v] = "terminal" \/ CaseRaises(v)
  BY <1>26 DEF CaseRaises, Fault
<1>27. ASSUME NEW w \in Workers,
         TerminalRaises(w)
      PROVE  wpc[v] = "terminal" \/ CaseRaises(v)
  BY <1>27 DEF TerminalRaises, CaseEnds, Fault
<1>28. ASSUME NEW w \in Workers,
         WorkerDies(w)
      PROVE  wpc[v] = "terminal" \/ CaseRaises(v)
  BY <1>28 DEF WorkerDies
<1>29. CASE UNCHANGED vars
  BY <1>29 DEF vars
<1> HIDE DEF InductiveInvariant, TypeOK,
           store, driver, producer, workers, bounds
<1> QED
  BY <1>1, <1>2, <1>3, <1>4, <1>5, <1>6, <1>7, <1>8, <1>9, <1>10, <1>11,
     <1>12, <1>13, <1>14, <1>15, <1>16, <1>17, <1>18, <1>19, <1>20, <1>21,
     <1>22, <1>23, <1>24, <1>25, <1>26, <1>27, <1>28, <1>29
  DEF Next, ProducerStep, DriverQuery, LoopStep, Timer, WorkerStep, CaseStep, WorkerFault

\* Each operation that raises is counted once.
LEMMA FaultsGrow ==
    ASSUME InductiveInvariant, [Next]_vars
    PROVE  faults' \in {faults, faults + 1}
<1>1. ASSUME NEW x \in Executors, RunRaises(x) PROVE faults' = faults + 1
  BY <1>1 DEF RunRaises, Fault
<1>2. ASSUME NEW w \in Workers, CaseRaises(w) \/ TerminalRaises(w) PROVE faults' = faults + 1
  BY <1>2 DEF CaseRaises, TerminalRaises, Fault
<1>3. ASSUME NEW w \in Workers, WorkerStep(w) \/ WorkerDies(w) PROVE faults' = faults
  BY <1>3 DEF WorkerStep, TakePill, SkipCase, StartCase, CaseStep, CacheHit, CacheMiss,
     ProviderAnswers, ProviderFails, StoreResponse, Persist, WorkerDies, bounds
<1>4. ASSUME NEW x \in Executors,
             ProducerStep(x) \/ DriverQuery(x) \/ LoopStep(x) \/ Timer(x) \/ Signal(x) \/ Crash(x)
      PROVE  faults' = faults
  BY <1>4 DEF ProducerStep, Produce, ProduceBlocked, StopProducing, ProducePill,
     DriverQuery, LoopStep, StartPool, PoolEnds, BeginDrain, Decide, RecordStatus,
     Timer, DrainTimeout, RunDeadline, Signal, Crash, bounds
<1>5. ASSUME NEW x \in Executors, NEW i \in Inputs, CreateRun(x, i) \/ ResumeRun(x, i)
      PROVE  faults' = faults
  BY <1>5 DEF CreateRun, ResumeRun, Begin
<1>6. CASE UNCHANGED vars
  BY <1>6 DEF vars, bounds
<1>7. QED
  BY <1>1, <1>2, <1>3, <1>4, <1>5, <1>6 DEF Next, WorkerFault

\* What is without a row and in nobody's hands after a step was without a row
\* before.
LEMMA LostBefore ==
    ASSUME InductiveInvariant, [Next]_vars, NEW e \in Executors,
           planned'[e] = planned[e], NEW k, k \in Lost(e)'
    PROVE  /\ k \in Keys /\ k \in Unwritten(e) /\ rows'[k] = NoRow
           /\ k \notin InHand(e)'
<1>1. k \in planned[e] /\ rows'[k] = NoRow /\ ~(k \in InHand(e))'
  BY DEF Lost, Unwritten
<1>2. k \in Keys
  BY <1>1 DEF InductiveInvariant, TypeOK
<1>3. rows[k] = NoRow
  BY <1>1, <1>2, StoreStep, RowsKept
<1>4. QED
  BY <1>1, <1>2, <1>3 DEF Unwritten

\* A set grows by at most one when something is added.
LEMMA OneMore ==
    ASSUME NEW S, IsFiniteSet(S), NEW x
    PROVE  /\ IsFiniteSet(S \cup {x})
           /\ Cardinality(S) \in Nat /\ Cardinality(S \cup {x}) \in Nat
           /\ Cardinality(S \cup {x}) <= Cardinality(S) + 1
<1>1. Cardinality(S) \in Nat
  BY FS_CardinalityType
<1>2. IsFiniteSet(S \cup {x})
  BY FS_AddElement
<1>3. Cardinality(S \cup {x}) = IF x \in S THEN Cardinality(S) ELSE Cardinality(S) + 1
  BY FS_AddElement
<1>4. QED
  BY <1>1, <1>2, <1>3

\* A step that keeps all keys but those of w loses at most one.
LEMMA OneIsLost ==
    ASSUME InductiveInvariant, [Next]_vars, NEW e \in Executors, NEW w, AllBut(e, w),
           IsFiniteSet(Lost(e))
    PROVE  /\ IsFiniteSet(Lost(e)')
           /\ Cardinality(Lost(e)') <= Cardinality(Lost(e)) + 1
<1>1. Lost(e)' \subseteq Lost(e) \cup {item[w]}
  <2>1. ASSUME NEW k, k \in Lost(e)', k # item[w] PROVE k \in Lost(e)
    <3>1. k \in Keys /\ k \in Unwritten(e) /\ rows'[k] = NoRow /\ k \notin InHand(e)'
      BY <2>1, LostBefore DEF AllBut
    <3>2. k \notin InHand(e)
      BY <2>1, <3>1 DEF AllBut
    <3>3. QED
      BY <3>1, <3>2 DEF Lost
  <2>2. QED
    BY <2>1
<1> DEFINE S == Lost(e) \cup {item[w]}
<1>2. /\ IsFiniteSet(S) /\ Cardinality(S) \in Nat /\ Cardinality(Lost(e)) \in Nat
      /\ Cardinality(S) <= Cardinality(Lost(e)) + 1
  BY OneMore
<1>3. IsFiniteSet(Lost(e)') /\ Cardinality(Lost(e)') <= Cardinality(S)
  BY <1>1, <1>2, FS_Subset
<1>4. Cardinality(Lost(e)') \in Nat
  BY <1>3, FS_CardinalityType
<1> HIDE DEF S
<1>5. QED
  BY <1>2, <1>3, <1>4

\* Who has a failure to save is one of finitely many, and every operation that
\* raises makes at most one more.
LEMMA SavingSize ==
    ASSUME NEW e \in Executors
    PROVE  /\ IsFiniteSet(Saving(e)) /\ Cardinality(Saving(e)) \in Nat
           /\ IsFiniteSet(Saving(e)') /\ Cardinality(Saving(e)') \in Nat
<1>1. Saving(e) \subseteq Pool(e) /\ Saving(e)' \subseteq Pool(e)
  BY DEF Saving, Pool
<1>2. QED
  BY <1>1, PoolSize, FS_Subset, FS_CardinalityType

LEMMA SavingGrows ==
    ASSUME InductiveInvariant, [Next]_vars, NEW e \in Executors
    PROVE  Cardinality(Saving(e)') + faults <= Cardinality(Saving(e)) + faults'
<1>0. faults \in Nat /\ faults' \in {faults, faults + 1}
  BY FaultsGrow DEF InductiveInvariant, TypeOK
<1>1. CASE Saving(e)' \subseteq Saving(e)
  <2>1. Cardinality(Saving(e)') <= Cardinality(Saving(e))
    BY <1>1, SavingSize, FS_Subset
  <2>2. QED
    BY <1>0, <2>1, SavingSize
<1>2. ASSUME NEW v \in Workers, CaseRaises(v)
      PROVE  Cardinality(Saving(e)') + faults <= Cardinality(Saving(e)) + faults'
  <2>1. faults' = faults + 1 /\ wpc' = [wpc EXCEPT ![v] = "terminal"]
    BY <1>2 DEF CaseRaises, Fault
  <2>2. Saving(e)' \subseteq Saving(e) \cup {v}
    BY <2>1 DEF Saving, Pool, InductiveInvariant, TypeOK
  <2>3. /\ IsFiniteSet(Saving(e) \cup {v})
        /\ Cardinality(Saving(e) \cup {v}) \in Nat
        /\ Cardinality(Saving(e) \cup {v}) <= Cardinality(Saving(e)) + 1
    BY SavingSize, OneMore
  <2>4. Cardinality(Saving(e)') <= Cardinality(Saving(e) \cup {v})
    BY <2>2, <2>3, FS_Subset
  <2>5. QED
    BY <1>0, <2>1, <2>3, <2>4, SavingSize
<1>3. QED
  BY <1>1, <1>2, TerminalComesFrom DEF Saving, Pool

\* Every step keeps the keys a pool lost as few as its dead workers and the
\* pairs of operations that raised.
LEMMA LossStep ==
    ASSUME InductiveInvariant, LossOk, [Next]_vars
    PROVE  LossOk'
<1> SUFFICES ASSUME NEW e \in Executors, PoolLive(e)', ~shutdown'[e]
             PROVE  /\ IsFiniteSet(Lost(e)')
                    /\ 2 * Cardinality(Lost(e)') + Cardinality(Saving(e)')
                         <= 2 * deaths' + faults'
  BY DEF LossOk
<1> DEFINE T == Cardinality(Saving(e))
           T2 == Cardinality(Saving(e)')
           L == Cardinality(Lost(e))
           L2 == Cardinality(Lost(e)')
<1>0. /\ deaths \in Nat /\ faults \in Nat /\ faults' \in {faults, faults + 1}
      /\ T \in Nat /\ T2 \in Nat /\ T2 + faults <= T + faults'
  BY FaultsGrow, SavingSize, SavingGrows DEF InductiveInvariant, TypeOK
<1>1. ASSUME PoolLive(e), ~shutdown[e]
      PROVE  IsFiniteSet(Lost(e)) /\ L \in Nat /\ 2 * L + T <= 2 * deaths + faults
  BY <1>1, FS_CardinalityType DEF LossOk
<1>2. CASE StartPool(e)
  <2>1. planned'[e] = Owed /\ todo'[e] = Owed /\ deaths' = deaths /\ faults' = faults
    BY <1>2 DEF StartPool, InductiveInvariant, TypeOK, bounds
  <2>2. Lost(e)' = {}
    BY <2>1 DEF Lost, Unwritten, InHand
  <2>3. Saving(e)' = {}
    BY <1>2 DEF StartPool, Saving, Pool, InductiveInvariant, TypeOK
  <2>4. QED
    BY <1>0, <2>1, <2>2, <2>3, FS_EmptySet
<1>3. CASE Careful(e)
  <2>1. PoolLive(e) /\ ~shutdown[e] /\ deaths' = deaths
    BY <1>3 DEF Careful
  <2>2. Lost(e)' \subseteq Lost(e)
    <3>1. ASSUME NEW k, k \in Lost(e)' PROVE k \in Lost(e)
      <4>1. k \in Keys /\ k \in Unwritten(e) /\ rows'[k] = NoRow /\ k \notin InHand(e)'
        BY <1>3, <3>1, LostBefore DEF Careful
      <4>2. k \notin InHand(e)
        BY <1>3, <4>1 DEF Careful
      <4>3. QED
        BY <4>1, <4>2 DEF Lost
    <3>2. QED
      BY <3>1
  <2>3. IsFiniteSet(Lost(e)') /\ L2 \in Nat /\ L2 <= L
    BY <1>1, <2>1, <2>2, FS_Subset, FS_CardinalityType
  <2>4. QED
    BY <1>0, <1>1, <2>1, <2>3
<1>4. CASE Deadly(e)
  <2>1. PICK w \in Workers : AllBut(e, w)
    BY <1>4 DEF Deadly
  <2>2. PoolLive(e) /\ ~shutdown[e] /\ deaths' = deaths + 1
    BY <1>4, <2>1 DEF Deadly, AllBut
  <2>3. IsFiniteSet(Lost(e)') /\ L2 \in Nat /\ L2 <= L + 1
    BY <1>1, <2>1, <2>2, OneIsLost, FS_CardinalityType
  <2>4. QED
    BY <1>0, <1>1, <2>2, <2>3
<1>5. CASE Careless(e)
  <2>1. PICK w \in Pool(e) : TerminalRaises(w) /\ AllBut(e, w)
    BY <1>5 DEF Careless
  <2>2. PoolLive(e) /\ ~shutdown[e] /\ deaths' = deaths
    BY <1>5, <2>1 DEF Careless, AllBut
  <2>3. IsFiniteSet(Lost(e)') /\ L2 \in Nat /\ L2 <= L + 1
    BY <1>1, <2>1, <2>2, OneIsLost, FS_CardinalityType
  <2>4. faults' = faults + 1 /\ w \in Saving(e) /\ Saving(e)' = Saving(e) \ {w}
    BY <2>1 DEF TerminalRaises, CaseEnds, Fault, Saving, Pool, InductiveInvariant, TypeOK
  <2>5. T2 = T - 1
    BY <2>4, SavingSize, FS_RemoveElement
  <2>6. QED
    BY <1>0, <1>1, <2>2, <2>3, <2>4, <2>5
<1>6. QED
  BY <1>2, <1>3, <1>4, <1>5, HandsStep

\* When its tasks are done, a pool with a worker left has nothing in hand.
LEMMA HandsEmpty ==
    ASSUME InductiveInvariant, MarkersOk, NEW e \in Executors,
           PoolLive(e), PipelineDone(e), \E w \in Pool(e) : wpc[w] = "done"
    PROVE  InHand(e) \cap Keys = {}
<1>1. Markers(e) /\ Done(e) # {} /\ queue[e] \in Seq(Keys \cup {Pill})
  BY DEF MarkersOk, Markers, Done, InductiveInvariant, TypeOK
<1>2. PICK c \in 0 .. WorkerCount : MarkersInQueue(e, c) /\ c = Len(queue[e])
  BY <1>1 DEF Markers
<1>3. \A n \in 1 .. Len(queue[e]) : queue[e][n] = Pill
  BY <1>1, <1>2 DEF MarkersInQueue
<1>4. InFlight(e) = {}
  BY DEF PipelineDone, InFlight, InCase
<1>5. QED
  BY <1>3, <1>4 DEF InHand, PipelineDone

\* So what it has not written is what it lost.
LEMMA OnlyTheDeadLose ==
    ASSUME InductiveInvariant, PoolInvariant
    PROVE  NothingPlannedIsLost
<1> SUFFICES ASSUME NEW e \in Executors, PoolLive(e), PipelineDone(e), ~shutdown[e],
                    \E w \in Pool(e) : wpc[w] = "done"
             PROVE  2 * Cardinality(Unwritten(e)) <= 2 * deaths + faults
  BY DEF NothingPlannedIsLost
<1>1. InHand(e) \cap Keys = {}
  BY HandsEmpty DEF PoolInvariant
<1>2. Unwritten(e) \subseteq Keys
  BY DEF Unwritten, InductiveInvariant, TypeOK
<1>3. Unwritten(e) = Lost(e)
  BY <1>1, <1>2 DEF Lost
<1>4. /\ IsFiniteSet(Lost(e))
      /\ 2 * Cardinality(Lost(e)) + Cardinality(Saving(e)) <= 2 * deaths + faults
  BY DEF PoolInvariant, LossOk
<1>5. Cardinality(Lost(e)) \in Nat /\ deaths \in Nat /\ faults \in Nat
  BY <1>4, FS_CardinalityType DEF InductiveInvariant, TypeOK
<1>6. QED
  BY <1>3, <1>4, <1>5, SavingSize

\* No pool, no markers; no worker, no failure.
LEMMA PoolInit == Init => PoolInvariant
BY DEF Init, PoolInvariant, MarkersOk, LossOk, PoolLive

\* Only a worker that checked for a shutdown goes into a case.
LEMMA StartsAreAsked ==
    ASSUME InductiveInvariant, [Next]_vars, NEW v \in Workers, wpc'[v] \in InCase, shutdown[v[1]]
    PROVE  wpc[v] \in InCase
<1> USE DEF InductiveInvariant, TypeOK, InCase,
           store, driver, producer, workers, bounds
<1>1. ASSUME NEW x \in Executors, NEW i \in Inputs,
         CreateRun(x, i)
      PROVE  wpc[v] \in InCase
  BY <1>1 DEF CreateRun, Begin
<1>2. ASSUME NEW x \in Executors, NEW i \in Inputs,
         ResumeRun(x, i)
      PROVE  wpc[v] \in InCase
  BY <1>2 DEF ResumeRun, Begin
<1>3. ASSUME NEW x \in Executors,
         StartPool(x)
      PROVE  wpc[v] \in InCase
  BY <1>3 DEF StartPool
<1>4. ASSUME NEW x \in Executors,
         Produce(x)
      PROVE  wpc[v] \in InCase
  BY <1>4 DEF Produce
<1>5. ASSUME NEW x \in Executors,
         ProduceBlocked(x)
      PROVE  wpc[v] \in InCase
  BY <1>5 DEF ProduceBlocked
<1>6. ASSUME NEW x \in Executors,
         StopProducing(x)
      PROVE  wpc[v] \in InCase
  BY <1>6 DEF StopProducing
<1>7. ASSUME NEW x \in Executors,
         ProducePill(x)
      PROVE  wpc[v] \in InCase
  BY <1>7 DEF ProducePill
<1>8. ASSUME NEW x \in Executors,
         PoolEnds(x)
      PROVE  wpc[v] \in InCase
  BY <1>8 DEF PoolEnds, ClearPool
<1>9. ASSUME NEW x \in Executors,
         BeginDrain(x)
      PROVE  wpc[v] \in InCase
  BY <1>9 DEF BeginDrain
<1>10. ASSUME NEW x \in Executors,
         Decide(x)
      PROVE  wpc[v] \in InCase
  BY <1>10 DEF Decide
<1>11. ASSUME NEW x \in Executors,
         RecordStatus(x)
      PROVE  wpc[v] \in InCase
  BY <1>11 DEF RecordStatus, Forget, ClearPool
<1>12. ASSUME NEW x \in Executors,
         DrainTimeout(x)
      PROVE  wpc[v] \in InCase
  BY <1>12 DEF DrainTimeout, ClearPool
<1>13. ASSUME NEW x \in Executors,
         RunDeadline(x)
      PROVE  wpc[v] \in InCase
  BY <1>13 DEF RunDeadline, ClearPool
<1>14. ASSUME NEW x \in Executors,
         Signal(x)
      PROVE  wpc[v] \in InCase
  BY <1>14 DEF Signal
<1>15. ASSUME NEW x \in Executors,
         RunRaises(x)
      PROVE  wpc[v] \in InCase
  BY <1>15 DEF RunRaises, Forget, ClearPool, Fault
<1>16. ASSUME NEW x \in Executors,
         Crash(x)
      PROVE  wpc[v] \in InCase
  BY <1>16 DEF Crash, Forget, ClearPool
<1>17. ASSUME NEW w \in Workers,
         TakePill(w)
      PROVE  wpc[v] \in InCase
  BY <1>17 DEF TakePill, Dequeue
<1>18. ASSUME NEW w \in Workers,
         SkipCase(w)
      PROVE  wpc[v] \in InCase
  BY <1>18 DEF SkipCase, Dequeue
<1>19. ASSUME NEW w \in Workers,
         StartCase(w)
      PROVE  wpc[v] \in InCase
  BY <1>19 DEF StartCase, Dequeue
<1>20. ASSUME NEW w \in Workers,
         CacheHit(w)
      PROVE  wpc[v] \in InCase
  BY <1>20 DEF CacheHit
<1>21. ASSUME NEW w \in Workers,
         CacheMiss(w)
      PROVE  wpc[v] \in InCase
  BY <1>21 DEF CacheMiss
<1>22. ASSUME NEW w \in Workers, NEW t \in Texts,
         ProviderAnswers(w, t)
      PROVE  wpc[v] \in InCase
  BY <1>22 DEF ProviderAnswers
<1>23. ASSUME NEW w \in Workers, NEW k \in {"harness_error", "harness_timeout"},
         ProviderFails(w, k)
      PROVE  wpc[v] \in InCase
  BY <1>23 DEF ProviderFails
<1>24. ASSUME NEW w \in Workers,
         StoreResponse(w)
      PROVE  wpc[v] \in InCase
  BY <1>24 DEF StoreResponse
<1>25. ASSUME NEW w \in Workers,
         Persist(w)
      PROVE  wpc[v] \in InCase
  BY <1>25 DEF Persist, CaseEnds
<1>26. ASSUME NEW w \in Workers,
         CaseRaises(w)
      PROVE  wpc[v] \in InCase
  BY <1>26 DEF CaseRaises, Fault
<1>27. ASSUME NEW w \in Workers,
         TerminalRaises(w)
      PROVE  wpc[v] \in InCase
  BY <1>27 DEF TerminalRaises, CaseEnds, Fault
<1>28. ASSUME NEW w \in Workers,
         WorkerDies(w)
      PROVE  wpc[v] \in InCase
  BY <1>28 DEF WorkerDies
<1>29. CASE UNCHANGED vars
  BY <1>29 DEF vars
<1> HIDE DEF InductiveInvariant, TypeOK, InCase,
           store, driver, producer, workers, bounds
<1> QED
  BY <1>1, <1>2, <1>3, <1>4, <1>5, <1>6, <1>7, <1>8, <1>9, <1>10, <1>11,
     <1>12, <1>13, <1>14, <1>15, <1>16, <1>17, <1>18, <1>19, <1>20, <1>21,
     <1>22, <1>23, <1>24, <1>25, <1>26, <1>27, <1>28, <1>29
  DEF Next, ProducerStep, DriverQuery, LoopStep, Timer, WorkerStep, CaseStep, WorkerFault

-----------------------------------------------------------------------------
(* One executor per run.                                                   *)

\* With one executor, no other process writes rows while it decides, and
\* nothing is left of a completed run.
OnlyOne == \E e \in Executors : Executors = {e}

AloneOk ==
    /\ \A e \in Executors :
          phase[e] = "recording" /\ verdict[e] # "completed" => Missing # {} \/ failures[e]
    /\ status = "completed" =>
          /\ \A e \in Executors :
                /\ ~failures[e]
                /\ phase[e] = "recording" => verdict[e] = "completed"
                /\ todo[e] = {} /\ offered[e] = NoKey
                /\ \A n \in 1 .. Len(queue[e]) : queue[e][n] = Pill
          /\ \A w \in Workers : wpc[w] \notin InCase \cup {"dead"}

\* Every step keeps it so.
LEMMA AloneStep ==
    ASSUME OnlyOne, InductiveInvariant, AloneOk, [Next]_vars
    PROVE  AloneOk'
<1> USE DEF InductiveInvariant, TypeOK, VerdictsOk, CompletedMeansComplete, AloneOk, Missing, InCase,
           store, driver, producer, workers, bounds
<1>1. ASSUME NEW x \in Executors, NEW i \in Inputs,
         CreateRun(x, i)
      PROVE  AloneOk'
  BY <1>1 DEF CreateRun, Begin
<1>2. ASSUME NEW x \in Executors, NEW i \in Inputs,
         ResumeRun(x, i)
      PROVE  AloneOk'
  BY <1>2 DEF ResumeRun, Begin
<1>3. ASSUME NEW x \in Executors,
         StartPool(x)
      PROVE  AloneOk'
  <2>1. /\ rows' = rows /\ status' = status /\ failures' = failures /\ verdict' = verdict
        /\ phase' = [phase EXCEPT ![x] = "running"]
        /\ todo' = [todo EXCEPT ![x] = Owed] /\ offered' = [offered EXCEPT ![x] = NoKey]
        /\ queue' = [queue EXCEPT ![x] = <<>>]
        /\ \A w \in Workers : wpc'[w] \in {wpc[w], "idle"}
    BY <1>3 DEF StartPool
  <2>2. status = "completed" => Owed = {}
    BY DEF Owed
  <2>3. QED
    BY <2>1, <2>2
<1>4. ASSUME NEW x \in Executors,
         Produce(x)
      PROVE  AloneOk'
  BY <1>4 DEF Produce
<1>5. ASSUME NEW x \in Executors,
         ProduceBlocked(x)
      PROVE  AloneOk'
  BY <1>5 DEF ProduceBlocked
<1>6. ASSUME NEW x \in Executors,
         StopProducing(x)
      PROVE  AloneOk'
  BY <1>6 DEF StopProducing
<1>7. ASSUME NEW x \in Executors,
         ProducePill(x)
      PROVE  AloneOk'
  BY <1>7 DEF ProducePill
<1>8. ASSUME NEW x \in Executors,
         PoolEnds(x)
      PROVE  AloneOk'
  <2>1. /\ rows' = rows /\ status' = status /\ verdict' = verdict
        /\ failures' = [failures EXCEPT ![x] = \E w \in Pool(x) : wpc[w] = "dead"]
        /\ phase' = [phase EXCEPT ![x] = "finalizing"]
        /\ todo' = [todo EXCEPT ![x] = {}] /\ offered' = [offered EXCEPT ![x] = NoKey]
        /\ queue' = [queue EXCEPT ![x] = <<>>]
        /\ \A w \in Workers : wpc'[w] \in {wpc[w], "stopped"}
    BY <1>8 DEF PoolEnds, ClearPool
  <2>2. status = "completed" => ~\E w \in Pool(x) : wpc[w] = "dead"
    BY DEF Pool
  <2>3. QED
    BY <2>1, <2>2
<1>9. ASSUME NEW x \in Executors,
         BeginDrain(x)
      PROVE  AloneOk'
  BY <1>9 DEF BeginDrain
<1>10. ASSUME NEW x \in Executors,
         Decide(x)
      PROVE  AloneOk'
  BY <1>10 DEF Decide, VerdictOf, Owed
<1>11. ASSUME NEW x \in Executors,
         RecordStatus(x)
      PROVE  AloneOk'
  <2>1. Executors = {x} /\ \A w \in Workers : w \in Pool(x)
    BY WorkerOwner DEF OnlyOne, Pool
  <2>2. /\ phase'[x] = "off" /\ ~failures'[x] /\ todo'[x] = {} /\ offered'[x] = NoKey
        /\ queue'[x] = <<>> /\ \A w \in Workers : wpc'[w] = "stopped"
    BY <1>11, <2>1 DEF RecordStatus, Forget, ClearPool
  <2>3. QED
    BY <2>1, <2>2
<1>12. ASSUME NEW x \in Executors,
         DrainTimeout(x)
      PROVE  AloneOk'
  BY <1>12 DEF DrainTimeout, ClearPool
<1>13. ASSUME NEW x \in Executors,
         RunDeadline(x)
      PROVE  AloneOk'
  BY <1>13 DEF RunDeadline, ClearPool
<1>14. ASSUME NEW x \in Executors,
         Signal(x)
      PROVE  AloneOk'
  BY <1>14 DEF Signal
<1>15. ASSUME NEW x \in Executors,
         RunRaises(x)
      PROVE  AloneOk'
  BY <1>15 DEF RunRaises, Forget, ClearPool, Fault
<1>16. ASSUME NEW x \in Executors,
         Crash(x)
      PROVE  AloneOk'
  BY <1>16 DEF Crash, Forget, ClearPool
<1>17. ASSUME NEW w \in Workers,
         TakePill(w)
      PROVE  AloneOk'
  BY <1>17 DEF TakePill, Dequeue
<1>18. ASSUME NEW w \in Workers,
         SkipCase(w)
      PROVE  AloneOk'
  BY <1>18 DEF SkipCase, Dequeue
<1>19. ASSUME NEW w \in Workers,
         StartCase(w)
      PROVE  AloneOk'
  <2>1. status # "completed"
    <3>1. /\ w[1] \in Executors /\ Len(queue[w[1]]) \in Nat /\ Len(queue[w[1]]) > 0
          /\ queue[w[1]][1] # Pill
      <4> HIDE DEF InductiveInvariant, TypeOK, AloneOk, store, driver, producer, workers, bounds
      <4>1. Dequeue(w) /\ Head(queue[w[1]]) # Pill
        BY <1>19 DEF StartCase
      <4>2. QED
        BY <4>1, Shorter, WorkerOwner
    <3>2. 1 \in 1 .. Len(queue[w[1]])
      BY <3>1
    <3>3. QED
      BY <3>1, <3>2
  <2>2. QED
    BY <1>19, <2>1 DEF StartCase
<1>20. ASSUME NEW w \in Workers,
         CacheHit(w)
      PROVE  AloneOk'
  BY <1>20 DEF CacheHit
<1>21. ASSUME NEW w \in Workers,
         CacheMiss(w)
      PROVE  AloneOk'
  BY <1>21 DEF CacheMiss
<1>22. ASSUME NEW w \in Workers, NEW t \in Texts,
         ProviderAnswers(w, t)
      PROVE  AloneOk'
  BY <1>22 DEF ProviderAnswers
<1>23. ASSUME NEW w \in Workers, NEW k \in {"harness_error", "harness_timeout"},
         ProviderFails(w, k)
      PROVE  AloneOk'
  BY <1>23 DEF ProviderFails
<1>24. ASSUME NEW w \in Workers,
         StoreResponse(w)
      PROVE  AloneOk'
  BY <1>24 DEF StoreResponse
<1>25. ASSUME NEW w \in Workers,
         Persist(w)
      PROVE  AloneOk'
  <2>1. wpc[w] \in InCase /\ status' = status /\ phase' = phase
    BY <1>25 DEF Persist
  <2>2. \A e \in Executors : phase[e] # "recording"
    BY <2>1, WorkerOwner DEF OnlyOne, WorkersOk, PoolLive
  <2>3. QED
    BY <2>1, <2>2
<1>26. ASSUME NEW w \in Workers,
         CaseRaises(w)
      PROVE  AloneOk'
  <2>1. wpc[w] \in InCase /\ status' = status /\ phase' = phase
    BY <1>26 DEF CaseRaises
  <2>2. \A e \in Executors : phase[e] # "recording"
    BY <2>1, WorkerOwner DEF OnlyOne, WorkersOk, PoolLive
  <2>3. QED
    BY <2>1, <2>2
<1>27. ASSUME NEW w \in Workers,
         TerminalRaises(w)
      PROVE  AloneOk'
  <2>1. wpc[w] \in InCase /\ status' = status /\ phase' = phase
    BY <1>27 DEF TerminalRaises
  <2>2. \A e \in Executors : phase[e] # "recording"
    BY <2>1, WorkerOwner DEF OnlyOne, WorkersOk, PoolLive
  <2>3. QED
    BY <2>1, <2>2
<1>28. ASSUME NEW w \in Workers,
         WorkerDies(w)
      PROVE  AloneOk'
  BY <1>28 DEF WorkerDies
<1>29. CASE UNCHANGED vars
  BY <1>29 DEF vars
<1> HIDE DEF InductiveInvariant, TypeOK, VerdictsOk, CompletedMeansComplete, AloneOk, Missing, InCase,
           store, driver, producer, workers, bounds
<1> QED
  BY <1>1, <1>2, <1>3, <1>4, <1>5, <1>6, <1>7, <1>8, <1>9, <1>10, <1>11,
     <1>12, <1>13, <1>14, <1>15, <1>16, <1>17, <1>18, <1>19, <1>20, <1>21,
     <1>22, <1>23, <1>24, <1>25, <1>26, <1>27, <1>28, <1>29
  DEF Next, ProducerStep, DriverQuery, LoopStep, Timer, WorkerStep, CaseStep, WorkerFault

\* The status is set once by the run's creation, then by the record of a pass.
LEMMA StatusSetBy ==
    ASSUME [Next]_vars, status' # status
    PROVE  status = "absent" \/ \E e \in Executors : RecordStatus(e)
<1>1. ASSUME NEW w \in Workers, WorkerStep(w) \/ WorkerFault(w) PROVE status' = status
  BY <1>1 DEF WorkerStep, TakePill, SkipCase, StartCase, CaseStep, CacheHit, CacheMiss,
     ProviderAnswers, ProviderFails, StoreResponse, Persist, WorkerFault, CaseRaises,
     TerminalRaises, WorkerDies, store
<1>2. ASSUME NEW x \in Executors,
             ProducerStep(x) \/ Timer(x) \/ Signal(x) \/ Crash(x) \/ RunRaises(x)
      PROVE  status' = status
  BY <1>2 DEF ProducerStep, Produce, ProduceBlocked, StopProducing, ProducePill,
     Timer, DrainTimeout, RunDeadline, Signal, Crash, RunRaises, store
<1>3. ASSUME NEW x \in Executors, DriverQuery(x) \/ LoopStep(x)
      PROVE  status' = status \/ RecordStatus(x)
  BY <1>3 DEF DriverQuery, LoopStep, StartPool, PoolEnds, BeginDrain, Decide, store
<1>4. ASSUME NEW x \in Executors, NEW i \in Inputs, CreateRun(x, i) \/ ResumeRun(x, i)
      PROVE  status' = status \/ status = "absent"
  BY <1>4 DEF CreateRun, ResumeRun, store
<1>5. CASE UNCHANGED vars
  BY <1>5 DEF vars, store
<1>6. QED
  BY <1>1, <1>2, <1>3, <1>4, <1>5 DEF Next

-----------------------------------------------------------------------------
(* The theorems.                                                           *)

\* The inductive invariant holds in every reachable state: Init establishes
\* it and no step of the event loop, the store or the operating system breaks
\* it.
THEOREM InvariantHolds == Spec => []InductiveInvariant
<1>1. InductiveInvariant /\ [Next]_vars => InductiveInvariant'
  BY TypeStep, WorkersStep, InputsStep, CacheStep, VerdictsStep DEF InductiveInvariant
<1>2. QED
  BY InitInvariant, <1>1, PTL DEF Spec

\* Every variable keeps its type, for every number of executors and workers.
THEOREM TypeCorrect == Spec => []TypeOK
<1>1. InductiveInvariant => TypeOK
  BY DEF InductiveInvariant
<1>2. QED
  BY <1>1, InvariantHolds, PTL

\* The status "completed" stands only over a run with all its generations,
\* whatever crashed, raised or ran beside it.
THEOREM CompletedRunsAreComplete == Spec => []CompletedMeansComplete
<1>1. InductiveInvariant => CompletedMeansComplete
  BY DEF InductiveInvariant, VerdictsOk
<1>2. QED
  BY <1>1, InvariantHolds, PTL

\* Rows served from the cache agree with the cache.
THEOREM CachedRowsAreTrue == Spec => []CachedRowsMatchCache
<1>1. InductiveInvariant => CachedRowsMatchCache
  BY DEF InductiveInvariant, CacheOk
<1>2. QED
  BY <1>1, InvariantHolds, PTL

\* All rows of a run come from the inputs it was created with.
THEOREM RowsOfOneRun == Spec => []RowsShareInputs
<1>1. InductiveInvariant => RowsShareInputs
  BY DEF InductiveInvariant, InputsOk
<1>2. QED
  BY <1>1, InvariantHolds, PTL

\* A generation is written once: no step of any process changes it.
THEOREM GenerationsAreWrittenOnce == Spec => RowsWriteOnce
<1>1. InductiveInvariant /\ [Next]_vars =>
        [\A k \in Keys : rows[k] # NoRow => rows'[k] = rows[k]]_vars
  BY StoreStep, RowsKept
<1>2. QED
  BY <1>1, InvariantHolds, PTL DEF Spec, RowsWriteOnce

\* The executor implements the ledger: every behaviour of its processes is,
\* seen from the database, a behaviour of RunLedger.
THEOREM ExecutorImplementsLedger == Spec => LedgerSpec
<1>1. InductiveInvariant /\ [Next]_vars => [Ledger!Next]_(Ledger!vars)
  BY StoreStep, LedgerStep
<1>2. QED
  BY <1>1, LedgerInit, InvariantHolds, PTL DEF Spec, LedgerSpec, Ledger!Spec

\* The end markers of a pool are one per worker, and a planned key without a
\* row is in somebody's hands unless a worker died with it or could not save
\* its failure.
THEOREM PoolInvariantHolds == Spec => []PoolInvariant
<1>1. InductiveInvariant /\ PoolInvariant /\ [Next]_vars => PoolInvariant'
  BY MarkersStep, LossStep DEF PoolInvariant
<1>2. QED
  BY PoolInit, <1>1, InvariantHolds, PTL DEF Spec

\* Producer and workers of a pool are never all waiting for each other, for
\* any number of workers and cases, unless every worker of it died.
THEOREM PoolsDoNotStall == Spec => []NoPoolStalls
<1>1. InductiveInvariant /\ PoolInvariant => NoPoolStalls
  BY NobodyStalls DEF PoolInvariant
<1>2. QED
  BY <1>1, InvariantHolds, PoolInvariantHolds, PTL

\* A pool nobody shut down writes a row for every planned key but one per
\* worker that died and one per two operations that raised.
THEOREM PlannedKeysAreWritten == Spec => []NothingPlannedIsLost
<1>1. InductiveInvariant /\ PoolInvariant => NothingPlannedIsLost
  BY OnlyTheDeadLose
<1>2. QED
  BY <1>1, InvariantHolds, PoolInvariantHolds, PTL

\* From the shutdown request on no further case is started (run_one's check).
THEOREM ShutdownStartsNothing == Spec => DrainStartsNothing
<1>1. ASSUME InductiveInvariant, [Next]_vars, NEW e \in Executors, shutdown[e]
      PROVE  InFlight(e)' \subseteq InFlight(e)
  BY <1>1, StartsAreAsked DEF InFlight, Pool
<1>2. InductiveInvariant /\ [Next]_vars =>
        [\A e \in Executors : shutdown[e] => InFlight(e)' \subseteq InFlight(e)]_vars
  BY <1>1
<1>3. QED
  BY <1>2, InvariantHolds, PTL DEF Spec, DrainStartsNothing

\* With one executor, its decisions stay true until they are recorded, and a
\* completed run holds nothing that could change its status.
THEOREM OneExecutorInvariant == ASSUME OnlyOne PROVE Spec => []AloneOk
<1>1. Init => AloneOk
  BY DEF Init, AloneOk
<1>2. InductiveInvariant /\ AloneOk /\ [Next]_vars => AloneOk'
  BY AloneStep
<1>3. QED
  BY <1>1, <1>2, InvariantHolds, PTL DEF Spec

\* With one executor per run, "cancelled" and "failed" are recorded only over
\* a run that owes generations, or whose pool lost a worker.
THEOREM UnfinishedRunsAreHonest == ASSUME OnlyOne PROVE Spec => UnfinishedIsHonest
<1>1. AloneOk => [\A e \in Executors :
                    RecordStatus(e) /\ verdict[e] # "completed" => Missing # {} \/ failures[e]]_vars
  BY DEF AloneOk, RecordStatus
<1>2. QED
  BY <1>1, OneExecutorInvariant, PTL DEF UnfinishedIsHonest

\* With one executor per run, a completed run stays completed.
THEOREM CompletedRunsStay == ASSUME OnlyOne PROVE Spec => CompletedIsFinal
<1>1. AloneOk /\ [Next]_vars => [status = "completed" => status' = "completed"]_vars
  BY StatusSetBy DEF AloneOk, RecordStatus
<1>2. QED
  BY <1>1, OneExecutorInvariant, PTL DEF Spec, CompletedIsFinal
=============================================================================
