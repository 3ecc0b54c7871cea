------------------------- MODULE CaseAttemptsProofs -------------------------
(***************************************************************************)
(* Proofs about CaseAttempts.tla, for every budget, timeout, number of     *)
(* retries and Retry-After.                                                *)
(***************************************************************************)
EXTENDS CaseAttempts, TLAPS

USE CaseAssumption

LogEntries == ErrorClasses \cup {"none", "timeout"}

\* Appending to the log adds its last entry and keeps the others.
LEMMA AppendFacts ==
    ASSUME log \in Seq(LogEntries), NEW c \in LogEntries, log' = Append(log, c)
    PROVE  /\ log' \in Seq(LogEntries)
           /\ Len(log') = Len(log) + 1
           /\ log' # <<>>
           /\ log'[Len(log')] = c
           /\ \A n \in 1 .. Len(log) : log'[n] = log[n]
BY DEF LogEntries

\* The initial state satisfies the invariant.
LEMMA InitInvariant == Init => InductiveInvariant
BY DEF Init, InductiveInvariant, TypeOK, BudgetKept, OnlyRetryableIsRetried,
       EndingMatchesLog, Last

\* An attempt that is recorded leaves a log that explains what comes next,
\* whether the case ends or sleeps before it tries again.
LEMMA RecordStep ==
    ASSUME InductiveInvariant,
           pc \in {"checking", "calling"},
           NEW c \in LogEntries,
           log' = Append(log, c),
           UNCHANGED <<attempt, elapsed, late>>,
           pc = "checking" => Remaining > 0,
           \/ /\ pc' = "sleeping" /\ timer' \in Nat /\ timer' <= Remaining
              /\ ending' = ending
              /\ attempt < MaxRetries /\ c \in RETRYABLE \cup {"timeout"}
           \/ /\ pc' = "done" /\ timer' = 0
              /\ \/ c = "none" /\ ending' = "response"
                 \/ /\ c \in ErrorClasses /\ ending' = "harness_error"
                    /\ c \in RETRYABLE => attempt = MaxRetries /\ elapsed < Budget
                 \/ /\ c # "none" /\ ending' = "harness_timeout"
                    /\ \/ elapsed >= Budget
                       \/ c = "timeout" /\ attempt = MaxRetries
    PROVE  InductiveInvariant'
<1>1. /\ log' \in Seq(LogEntries) /\ Len(log') = attempt + 1
      /\ log' # <<>> /\ log'[Len(log')] = c
      /\ \A n \in 1 .. Len(log') - 1 : log'[n] = log[n]
      /\ \A n \in 1 .. Len(log') - 1 : log'[n] \in RETRYABLE \cup {"timeout"}
  BY AppendFacts DEF InductiveInvariant, TypeOK, LogEntries
<1>2. attempt \in 0 .. MaxRetries /\ elapsed \in Nat /\ late \in 0 .. MaxLate
      /\ timer \in Nat /\ pc' \in {"sleeping", "done"}
  BY DEF InductiveInvariant, TypeOK
<1>3. elapsed <= Budget + late
  BY <1>2 DEF InductiveInvariant, Remaining
<1>4. TypeOK'
  BY <1>1, <1>2 DEF TypeOK, LogEntries, InductiveInvariant
<1>5. OnlyRetryableIsRetried'
  <2>1. Len(log') <= MaxRetries + 1
    BY <1>1, <1>2
  <2>2. \A n \in 1 .. Len(log') : log'[n] = "circuit_open" => pc' = "done"
    BY <1>1, <1>2 DEF RETRYABLE
  <2>3. QED
    BY <1>1, <2>1, <2>2 DEF OnlyRetryableIsRetried, RETRYABLE
<1>6. EndingMatchesLog'
  BY <1>1, <1>2 DEF EndingMatchesLog, Last, ErrorClasses, RETRYABLE, InductiveInvariant
<1>7. BudgetKept'
  BY <1>2, <1>3 DEF BudgetKept
<1>8. pc' # "done" => \A n \in 1 .. Len(log') : log'[n] \in RETRYABLE \cup {"timeout"}
  BY <1>1, <1>2
<1>9. pc' = "sleeping" => elapsed' + timer' <= Budget + late'
  BY <1>2 DEF Remaining
<1>10. pc' = "done" <=> ending' # "open"
  BY <1>2 DEF InductiveInvariant
<1>11. QED
  BY <1>1, <1>2, <1>4, <1>5, <1>6, <1>7, <1>8, <1>9, <1>10 DEF InductiveInvariant

\* The delay before a retry is within what is left of the budget.
LEMMA DelayFacts ==
    ASSUME Remaining \in Nat, NEW jitter \in Nat, NEW after \in Nat
    PROVE  Delay(jitter, after) \in Nat /\ Delay(jitter, after) <= Remaining
BY DEF Delay, Lesser, Greater

\* Every step keeps the invariant.
LEMMA CaseStep == InductiveInvariant /\ [Next]_vars => InductiveInvariant'
<1> SUFFICES ASSUME InductiveInvariant, [Next]_vars
             PROVE  InductiveInvariant'
  OBVIOUS
<1>1. CASE UNCHANGED vars
  BY <1>1 DEF vars, InductiveInvariant, TypeOK, BudgetKept, OnlyRetryableIsRetried,
              EndingMatchesLog, Last
<1>2. CASE BudgetSpent
  BY <1>2 DEF BudgetSpent, End, Remaining, InductiveInvariant, TypeOK, BudgetKept,
              OnlyRetryableIsRetried, EndingMatchesLog, Last, RETRYABLE
<1>3. CASE BeginAttempt
  <2>1. CallTimeout \in Nat /\ elapsed + CallTimeout <= Budget
    BY <1>3 DEF BeginAttempt, CallTimeout, Lesser, Remaining, InductiveInvariant, TypeOK
  <2>2. QED
    BY <1>3, <2>1 DEF BeginAttempt, Remaining, InductiveInvariant, TypeOK, BudgetKept,
                      OnlyRetryableIsRetried, EndingMatchesLog, Last, RETRYABLE
<1>4. CASE Answer
  BY <1>4, RecordStep DEF Answer, End, LogEntries
<1>5. CASE TimedOut
  <2>1. elapsed \in Nat /\ attempt \in 0 .. MaxRetries
    BY DEF InductiveInvariant, TypeOK
  <2>2. CASE attempt >= MaxRetries \/ Remaining <= 0
    <3>1. attempt = MaxRetries \/ elapsed >= Budget
      BY <2>1, <2>2 DEF Remaining
    <3>2. QED
      BY <1>5, <2>2, <3>1, RecordStep DEF TimedOut, End, LogEntries
  <2>3. CASE ~(attempt >= MaxRetries \/ Remaining <= 0)
    <3>1. Remaining \in Nat /\ attempt < MaxRetries
      BY <2>1, <2>3 DEF Remaining
    <3>2. PICK jitter \in 0 .. JitterWindow : timer' = Delay(jitter, 0)
      BY <1>5, <2>3 DEF TimedOut, SleepBeforeRetry
    <3>3. timer' \in Nat /\ timer' <= Remaining
      BY <3>1, <3>2, DelayFacts
    <3>4. QED
      BY <1>5, <2>3, <3>1, <3>3, RecordStep DEF TimedOut, SleepBeforeRetry, LogEntries
  <2>4. QED
    BY <2>2, <2>3
<1>6. ASSUME NEW c \in ErrorClasses, NEW after \in Nat, HandleError(c, after),
             pc \in {"checking", "calling"}, pc = "checking" => Remaining > 0
      PROVE  InductiveInvariant'
  <2>1. elapsed \in Nat /\ attempt \in 0 .. MaxRetries
    BY DEF InductiveInvariant, TypeOK
  <2>2. CASE c \notin RETRYABLE
    BY <1>6, <2>2, RecordStep DEF HandleError, End, LogEntries
  <2>3. CASE c \in RETRYABLE /\ Remaining <= 0
    <3>1. elapsed >= Budget
      BY <2>1, <2>3 DEF Remaining
    <3>2. QED
      BY <1>6, <2>3, <3>1, RecordStep DEF HandleError, End, LogEntries, ErrorClasses
  <2>4. CASE c \in RETRYABLE /\ ~(Remaining <= 0) /\ attempt >= MaxRetries
    <3>1. attempt = MaxRetries /\ elapsed < Budget
      BY <2>1, <2>4 DEF Remaining
    <3>2. QED
      BY <1>6, <2>4, <3>1, RecordStep DEF HandleError, End, LogEntries
  <2>5. CASE c \in RETRYABLE /\ ~(Remaining <= 0) /\ ~(attempt >= MaxRetries)
    <3>1. Remaining \in Nat /\ attempt < MaxRetries
      BY <2>1, <2>5 DEF Remaining
    <3>2. PICK jitter \in 0 .. JitterWindow : timer' = Delay(jitter, after)
      BY <1>6, <2>5 DEF HandleError, SleepBeforeRetry
    <3>3. timer' \in Nat /\ timer' <= Remaining
      BY <1>6, <3>1, <3>2, DelayFacts
    <3>4. QED
      BY <1>6, <2>5, <3>1, <3>3, RecordStep DEF HandleError, SleepBeforeRetry, LogEntries
  <2>6. QED
    BY <2>2, <2>3, <2>4, <2>5
<1>7. ASSUME NEW c \in ErrorClasses \ {"circuit_open"}, NEW after \in RetryAfters,
             ProviderRaises(c, after)
      PROVE  InductiveInvariant'
  BY <1>6, <1>7 DEF ProviderRaises
<1>8. CASE CircuitRejects
  BY <1>6, <1>8 DEF CircuitRejects, ErrorClasses
<1>9. CASE Wake
  BY <1>9 DEF Wake, InductiveInvariant, TypeOK, BudgetKept, OnlyRetryableIsRetried,
              EndingMatchesLog, Last
<1>10. CASE Tick
  BY <1>10 DEF Tick, InductiveInvariant, TypeOK, BudgetKept, OnlyRetryableIsRetried,
               EndingMatchesLog, Last, RETRYABLE
<1>11. QED
  BY <1>1, <1>2, <1>3, <1>4, <1>5, <1>7, <1>8, <1>9, <1>10
  DEF Next, RequestTimesOut, AdapterTimesOut

\* The inductive invariant holds in every reachable state of a case.
THEOREM CaseInvariant == Spec => []InductiveInvariant
BY InitInvariant, CaseStep, PTL DEF Spec

\* No timeout, backoff or Retry-After lets a case outlive its budget.
THEOREM CaseKeepsItsBudget == Spec => []BudgetKept
<1>1. InductiveInvariant => BudgetKept
  BY DEF InductiveInvariant
<1>2. QED
  BY <1>1, CaseInvariant, PTL

\* Retries follow retryable errors only, max_retries of them at most.
THEOREM RetriesAreJustified == Spec => []OnlyRetryableIsRetried
<1>1. InductiveInvariant => OnlyRetryableIsRetried
  BY DEF InductiveInvariant
<1>2. QED
  BY <1>1, CaseInvariant, PTL

\* The outcome of a case is the one its attempt log explains.
THEOREM OutcomeIsExplained == Spec => []EndingMatchesLog
<1>1. InductiveInvariant => EndingMatchesLog
  BY DEF InductiveInvariant
<1>2. QED
  BY <1>1, CaseInvariant, PTL
=============================================================================
