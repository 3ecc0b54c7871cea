---------------------------- MODULE CaseAttempts ----------------------------
(***************************************************************************)
(* The attempts of one case (src/evalharness/execution/attempts.py):       *)
(* generate_with_retries calls the provider until it answers, an error is  *)
(* not worth a retry, the retries run out or the budget of the case is     *)
(* spent.  Executor.tla sees only the way this ends.                       *)
(*                                                                         *)
(* Time is counted in ticks.  The event loop may run a timer late: "late"  *)
(* counts the ticks that passed while one was due.                         *)
(***************************************************************************)
EXTENDS Integers, Sequences

CONSTANTS
    Budget,           \* default_case_timeout_s
    RequestTimeout,   \* default_request_timeout_s
    MaxRetries,       \* default_max_retries
    RetryBase,        \* default_retry_base_s
    RetryCap,         \* default_retry_cap_s
    RetryAfters,      \* delays a Retry-After header may ask for, 0 for no header
    HeadStart,        \* bound: ticks the case may have used before its attempts
    MaxLate           \* bound: ticks the event loop is late in total

ASSUME CaseAssumption ==
    /\ Budget \in Nat \ {0} /\ RequestTimeout \in Nat \ {0}
    /\ MaxRetries \in Nat
    /\ RetryBase \in Nat /\ RetryCap \in Nat
    /\ RetryAfters \subseteq Nat
    /\ HeadStart \in Nat /\ MaxLate \in Nat

VARIABLES
    pc,         \* where generate_with_retries stands
    attempt,    \* the loop variable
    elapsed,    \* since the case got its deadline
    timer,      \* what is left of the request timeout, or of the sleep
    late,
    log,        \* attempt_log: the error class of each attempt
    ending      \* response, harness_error or harness_timeout

vars == <<pc, attempt, elapsed, timer, late, log, ending>>

Lesser(a, b) == IF a < b THEN a ELSE b
Greater(a, b) == IF a > b THEN a ELSE b
Remaining == Budget - elapsed

ErrorClasses == {"retryable_transient", "retryable_rate_limit", "non_retryable",
                 "circuit_open"}
RETRYABLE == {"retryable_transient", "retryable_rate_limit"}

TypeOK ==
    /\ pc \in {"checking", "calling", "sleeping", "done"}
    /\ attempt \in 0 .. MaxRetries
    /\ elapsed \in Nat /\ timer \in Nat /\ late \in 0 .. MaxLate
    /\ log \in Seq(ErrorClasses \cup {"none", "timeout"})
    /\ ending \in {"open", "response", "harness_error", "harness_timeout"}

\* The deadline was set when the case began; prompt and cache came first.
Init ==
    /\ pc = "checking" /\ attempt = 0
    /\ elapsed \in 0 .. HeadStart
    /\ timer = 0 /\ late = 0
    /\ log = <<>> /\ ending = "open"

End(how) == pc' = "done" /\ ending' = how /\ timer' = 0

BudgetSpent ==
    /\ pc = "checking"
    /\ Remaining <= 0
    /\ End("harness_timeout")
    /\ UNCHANGED <<attempt, elapsed, late, log>>

\* The request timeout never outlives the budget of the case.
CallTimeout_RequestOnly == RequestTimeout
CallTimeout_Unset == -1    \* no timer at all
CallTimeout == Lesser(RequestTimeout, Remaining)

BeginAttempt ==
    /\ pc = "checking"
    /\ Remaining > 0
    /\ pc' = "calling"
    /\ timer' = CallTimeout
    /\ UNCHANGED <<attempt, elapsed, late, log, ending>>

Answer ==
    /\ pc = "calling"
    /\ log' = Append(log, "none")
    /\ End("response")
    /\ UNCHANGED <<attempt, elapsed, late>>

\* retry_delay_seconds: the larger of the jitter and the Retry-After, within
\* the budget.
JitterWindow == Lesser(RetryCap, RetryBase * 2 ^ attempt)
Delay(jitter, after) == Lesser(Greater(jitter, after), Remaining)

SleepBeforeRetry(after) ==
    /\ pc' = "sleeping"
    /\ \E jitter \in 0 .. JitterWindow : timer' = Delay(jitter, after)
    /\ UNCHANGED ending

\* wait_for gives up when the request timeout is over; the adapter may time
\* out by itself at any moment.
TimedOut ==
    /\ pc = "calling"
    /\ log' = Append(log, "timeout")
    /\ IF attempt >= MaxRetries \/ Remaining <= 0
       THEN End("harness_timeout")
       ELSE SleepBeforeRetry(0)
    /\ UNCHANGED <<attempt, elapsed, late>>

RequestTimesOut == timer = 0 /\ TimedOut
AdapterTimesOut == timer > 0 /\ TimedOut

\* Any other exception: what it is decides first, then the budget, then the
\* number of retries.
HandleError_RetriesFirst(c, after) ==
    /\ log' = Append(log, c)
    /\ IF c \notin RETRYABLE \/ attempt >= MaxRetries THEN End("harness_error")
       ELSE IF Remaining <= 0 THEN End("harness_timeout")
       ELSE SleepBeforeRetry(after)
    /\ UNCHANGED <<attempt, elapsed, late>>

HandleError(c, after) ==
    /\ log' = Append(log, c)
    /\ IF c \notin RETRYABLE THEN End("harness_error")
       ELSE IF Remaining <= 0 THEN End("harness_timeout")
       ELSE IF attempt >= MaxRetries THEN End("harness_error")
       ELSE SleepBeforeRetry(after)
    /\ UNCHANGED <<attempt, elapsed, late>>

ProviderRaises(c, after) == pc = "calling" /\ HandleError(c, after)

\* The breaker refuses before the call waits for anything.
CircuitRejects == pc = "checking" /\ Remaining > 0 /\ HandleError("circuit_open", 0)

Wake ==
    /\ pc = "sleeping"
    /\ timer = 0
    /\ pc' = "checking"
    /\ attempt' = attempt + 1
    /\ UNCHANGED <<elapsed, timer, late, log, ending>>

\* Code between two awaits takes no time.  A due timer runs at once, unless
\* the event loop is late.
Tick ==
    /\ pc \in {"calling", "sleeping"}
    /\ elapsed' = elapsed + 1
    /\ \/ timer > 0 /\ timer' = timer - 1 /\ UNCHANGED late
       \/ timer = 0 /\ late < MaxLate /\ late' = late + 1 /\ UNCHANGED timer
    /\ UNCHANGED <<pc, attempt, log, ending>>

Next ==
    \/ BudgetSpent \/ BeginAttempt \/ Answer
    \/ RequestTimesOut \/ AdapterTimesOut
    \/ \E c \in ErrorClasses \ {"circuit_open"}, after \in RetryAfters :
        ProviderRaises(c, after)
    \/ CircuitRejects \/ Wake \/ Tick

Spec == Init /\ [][Next]_vars

\* The provider may never answer; the clock and the timers go on.
TimedSpec ==
    /\ Spec
    /\ WF_vars(Tick) /\ WF_vars(RequestTimesOut) /\ WF_vars(Wake)
    /\ WF_vars(BudgetSpent) /\ WF_vars(BeginAttempt)

-----------------------------------------------------------------------------
(* Properties.                                                             *)

Last == log[Len(log)]

\* A case that made an attempt uses no more than its budget, plus what the
\* event loop was late: no request timeout, backoff or Retry-After outlives it.
BudgetKept == log # <<>> \/ pc = "calling" => elapsed <= Budget + late

\* Only errors worth a retry are followed by another attempt, and there are
\* never more than max_retries of those.
OnlyRetryableIsRetried ==
    /\ Len(log) <= MaxRetries + 1
    /\ \A n \in 1 .. Len(log) - 1 : log[n] \in RETRYABLE \cup {"timeout"}
    /\ \A n \in 1 .. Len(log) : log[n] = "circuit_open" => pc = "done"

\* The outcome a case is stored with agrees with its attempt log: an answer is
\* the last entry; a harness_error ended on its class, or on the last retry
\* with budget left; a harness_timeout spent the budget, or the last retry on a
\* timeout.
EndingMatchesLog ==
    /\ ending = "response" <=> log # <<>> /\ Last = "none"
    /\ ending = "harness_error" =>
        /\ log # <<>> /\ Last \in ErrorClasses
        /\ Last \in RETRYABLE => Len(log) = MaxRetries + 1 /\ elapsed < Budget
    /\ ending = "harness_timeout" =>
        \/ elapsed >= Budget
        \/ log # <<>> /\ Last = "timeout" /\ Len(log) = MaxRetries + 1

\* Every case ends, even if the provider never does.
CaseEnds == <>(pc = "done")

\* Why: the log grows with the attempts, a running timer stays within the
\* budget, and what ended is not touched again.
InductiveInvariant ==
    /\ TypeOK
    /\ pc = "done" <=> ending # "open"
    /\ pc \in {"checking", "calling"} => Len(log) = attempt
    /\ pc = "sleeping" => Len(log) = attempt + 1 /\ attempt < MaxRetries
    /\ pc = "done" => Len(log) \in {attempt, attempt + 1}
    /\ pc \in {"calling", "sleeping"} => elapsed + timer <= Budget + late
    /\ BudgetKept
    /\ OnlyRetryableIsRetried
    /\ pc # "done" => \A n \in 1 .. Len(log) : log[n] \in RETRYABLE \cup {"timeout"}
    /\ EndingMatchesLog
=============================================================================
