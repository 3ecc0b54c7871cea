--------------------------- MODULE ManagedProvider ---------------------------
(***************************************************************************)
(* The runtime around every provider (src/evalharness/providers/runtime.py)*)
(* under concurrent callers: the circuit breaker is asked first, then the  *)
(* call waits for a request, for its estimated tokens and for a permit,    *)
(* and only then reaches the backend.  generate and embed take the same    *)
(* steps.                                                                  *)
(*                                                                         *)
(* A step is what runs between two awaits.  Time is counted in ticks and   *)
(* kept as ages, never as a clock: since a bucket was updated, since the   *)
(* circuit opened, until a sleeping caller may look again.                 *)
(***************************************************************************)
EXTENDS Integers, SequencesExt, FiniteSets

CONSTANTS
    Callers,          \* tasks that may have a call in progress
    Estimates,        \* what estimate_tokens may return
    Capacity,         \* [Buckets -> Nat]: rpm and tpm
    Rate,             \* [Buckets -> Nat]: what a bucket earns per tick
    Concurrency,      \* permits of the semaphore
    Threshold,        \* failure_threshold
    Recovery,         \* recovery_timeout_s, in ticks
    MaxWindow         \* bound: length of the observed window

Buckets == {"requests", "tokens"}

ASSUME ProviderAssumption ==
    /\ IsFiniteSet(Callers)
    /\ Estimates \subseteq Nat \ {0}
    /\ Capacity \in [Buckets -> Nat \ {0}]
    /\ Rate \in [Buckets -> Nat \ {0}]
    /\ Concurrency \in Nat \ {0}
    /\ Threshold \in Nat \ {0}
    /\ Recovery \in Nat
    /\ MaxWindow \in Nat

VARIABLES
    \* CircuitBreaker
    state,       \* "closed", "open", "half_open"
    failures,    \* counted up to Threshold, beyond which nothing reads it
    openFor,     \* ticks since opened_at, up to Recovery
    \* TokenBucket, twice
    balance,     \* tokens
    idle,        \* ticks since updated_at, up to Capacity (full by then)
    \* asyncio.Semaphore
    permits,
    line,        \* callers waiting for a permit, in order
    \* the calls
    pc, estimate, sleep,
    closed,      \* no further call arrives
    \* an observed stretch of time: has it begun, how long is it, what each
    \* bucket granted in it
    watching, window, granted

breaker == <<state, failures, openFor>>
buckets == <<balance, idle>>
semaphore == <<permits, line>>
calls == <<pc, estimate, sleep>>
observer == <<watching, window, granted>>
vars == <<breaker, buckets, semaphore, calls, closed, observer>>

Lesser(a, b) == IF a < b THEN a ELSE b

Init ==
    /\ state = "closed" /\ failures = 0 /\ openFor = 0
    /\ balance = Capacity
    /\ idle = [b \in Buckets |-> 0]
    /\ permits = Concurrency /\ line = <<>>
    /\ pc = [c \in Callers |-> "idle"]
    /\ estimate = [c \in Callers |-> 1]
    /\ sleep = [c \in Callers |-> 0]
    /\ closed = FALSE
    /\ watching = FALSE /\ window = 0 /\ granted = [b \in Buckets |-> 0]

-----------------------------------------------------------------------------
(* The breaker.                                                            *)

BeforeCallAdmits == state # "open" \/ openFor >= Recovery

\* A refused call changes nothing.
Rejection_CountsAsFailure ==
    failures' = Threshold /\ openFor' = 0 /\ UNCHANGED state
Rejection == UNCHANGED breaker

Success_KeepsCount == state' = "closed" /\ openFor' = 0 /\ UNCHANGED failures
Success == state' = "closed" /\ failures' = 0 /\ openFor' = 0

\* Every failure that leaves the circuit open dates its opening anew.
Failure ==
    /\ failures' = Lesser(failures + 1, Threshold)
    /\ IF state = "half_open" \/ failures + 1 >= Threshold
       THEN state' = "open" /\ openFor' = 0
       ELSE UNCHANGED <<state, openFor>>

-----------------------------------------------------------------------------
(* A call.                                                                 *)

Need(c, b) == IF b = "requests" THEN 1 ELSE estimate[c]

\* before_call, on the way in.
Enter(c, n) ==
    /\ pc[c] = "idle"
    /\ ~closed
    /\ BeforeCallAdmits
    /\ state' = IF state = "open" THEN "half_open" ELSE state
    /\ pc' = [pc EXCEPT ![c] = "requests"]
    /\ estimate' = [estimate EXCEPT ![c] = n]
    /\ sleep' = [sleep EXCEPT ![c] = 0]
    /\ UNCHANGED <<failures, openFor, buckets, semaphore, closed, observer>>

Reject(c) ==
    /\ pc[c] = "idle"
    /\ ~closed
    /\ ~BeforeCallAdmits
    /\ Rejection
    /\ UNCHANGED <<buckets, semaphore, calls, closed, observer>>

\* What a bucket holds after the refill that acquire begins with.
Level_Uncapped(b) == balance[b] + idle[b] * Rate[b]
Level(b) == Lesser(Capacity[b], balance[b] + idle[b] * Rate[b])

\* Where a call stands once bucket b granted it.
After(b) == IF b = "requests" THEN "tokens" ELSE "semaphore"

Grant(c, b) ==
    /\ pc[c] = b
    /\ sleep[c] = 0
    /\ Level(b) >= Need(c, b)
    /\ balance' = [balance EXCEPT ![b] = Level(b) - Need(c, b)]
    /\ idle' = [idle EXCEPT ![b] = 0]
    /\ pc' = [pc EXCEPT ![c] = After(b)]
    /\ line' = IF b = "tokens" THEN Append(line, c) ELSE line
    /\ granted' = IF watching THEN [granted EXCEPT ![b] = @ + Need(c, b)] ELSE granted
    /\ UNCHANGED <<breaker, permits, estimate, sleep, closed, watching, window>>

\* Too little: the refill is kept, and the caller sleeps for as long as the
\* missing part takes to arrive if nobody else takes it.
Refill_Dropped(b) == UNCHANGED balance
Refill(b) == balance' = [balance EXCEPT ![b] = Level(b)]

Wait(c, b) ==
    /\ pc[c] = b
    /\ sleep[c] = 0
    /\ Level(b) < Need(c, b)
    /\ Refill(b)
    /\ idle' = [idle EXCEPT ![b] = 0]
    /\ sleep' = [sleep EXCEPT ![c] =
                    (Need(c, b) - Level(b) + Rate[b] - 1) \div Rate[b]]
    /\ UNCHANGED <<breaker, semaphore, pc, estimate, closed, observer>>

\* asyncio.Semaphore hands out its permits in the order they were asked for.
AcquirePermit(c) ==
    /\ line # <<>> /\ Head(line) = c
    /\ permits > 0
    /\ permits' = permits - 1
    /\ line' = Tail(line)
    /\ pc' = [pc EXCEPT ![c] = "calling"]
    /\ UNCHANGED <<breaker, buckets, estimate, sleep, closed, observer>>

Leave(c) ==
    /\ pc' = [pc EXCEPT ![c] = "idle"]
    /\ sleep' = [sleep EXCEPT ![c] = 0]
    /\ UNCHANGED <<estimate, buckets, closed, observer>>

ProviderAnswers(c) ==
    /\ pc[c] = "calling"
    /\ Success
    /\ permits' = permits + 1
    /\ Leave(c)
    /\ UNCHANGED line

ProviderRaises(c) ==
    /\ pc[c] = "calling"
    /\ Failure
    /\ permits' = permits + 1
    /\ Leave(c)
    /\ UNCHANGED line

\* The caller's wait_for gives up, or its task is cancelled: the call ends
\* wherever it stands, what it was granted is gone, and the breaker hears
\* nothing of it.
Release_Forgotten(c) ==
    permits' = permits
Release(c) ==
    permits' = IF pc[c] = "calling" THEN permits + 1 ELSE permits

LeaveLine(c) ==
    IF pc[c] = "semaphore"
    THEN \E n \in 1 .. Len(line) : line[n] = c /\ line' = RemoveAt(line, n)
    ELSE UNCHANGED line

Cancelled(c) ==
    /\ pc[c] # "idle"
    /\ Release(c)
    /\ LeaveLine(c)
    /\ Leave(c)
    /\ UNCHANGED breaker

-----------------------------------------------------------------------------
(* Time, and the surroundings.                                             *)

Tick ==
    /\ watching => window < MaxWindow
    /\ idle' = [b \in Buckets |-> Lesser(idle[b] + 1, Capacity[b])]
    /\ openFor' = Lesser(openFor + 1, Recovery)
    /\ sleep' = [c \in Callers |-> IF sleep[c] > 0 THEN sleep[c] - 1 ELSE 0]
    /\ window' = IF watching THEN window + 1 ELSE window
    /\ UNCHANGED <<state, failures, balance, semaphore, pc, estimate, closed,
                   watching, granted>>

\* The plan is used up: no worker starts another call.
Close ==
    /\ ~closed
    /\ closed' = TRUE
    /\ UNCHANGED <<breaker, buckets, semaphore, calls, observer>>

\* The observation begins, at any moment.
Watch ==
    /\ ~watching
    /\ MaxWindow > 0
    /\ watching' = TRUE
    /\ UNCHANGED <<breaker, buckets, semaphore, calls, closed, window, granted>>

\* It ends when it has lasted MaxWindow ticks, and another may begin.
LookAway ==
    /\ watching
    /\ window = MaxWindow
    /\ watching' = FALSE
    /\ window' = 0
    /\ granted' = [b \in Buckets |-> 0]
    /\ UNCHANGED <<breaker, buckets, semaphore, calls, closed>>

CallStep(c) ==
    \/ \E b \in Buckets : Grant(c, b) \/ Wait(c, b)
    \/ AcquirePermit(c)

CallEnds(c) == ProviderAnswers(c) \/ ProviderRaises(c)

Arrival(c) == Reject(c) \/ \E n \in Estimates : Enter(c, n)

Next ==
    \/ \E c \in Callers : Arrival(c) \/ CallStep(c) \/ CallEnds(c) \/ Cancelled(c)
    \/ Tick \/ Close \/ Watch \/ LookAway

Spec == Init /\ [][Next]_vars

\* Time passes, calls go on and the backend answers or raises; nobody has to
\* be cancelled, and nobody has to arrive.
ServingSpec ==
    /\ Spec
    /\ WF_vars(Tick) /\ WF_vars(LookAway)
    /\ \A c \in Callers :
        WF_vars(CallStep(c)) /\ WF_vars(CallEnds(c))

-----------------------------------------------------------------------------
(* Properties.                                                             *)

Calling == {c \in Callers : pc[c] = "calling"}

TypeOK ==
    /\ state \in {"closed", "open", "half_open"}
    /\ failures \in 0 .. Threshold
    /\ openFor \in 0 .. Recovery
    /\ balance \in [Buckets -> Nat]
    /\ \A b \in Buckets : balance[b] <= Capacity[b]
    /\ idle \in [Buckets -> Nat]
    /\ permits \in 0 .. Concurrency
    /\ line \in Seq(Callers)
    /\ pc \in [Callers -> {"idle", "requests", "tokens", "semaphore", "calling"}]
    /\ estimate \in [Callers -> Nat \ {0}]
    /\ sleep \in [Callers -> Nat]
    /\ closed \in BOOLEAN /\ watching \in BOOLEAN
    /\ window \in 0 .. MaxWindow
    /\ granted \in [Buckets -> Nat]

\* In any stretch of time a bucket grants no more than its capacity and what
\* it earned meanwhile, however the callers' refills, sleeps and
\* cancellations interleave (TokenBucket.acquire).
RateKept ==
    \A b \in Buckets : granted[b] <= Capacity[b] + Rate[b] * window

\* Each permit is with exactly one call that is in the backend or back in the
\* semaphore, whether calls end, raise or are cancelled at any await.
PermitsAreConserved == permits + Cardinality(Calling) = Concurrency

\* The breaker's state and its count agree, although calls admitted before
\* it opened may still end in any order: it is closed exactly when fewer
\* than failure_threshold failures came since the last success.
BreakerMatchesCount == state = "closed" <=> failures < Threshold

\* An open circuit comes to admit calls again, however many it refuses
\* meanwhile, once no call is stuck in the backend.
BreakerRecovers == state = "open" ~> BeforeCallAdmits

\* Once no more calls arrive, everyone is served whose estimate fits the
\* bucket: no refill, permit or place in line is lost to those before it.
EveryoneIsServed ==
    (closed /\ \A c \in Callers : estimate[c] <= Capacity["tokens"])
        ~> \A c \in Callers : pc[c] = "idle"

\* Why the safety properties hold.
\* A caller stands in line exactly once while it waits for its permit.
LineIsExact ==
    /\ \A c \in Callers :
        pc[c] = "semaphore" <=> \E n \in 1 .. Len(line) : line[n] = c
    /\ \A m, n \in 1 .. Len(line) : line[m] = line[n] => m = n

\* What a bucket granted in the window, and what it could grant now, is within
\* what the window allows.
WindowIsWithinRate ==
    IF watching
    THEN \A b \in Buckets : granted[b] + Level(b) <= Capacity[b] + Rate[b] * window
    ELSE window = 0 /\ \A b \in Buckets : granted[b] = 0

InductiveInvariant ==
    /\ TypeOK
    /\ PermitsAreConserved
    /\ LineIsExact
    /\ BreakerMatchesCount
    /\ WindowIsWithinRate
=============================================================================
