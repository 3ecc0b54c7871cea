------------------------ MODULE ManagedProviderProofs ------------------------
(***************************************************************************)
(* Proofs about ManagedProvider.tla, for every number of callers, permits, *)
(* capacities, rates and thresholds.                                       *)
(***************************************************************************)
EXTENDS ManagedProvider, FiniteSetTheorems, SequenceTheorems, TLAPS

USE ProviderAssumption

-----------------------------------------------------------------------------
(* Facts about the operators.                                              *)

\* The calls in the backend are finitely many, so they can be counted.
LEMMA CallingIsFinite == IsFiniteSet(Calling) /\ Cardinality(Calling) \in Nat
BY FS_Subset, FS_CardinalityType DEF Calling

\* One call more in the backend, or one less.
LEMMA CallingCount ==
    ASSUME NEW c \in Callers
    PROVE  /\ c \notin Calling =>
                Cardinality(Calling \cup {c}) = Cardinality(Calling) + 1
           /\ c \in Calling =>
                Cardinality(Calling \ {c}) = Cardinality(Calling) - 1
BY CallingIsFinite, FS_AddElement, FS_RemoveElement

\* A bucket holds between nothing and its capacity.
LEMMA LevelFacts ==
    ASSUME TypeOK, NEW b \in Buckets
    PROVE  Level(b) \in Nat /\ Level(b) <= Capacity[b]
<1>1. balance[b] \in Nat /\ idle[b] \in Nat /\ Rate[b] \in Nat /\ Capacity[b] \in Nat
  BY DEF TypeOK
<1>2. idle[b] * Rate[b] \in Nat
  BY <1>1
<1>3. QED
  BY <1>1, <1>2 DEF Level, Lesser

\* A call needs a positive amount of either bucket.
LEMMA NeedFacts ==
    ASSUME TypeOK, NEW c \in Callers, NEW b \in Buckets
    PROVE  Need(c, b) \in Nat
BY DEF TypeOK, Need

\* What removing one place from the line leaves.
LEMMA RemovedPlace ==
    ASSUME line \in Seq(Callers), NEW n \in 1 .. Len(line)
    PROVE  /\ RemoveAt(line, n) \in Seq(Callers)
           /\ Len(RemoveAt(line, n)) = Len(line) - 1
           /\ \A m \in 1 .. Len(line) - 1 :
                RemoveAt(line, n)[m] = IF m < n THEN line[m] ELSE line[m + 1]
<1> DEFINE front == SubSeq(line, 1, n - 1)
           back == SubSeq(line, n + 1, Len(line))
<1>1. /\ front \in Seq(Callers) /\ Len(front) = n - 1
      /\ \A m \in 1 .. n - 1 : front[m] = line[m]
  OBVIOUS
<1>2. /\ back \in Seq(Callers) /\ Len(back) = Len(line) - n
      /\ \A m \in 1 .. Len(line) - n : back[m] = line[n + m]
  OBVIOUS
<1>3. RemoveAt(line, n) = front \o back
  BY DEF RemoveAt
<1> HIDE DEF front, back
<1>n. Len(line) \in Nat /\ n \in Nat
  OBVIOUS
<1>4. /\ front \o back \in Seq(Callers)
      /\ Len(front \o back) = Len(line) - 1
  <2>1. front \o back \in Seq(Callers)
    BY <1>1, <1>2, ConcatProperties, Zenon
  <2>2. Len(front \o back) = Len(front) + Len(back)
    <3>1. front \in Seq(Callers) /\ back \in Seq(Callers)
      BY <1>1, <1>2
    <3>2. QED
      BY ONLY <3>1, ConcatProperties
  <2>3. QED
    BY <2>1, <2>2, <1>1, <1>2, <1>n
<1>5. ASSUME NEW m \in 1 .. Len(line) - 1
      PROVE  (front \o back)[m] = IF m < n THEN line[m] ELSE line[m + 1]
  <2>0. m \in Int /\ n \in Int /\ (m < n \/ m >= n)
    BY <1>n
  <2>1. (front \o back)[m] = IF m <= Len(front) THEN front[m] ELSE back[m - Len(front)]
    BY <1>1, <1>2, <1>n, ConcatProperties
  <2>2. CASE m < n
    BY <2>1, <2>2, <1>1, <1>n
  <2>3. CASE m >= n
    <3>1. m - (n - 1) \in 1 .. Len(line) - n
      BY <2>3
    <3>2. back[m - (n - 1)] = line[n + (m - (n - 1))]
      BY <3>1, <1>2
    <3>3. QED
      BY <2>1, <2>3, <3>2, <1>1, <1>n
  <2>4. QED
    BY <2>2, <2>3, <2>0
<1>6. QED
  BY <1>3, <1>4, <1>5

\* The initial state satisfies the invariant.
LEMMA InitInvariant == Init => InductiveInvariant
<1> SUFFICES ASSUME Init PROVE InductiveInvariant
  OBVIOUS
<1>1. Calling = {}
  BY DEF Init, Calling
<1>2. PermitsAreConserved
  BY <1>1, FS_EmptySet DEF Init, PermitsAreConserved
<1>3. TypeOK
  <2>1. Capacity \in [Buckets -> Nat \ {0}]
    BY DEF ProviderAssumption
  <2>2. /\ balance \in [Buckets -> Nat]
        /\ \A b \in Buckets : balance[b] <= Capacity[b]
    BY <2>1 DEF Init
  <2>3. idle \in [Buckets -> Nat] /\ granted \in [Buckets -> Nat]
    BY DEF Init
  <2>4. /\ pc \in [Callers -> {"idle", "requests", "tokens", "semaphore", "calling"}]
        /\ estimate \in [Callers -> Nat \ {0}]
        /\ sleep \in [Callers -> Nat]
    BY DEF Init
  <2>5. /\ failures \in 0 .. Threshold /\ openFor \in 0 .. Recovery
        /\ permits \in 0 .. Concurrency /\ window \in 0 .. MaxWindow
    BY DEF Init
  <2>6. line \in Seq(Callers)
    BY DEF Init
  <2>7. /\ state \in {"closed", "open", "half_open"}
        /\ closed \in BOOLEAN /\ watching \in BOOLEAN
    BY DEF Init
  <2>8. QED
    BY <2>2, <2>3, <2>4, <2>5, <2>6, <2>7 DEF TypeOK
<1>4. LineIsExact
  BY DEF Init, LineIsExact
<1>5. WindowIsWithinRate /\ BreakerMatchesCount
  BY DEF Init, WindowIsWithinRate, BreakerMatchesCount
<1>6. QED
  BY <1>2, <1>3, <1>4, <1>5 DEF InductiveInvariant

-----------------------------------------------------------------------------
(* Every step preserves each part of the invariant.                        *)

\* Where a step leaves the phases of the calls.
PhaseMoves(c, phase) == pc' = [pc EXCEPT ![c] = phase]

\* A call that moves between phases before the backend leaves Calling alone.
LEMMA CallingKept ==
    ASSUME TypeOK, NEW c \in Callers, NEW phase,
           pc[c] # "calling", phase # "calling", PhaseMoves(c, phase)
    PROVE  Calling' = Calling
BY DEF TypeOK, PhaseMoves, Calling

\* A call that enters the backend is added, one that leaves it is taken out.
LEMMA CallingMoves ==
    ASSUME TypeOK, NEW c \in Callers
    PROVE  /\ PhaseMoves(c, "calling") => Calling' = Calling \cup {c}
           /\ PhaseMoves(c, "idle") => Calling' = Calling \ {c}
BY DEF TypeOK, PhaseMoves, Calling

\* The head of the line waits for its permit.
LEMMA HeadWaits ==
    ASSUME TypeOK, LineIsExact, line # <<>>
    PROVE  /\ Len(line) \in Nat \ {0}
           /\ Head(line) = line[1] /\ Head(line) \in Callers
           /\ pc[Head(line)] = "semaphore"
<1>1. line \in Seq(Callers)
  BY DEF TypeOK
<1>2. Len(line) \in Nat \ {0} /\ Head(line) = line[1] /\ line[1] \in Callers
  BY <1>1
<1>3. 1 \in 1 .. Len(line)
  BY <1>2
<1>4. QED
  BY <1>2, <1>3 DEF LineIsExact

\* The permits and the calls in the backend keep adding up.
LEMMA PermitsStep ==
    ASSUME InductiveInvariant, Next
    PROVE  PermitsAreConserved' /\ permits' \in 0 .. Concurrency
<1> USE DEF InductiveInvariant
<1>0. /\ permits \in 0 .. Concurrency /\ Concurrency \in Nat
      /\ Cardinality(Calling) \in Nat /\ IsFiniteSet(Calling)
      /\ permits + Cardinality(Calling) = Concurrency
  BY CallingIsFinite DEF TypeOK, PermitsAreConserved
<1> DEFINE Kept == permits' = permits /\ Calling' = Calling
<1>a. ASSUME Kept PROVE PermitsAreConserved' /\ permits' \in 0 .. Concurrency
  BY <1>0, <1>a DEF PermitsAreConserved
<1>b. ASSUME NEW c \in Callers, PhaseMoves(c, "idle"), pc[c] = "calling",
             permits' = permits + 1
      PROVE  PermitsAreConserved' /\ permits' \in 0 .. Concurrency
  <2>1. c \in Calling /\ Calling' = Calling \ {c}
    BY <1>b, CallingMoves DEF Calling
  <2>2. Cardinality(Calling') = Cardinality(Calling) - 1
    BY <2>1, CallingCount
  <2>3. Cardinality(Calling') \in Nat
    BY <2>1, <1>0, FS_Subset, FS_CardinalityType
  <2>4. QED
    BY <2>2, <2>3, <1>0, <1>b DEF PermitsAreConserved
<1>1. ASSUME NEW c \in Callers, NEW n \in Estimates, Enter(c, n) PROVE Kept
  BY <1>1, CallingKept DEF Enter, PhaseMoves, semaphore
<1>2. ASSUME NEW c \in Callers, Reject(c) PROVE Kept
  BY <1>2 DEF Reject, semaphore, calls, Calling
<1>3. ASSUME NEW c \in Callers, NEW b \in Buckets, Grant(c, b) PROVE Kept
  <2>1. pc[c] # "calling" /\ After(b) # "calling"
    BY <1>3 DEF Grant, After, Buckets
  <2>2. QED
    BY <1>3, <2>1, CallingKept DEF Grant, PhaseMoves
<1>4. ASSUME NEW c \in Callers, NEW b \in Buckets, Wait(c, b) PROVE Kept
  BY <1>4 DEF Wait, semaphore, Calling
<1>5. ASSUME NEW c \in Callers, AcquirePermit(c)
      PROVE  PermitsAreConserved' /\ permits' \in 0 .. Concurrency
  <2>1. c \notin Calling /\ Calling' = Calling \cup {c}
    BY <1>5, HeadWaits, CallingMoves DEF AcquirePermit, PhaseMoves, Calling
  <2>2. Cardinality(Calling') = Cardinality(Calling) + 1
    BY <2>1, CallingCount
  <2>3. permits' = permits - 1 /\ permits > 0
    BY <1>5 DEF AcquirePermit
  <2>4. QED
    BY <2>2, <2>3, <1>0 DEF PermitsAreConserved
<1>6. ASSUME NEW c \in Callers, CallEnds(c)
      PROVE  PermitsAreConserved' /\ permits' \in 0 .. Concurrency
  BY <1>6, <1>b DEF CallEnds, ProviderAnswers, ProviderRaises, Leave, PhaseMoves
<1>7. ASSUME NEW c \in Callers, Cancelled(c)
      PROVE  PermitsAreConserved' /\ permits' \in 0 .. Concurrency
  <2>1. CASE pc[c] = "calling"
    BY <1>7, <2>1, <1>b DEF Cancelled, Release, Leave, PhaseMoves
  <2>2. CASE pc[c] # "calling"
    BY <1>7, <2>2, <1>a, CallingKept DEF Cancelled, Release, Leave, PhaseMoves
  <2>3. QED
    BY <2>1, <2>2
<1>8. ASSUME Tick \/ Close \/ Watch \/ LookAway PROVE Kept
  BY <1>8 DEF Tick, Close, Watch, LookAway, semaphore, calls, Calling
<1>9. QED
  BY <1>1, <1>2, <1>3, <1>4, <1>5, <1>6, <1>7, <1>8, <1>a
  DEF Next, Arrival, CallStep

\* The breaker keeps its types, and stays closed exactly below the threshold.
LEMMA BreakerStep ==
    ASSUME InductiveInvariant, Next
    PROVE  /\ BreakerMatchesCount'
           /\ state' \in {"closed", "open", "half_open"}
           /\ failures' \in 0 .. Threshold /\ openFor' \in 0 .. Recovery
<1> DEFINE Goal == /\ BreakerMatchesCount'
                   /\ state' \in {"closed", "open", "half_open"}
                   /\ failures' \in 0 .. Threshold /\ openFor' \in 0 .. Recovery
<1>0. /\ state \in {"closed", "open", "half_open"}
      /\ failures \in 0 .. Threshold /\ Threshold \in Nat \ {0}
      /\ openFor \in 0 .. Recovery /\ Recovery \in Nat
      /\ state = "closed" <=> failures < Threshold
  BY DEF InductiveInvariant, TypeOK, BreakerMatchesCount
<1>1. ASSUME UNCHANGED breaker PROVE Goal
  BY <1>0, <1>1 DEF breaker, BreakerMatchesCount
<1>2. ASSUME NEW c \in Callers, NEW n \in Estimates, Enter(c, n) PROVE Goal
  BY <1>0, <1>2 DEF Enter, BreakerMatchesCount
<1>3. ASSUME Success PROVE Goal
  BY <1>0, <1>3 DEF Success, BreakerMatchesCount
<1>4. ASSUME Failure PROVE Goal
  <2>1. failures' = IF failures < Threshold THEN failures + 1 ELSE Threshold
    BY <1>0, <1>4 DEF Failure, Lesser
  <2>2. CASE state = "half_open" \/ failures + 1 >= Threshold
    BY <2>1, <2>2, <1>0, <1>4 DEF Failure, BreakerMatchesCount
  <2>3. CASE ~(state = "half_open" \/ failures + 1 >= Threshold)
    BY <2>1, <2>3, <1>0, <1>4 DEF Failure, BreakerMatchesCount
  <2>4. QED
    BY <2>2, <2>3
<1>5. ASSUME Tick PROVE Goal
  BY <1>0, <1>5 DEF Tick, Lesser, BreakerMatchesCount
<1>6. ASSUME NEW c \in Callers, CallEnds(c) PROVE Goal
  BY <1>6, <1>3, <1>4 DEF CallEnds, ProviderAnswers, ProviderRaises
<1>7. ASSUME NEW c \in Callers, Reject(c) \/ CallStep(c) \/ Cancelled(c)
      PROVE  Goal
  BY <1>7, <1>1 DEF Reject, Rejection, CallStep, Grant, Wait, AcquirePermit,
                    Cancelled
<1>8. ASSUME Close \/ Watch \/ LookAway PROVE Goal
  BY <1>8, <1>1 DEF Close, Watch, LookAway
<1>9. QED
  BY <1>2, <1>5, <1>6, <1>7, <1>8 DEF Next, Arrival

\* How long a call sleeps for the missing part of its need.
LEMMA SleepFacts ==
    ASSUME TypeOK, NEW c \in Callers, NEW b \in Buckets,
           Level(b) < Need(c, b)
    PROVE  (Need(c, b) - Level(b) + Rate[b] - 1) \div Rate[b] \in Nat
<1>1. Need(c, b) \in Nat /\ Level(b) \in Nat /\ Rate[b] \in Nat \ {0}
  BY LevelFacts, NeedFacts
<1> DEFINE missing == Need(c, b) - Level(b) + Rate[b] - 1
<1>2. missing \in Nat
  BY <1>1
<1> HIDE DEF missing
<1>3. missing \div Rate[b] \in Nat
  BY <1>1, <1>2
<1>4. QED
  BY <1>3 DEF missing

\* The calls keep their types.
LEMMA CallsTypeStep ==
    ASSUME InductiveInvariant, Next
    PROVE  /\ pc' \in [Callers -> {"idle", "requests", "tokens", "semaphore", "calling"}]
           /\ estimate' \in [Callers -> Nat \ {0}]
           /\ sleep' \in [Callers -> Nat]
           /\ closed' \in BOOLEAN
<1> DEFINE Phases == {"idle", "requests", "tokens", "semaphore", "calling"}
           Goal == /\ pc' \in [Callers -> Phases]
                   /\ estimate' \in [Callers -> Nat \ {0}]
                   /\ sleep' \in [Callers -> Nat]
                   /\ closed' \in BOOLEAN
<1>0. /\ pc \in [Callers -> Phases] /\ estimate \in [Callers -> Nat \ {0}]
      /\ sleep \in [Callers -> Nat] /\ closed \in BOOLEAN /\ TypeOK
  BY DEF InductiveInvariant, TypeOK
<1>1. ASSUME NEW c \in Callers, NEW n \in Estimates, Enter(c, n) PROVE Goal
  <2>1. n \in Nat \ {0}
    BY ProviderAssumption
  <2>2. QED
    BY <1>0, <1>1, <2>1 DEF Enter
<1>2. ASSUME NEW c \in Callers, NEW b \in Buckets, Grant(c, b) PROVE Goal
  BY <1>0, <1>2 DEF Grant, After
<1>3. ASSUME NEW c \in Callers, NEW b \in Buckets, Wait(c, b) PROVE Goal
  <2>1. (Need(c, b) - Level(b) + Rate[b] - 1) \div Rate[b] \in Nat
    BY <1>0, <1>3, SleepFacts DEF Wait
  <2>2. QED
    BY <1>0, <1>3, <2>1 DEF Wait
<1>4. ASSUME NEW c \in Callers, AcquirePermit(c) PROVE Goal
  BY <1>0, <1>4 DEF AcquirePermit
<1>5. ASSUME NEW c \in Callers, CallEnds(c) \/ Cancelled(c) PROVE Goal
  BY <1>0, <1>5 DEF CallEnds, ProviderAnswers, ProviderRaises, Cancelled, Leave
<1>6. ASSUME Tick PROVE Goal
  BY <1>0, <1>6 DEF Tick
<1>7. ASSUME NEW c \in Callers, Reject(c) PROVE Goal
  BY <1>0, <1>7 DEF Reject, calls
<1>8. ASSUME Close \/ Watch \/ LookAway PROVE Goal
  BY <1>0, <1>8 DEF Close, Watch, LookAway, calls
<1>9. QED
  BY <1>1, <1>2, <1>3, <1>4, <1>5, <1>6, <1>7, <1>8
  DEF Next, Arrival, CallStep

\* Taking one place out of an exact line, and its caller out of the phase,
\* leaves an exact line.
LEMMA PlaceLeaves ==
    ASSUME TypeOK, LineIsExact, NEW n \in 1 .. Len(line), NEW phase,
           phase # "semaphore", PhaseMoves(line[n], phase),
           line' \in Seq(Callers), Len(line') = Len(line) - 1,
           \A m \in 1 .. Len(line) - 1 :
                line'[m] = IF m < n THEN line[m] ELSE line[m + 1]
    PROVE  LineIsExact'
<1>0. /\ line \in Seq(Callers) /\ Len(line) \in Nat /\ n \in Nat
      /\ line[n] \in Callers
      /\ \A c \in Callers : pc'[c] = IF c = line[n] THEN phase ELSE pc[c]
  BY DEF TypeOK, PhaseMoves
<1>1. \A m \in 1 .. Len(line) : \A k \in 1 .. Len(line) : line[m] = line[k] => m = k
  BY DEF LineIsExact
<1> DEFINE was(m) == IF m < n THEN m ELSE m + 1
<1>2. \A m \in 1 .. Len(line) - 1 :
        was(m) \in 1 .. Len(line) /\ was(m) # n /\ line'[m] = line[was(m)]
  BY <1>0
<1>3. \A m \in 1 .. Len(line'), k \in 1 .. Len(line') : line'[m] = line'[k] => m = k
  <2> SUFFICES ASSUME NEW m \in 1 .. Len(line) - 1, NEW k \in 1 .. Len(line) - 1,
                      line'[m] = line'[k]
               PROVE  m = k
    OBVIOUS
  <2>1. was(m) = was(k)
    BY <1>1, <1>2
  <2>2. QED
    BY <2>1, <1>0
<1>4. ASSUME NEW c \in Callers
      PROVE  pc'[c] = "semaphore" <=> \E m \in 1 .. Len(line') : line'[m] = c
  <2>1. CASE c = line[n]
    <3>1. pc'[c] # "semaphore"
      BY <1>0, <2>1
    <3>2. \A m \in 1 .. Len(line) - 1 : line'[m] # c
      BY <1>1, <1>2, <2>1
    <3>3. QED
      BY <3>1, <3>2
  <2>2. CASE c # line[n]
    <3>1. pc'[c] = pc[c]
      BY <1>0, <2>2
    <3>2. ASSUME NEW m \in 1 .. Len(line), line[m] = c
          PROVE  \E k \in 1 .. Len(line) - 1 : line'[k] = c
      <4>1. m # n
        BY <2>2, <3>2
      <4>2. CASE m < n
        <5>1. m \in 1 .. Len(line) - 1 /\ line'[m] = c
          BY <4>2, <3>2, <1>0
        <5>2. QED
          BY <5>1
      <4>3. CASE m > n
        <5>1. m - 1 \in 1 .. Len(line) - 1 /\ ~(m - 1 < n) /\ (m - 1) + 1 = m
          BY <4>3, <1>0
        <5>2. line'[m - 1] = c
          BY <5>1, <3>2
        <5>3. QED
          BY <5>1, <5>2
      <4>4. QED
        BY <4>1, <4>2, <4>3, <1>0
    <3>3. QED
      BY <3>1, <3>2, <1>2 DEF LineIsExact
  <2>3. QED
    BY <2>1, <2>2
<1>5. QED
  BY <1>3, <1>4 DEF LineIsExact

\* The line stays exact: joining at its end, leaving by its head or, when
\* cancelled, from the middle.
LEMMA LineStep ==
    ASSUME InductiveInvariant, Next
    PROVE  line' \in Seq(Callers) /\ LineIsExact'
<1> DEFINE Goal == line' \in Seq(Callers) /\ LineIsExact'
<1>0. /\ TypeOK /\ LineIsExact /\ line \in Seq(Callers) /\ Len(line) \in Nat
      /\ pc \in [Callers -> {"idle", "requests", "tokens", "semaphore", "calling"}]
  BY DEF InductiveInvariant, TypeOK
<1>1. ASSUME line' = line,
             \A c \in Callers : pc'[c] = "semaphore" <=> pc[c] = "semaphore"
      PROVE  Goal
  BY <1>0, <1>1 DEF LineIsExact
<1>2. ASSUME NEW c \in Callers, NEW phase, phase # "semaphore",
             pc[c] # "semaphore", PhaseMoves(c, phase), line' = line
      PROVE  Goal
  BY <1>0, <1>1, <1>2 DEF PhaseMoves
<1>3. ASSUME NEW c \in Callers, NEW n \in Estimates, Enter(c, n) PROVE Goal
  BY <1>3, <1>2 DEF Enter, semaphore, PhaseMoves
<1>4. ASSUME NEW c \in Callers, Grant(c, "requests") PROVE Goal
  BY <1>4, <1>2 DEF Grant, After, PhaseMoves
<1>5. ASSUME NEW c \in Callers, Grant(c, "tokens") PROVE Goal
  <2>1. /\ line' = Append(line, c) /\ pc[c] = "tokens"
        /\ \A d \in Callers : pc'[d] = IF d = c THEN "semaphore" ELSE pc[d]
    BY <1>0, <1>5 DEF Grant, After
  <2>2. /\ line' \in Seq(Callers) /\ Len(line') = Len(line) + 1
        /\ \A m \in 1 .. Len(line) : line'[m] = line[m]
        /\ line'[Len(line) + 1] = c
    BY <2>1, <1>0
  <2>3. \A m \in 1 .. Len(line) : line[m] # c
    BY <2>1, <1>0 DEF LineIsExact
  <2>4. \A m, k \in 1 .. Len(line') : line'[m] = line'[k] => m = k
    <3> SUFFICES ASSUME NEW m \in 1 .. Len(line) + 1, NEW k \in 1 .. Len(line) + 1,
                        line'[m] = line'[k]
                 PROVE  m = k
      BY <2>2
    <3>1. CASE m \in 1 .. Len(line) /\ k \in 1 .. Len(line)
      BY <3>1, <2>2, <1>0 DEF LineIsExact
    <3>2. CASE m = Len(line) + 1 \/ k = Len(line) + 1
      BY <3>2, <2>2, <2>3, <1>0
    <3>3. QED
      BY <3>1, <3>2, <1>0
  <2>5. ASSUME NEW d \in Callers
        PROVE  pc'[d] = "semaphore" <=> \E m \in 1 .. Len(line') : line'[m] = d
    <3>1. CASE d = c
      <4>1. Len(line) + 1 \in 1 .. Len(line')
        BY <2>2, <1>0
      <4>2. QED
        BY <3>1, <4>1, <2>1, <2>2
    <3>2. CASE d # c
      <4>1. \A m \in 1 .. Len(line') : line'[m] = d => m \in 1 .. Len(line)
        BY <3>2, <2>2, <1>0
      <4>2. \A m \in 1 .. Len(line) : m \in 1 .. Len(line')
        BY <2>2, <1>0
      <4>3. QED
        BY <3>2, <4>1, <4>2, <2>1, <2>2, <1>0 DEF LineIsExact
    <3>3. QED
      BY <3>1, <3>2
  <2>6. QED
    BY <2>2, <2>4, <2>5 DEF LineIsExact
<1>6. ASSUME NEW c \in Callers, NEW b \in Buckets, Wait(c, b) PROVE Goal
  BY <1>6, <1>1 DEF Wait, semaphore
<1>7. ASSUME NEW c \in Callers, AcquirePermit(c) PROVE Goal
  <2>1. /\ Len(line) \in Nat \ {0} /\ c = line[1] /\ PhaseMoves(line[1], "calling")
        /\ line' = Tail(line)
    BY <1>0, <1>7, HeadWaits DEF AcquirePermit, PhaseMoves
  <2>2. /\ line' \in Seq(Callers) /\ Len(line') = Len(line) - 1
        /\ \A m \in 1 .. Len(line) - 1 : line'[m] = line[m + 1]
    BY <2>1, <1>0
  <2>3. 1 \in 1 .. Len(line) /\ \A m \in 1 .. Len(line) - 1 : ~(m < 1)
    BY <2>1
  <2>4. QED
    BY <2>1, <2>2, <2>3, <1>0, PlaceLeaves
<1>8. ASSUME NEW c \in Callers, CallEnds(c) PROVE Goal
  BY <1>8, <1>2 DEF CallEnds, ProviderAnswers, ProviderRaises, Leave, PhaseMoves
<1>9. ASSUME NEW c \in Callers, Cancelled(c) PROVE Goal
  <2>1. CASE pc[c] # "semaphore"
    BY <1>9, <2>1, <1>2 DEF Cancelled, LeaveLine, Leave, PhaseMoves
  <2>2. CASE pc[c] = "semaphore"
    <3>1. PICK n \in 1 .. Len(line) : line[n] = c /\ line' = RemoveAt(line, n)
      BY <1>9, <2>2 DEF Cancelled, LeaveLine
    <3>2. PhaseMoves(line[n], "idle")
      BY <1>9, <3>1 DEF Cancelled, Leave, PhaseMoves
    <3>3. /\ line' \in Seq(Callers) /\ Len(line') = Len(line) - 1
          /\ \A m \in 1 .. Len(line) - 1 :
                line'[m] = IF m < n THEN line[m] ELSE line[m + 1]
      BY <3>1, <1>0, RemovedPlace
    <3>4. QED
      BY <3>2, <3>3, <1>0, PlaceLeaves
  <2>3. QED
    BY <2>1, <2>2
<1>10. ASSUME Tick \/ Close \/ Watch \/ LookAway PROVE Goal
  BY <1>10, <1>1 DEF Tick, Close, Watch, LookAway, semaphore, calls
<1>11. ASSUME NEW c \in Callers, Reject(c) PROVE Goal
  BY <1>11, <1>1 DEF Reject, semaphore, calls
<1>12. QED
  BY <1>3, <1>4, <1>5, <1>6, <1>7, <1>8, <1>9, <1>10, <1>11
  DEF Next, Arrival, CallStep, Buckets

\* A tick adds no more than the rate to what a bucket could grant; the age it
\* stops counting at, the capacity, is one by which the bucket is full.
LEMMA TickLevel ==
    ASSUME TypeOK, Tick, NEW b \in Buckets
    PROVE  Level(b)' <= Level(b) + Rate[b]
<1> DEFINE cap == Capacity[b]
           age == idle[b]
           rate == Rate[b]
           bal == balance[b]
<1>1. cap \in Nat /\ age \in Nat /\ rate \in Nat \ {0} /\ bal \in Nat
  BY DEF TypeOK
<1>2. /\ Level(b) = Lesser(cap, bal + age * rate)
      /\ Level(b)' = Lesser(cap, bal + Lesser(age + 1, cap) * rate)
  BY DEF Level, Tick
<1> HIDE DEF cap, age, rate, bal
<1>3. age * rate \in Nat
  BY <1>1
<1>4. CASE age + 1 < cap
  <2>1. Lesser(age + 1, cap) * rate = age * rate + rate
    BY <1>1, <1>4 DEF Lesser
  <2>2. Lesser(cap, bal + (age * rate + rate)) <= Lesser(cap, bal + age * rate) + rate
    BY <1>1, <1>3 DEF Lesser
  <2>3. QED
    BY <1>2, <2>1, <2>2 DEF rate
<1>5. CASE age + 1 = cap
  <2>1. Lesser(age + 1, cap) * rate = age * rate + rate
    BY <1>1, <1>5 DEF Lesser
  <2>2. Lesser(cap, bal + (age * rate + rate)) <= Lesser(cap, bal + age * rate) + rate
    BY <1>1, <1>3 DEF Lesser
  <2>3. QED
    BY <1>2, <2>1, <2>2 DEF rate
<1>6. CASE age >= cap
  <2>1. age * rate >= age
    BY <1>1
  <2>2. Lesser(cap, bal + age * rate) = cap
    BY <1>1, <1>3, <1>6, <2>1 DEF Lesser
  <2>3. Lesser(age + 1, cap) * rate \in Nat
    BY <1>1, <1>6 DEF Lesser
  <2>4. /\ Lesser(cap, bal + Lesser(age + 1, cap) * rate) <= cap
        /\ Lesser(cap, bal + Lesser(age + 1, cap) * rate) \in Nat
    BY <1>1, <2>3 DEF Lesser
  <2>5. QED
    BY <1>1, <1>2, <2>2, <2>4 DEF rate
<1>7. QED
  BY <1>1, <1>4, <1>5, <1>6

\* Refilling a bucket, and taking d out of it, changes what it could grant by
\* d, and leaves the other bucket alone.
LEMMA BucketMoves ==
    ASSUME TypeOK, NEW b \in Buckets, NEW d \in Nat, d <= Level(b),
           balance' = [balance EXCEPT ![b] = Level(b) - d],
           idle' = [idle EXCEPT ![b] = 0]
    PROVE  /\ balance' \in [Buckets -> Nat] /\ idle' \in [Buckets -> Nat]
           /\ \A e \in Buckets : balance'[e] <= Capacity[e]
           /\ \A e \in Buckets :
                Level(e)' = IF e = b THEN Level(b) - d ELSE Level(e)
<1>1. /\ balance \in [Buckets -> Nat] /\ idle \in [Buckets -> Nat]
      /\ \A e \in Buckets : balance[e] <= Capacity[e] /\ Capacity[e] \in Nat
                             /\ Rate[e] \in Nat
      /\ Level(b) \in Nat /\ Level(b) <= Capacity[b]
  BY LevelFacts DEF TypeOK
<1>2. Level(b) - d \in Nat /\ Level(b) - d <= Capacity[b]
  BY <1>1
<1>3. /\ balance' \in [Buckets -> Nat] /\ idle' \in [Buckets -> Nat]
      /\ \A e \in Buckets : balance'[e] <= Capacity[e]
  BY <1>1, <1>2
<1>4. ASSUME NEW e \in Buckets, e # b PROVE Level(e)' = Level(e)
  BY <1>1, <1>4 DEF Level
<1>5. Level(b)' = Level(b) - d
  <2> DEFINE left == Level(b) - d
  <2>1. balance'[b] = left /\ idle'[b] = 0
    BY <1>1
  <2>2. Level(b)' = Lesser(Capacity[b], balance'[b] + idle'[b] * Rate[b])
    BY DEF Level
  <2>3. left \in Nat /\ left <= Capacity[b]
    BY <1>2
  <2> HIDE DEF left
  <2>4. Lesser(Capacity[b], left + 0 * Rate[b]) = left
    BY <1>1, <2>3 DEF Lesser
  <2>5. QED
    BY <2>1, <2>2, <2>4 DEF left
<1>6. QED
  BY <1>3, <1>4, <1>5

\* The buckets keep their types, and their grants stay within the window's
\* allowance.
LEMMA WindowStep ==
    ASSUME InductiveInvariant, Next
    PROVE  /\ balance' \in [Buckets -> Nat] /\ idle' \in [Buckets -> Nat]
           /\ \A b \in Buckets : balance'[b] <= Capacity[b]
           /\ watching' \in BOOLEAN /\ window' \in 0 .. MaxWindow
           /\ granted' \in [Buckets -> Nat]
           /\ WindowIsWithinRate'
<1> DEFINE Stored == /\ balance' \in [Buckets -> Nat] /\ idle' \in [Buckets -> Nat]
                     /\ \A b \in Buckets : balance'[b] <= Capacity[b]
           Watched == /\ watching' \in BOOLEAN /\ window' \in 0 .. MaxWindow
                      /\ granted' \in [Buckets -> Nat]
                      /\ WindowIsWithinRate'
<1>0. /\ TypeOK /\ WindowIsWithinRate
      /\ balance \in [Buckets -> Nat] /\ idle \in [Buckets -> Nat]
      /\ watching \in BOOLEAN /\ window \in 0 .. MaxWindow /\ MaxWindow \in Nat
      /\ granted \in [Buckets -> Nat]
      /\ \A b \in Buckets :
            /\ Level(b) \in Nat /\ Level(b) <= Capacity[b] /\ balance[b] <= Capacity[b]
            /\ Capacity[b] \in Nat /\ Rate[b] \in Nat
            /\ Rate[b] * window \in Nat
  BY SMTT(60), LevelFacts DEF InductiveInvariant, TypeOK
<1>1. ASSUME UNCHANGED <<buckets, observer>> PROVE Stored /\ Watched
  <2>1. \A b \in Buckets : Level(b)' = Level(b)
    BY <1>1 DEF buckets, Level
  <2>2. QED
    BY <1>0, <1>1, <2>1 DEF buckets, observer, WindowIsWithinRate
<1>2. ASSUME NEW c \in Callers, NEW b \in Buckets, Grant(c, b)
      PROVE  Stored /\ Watched
  <2>1. Need(c, b) \in Nat /\ Need(c, b) <= Level(b)
    BY <1>0, <1>2, NeedFacts DEF Grant
  <2>2. /\ Stored
        /\ \A e \in Buckets :
              Level(e)' = IF e = b THEN Level(b) - Need(c, b) ELSE Level(e)
    BY <1>0, <1>2, <2>1, BucketMoves DEF Grant
  <2>3. CASE watching
    <3>1. /\ granted' = [granted EXCEPT ![b] = @ + Need(c, b)]
          /\ watching' /\ watching' = watching /\ window' = window
      BY <1>2, <2>3 DEF Grant
    <3>2. granted' \in [Buckets -> Nat]
      BY <3>1, <2>1, <1>0
    <3>3. ASSUME NEW e \in Buckets
          PROVE  granted'[e] + Level(e)' = granted[e] + Level(e)
      BY <3>1, <2>1, <2>2, <1>0
    <3>4. QED
      BY <3>1, <3>2, <3>3, <2>2, <2>3, <1>0 DEF WindowIsWithinRate
  <2>4. CASE ~watching
    BY <1>0, <1>2, <2>2, <2>4 DEF Grant, WindowIsWithinRate
  <2>5. QED
    BY <2>3, <2>4
<1>3. ASSUME NEW c \in Callers, NEW b \in Buckets, Wait(c, b)
      PROVE  Stored /\ Watched
  <2>0. Level(b) - 0 = Level(b) /\ 0 \in Nat /\ 0 <= Level(b)
    BY <1>0
  <2>1. /\ balance' = [balance EXCEPT ![b] = Level(b) - 0]
        /\ idle' = [idle EXCEPT ![b] = 0]
    BY <2>0, <1>3, Zenon DEF Wait, Refill
  <2>2. /\ Stored
        /\ \A e \in Buckets : Level(e)' = IF e = b THEN Level(b) - 0 ELSE Level(e)
    BY <1>0, <2>0, <2>1, BucketMoves
  <2>3. \A e \in Buckets : Level(e)' = Level(e)
    BY <2>2, <1>0
  <2>4. QED
    BY <1>0, <1>3, <2>2, <2>3 DEF Wait, observer, WindowIsWithinRate
<1>4. ASSUME Tick PROVE Stored /\ Watched
  <2>1. Stored
    BY <1>0, <1>4 DEF Tick, Lesser
  <2>2. \A b \in Buckets : Level(b)' <= Level(b) + Rate[b]
    BY <1>0, <1>4, TickLevel
  <2>3. /\ watching' = watching /\ granted' = granted
        /\ window' = IF watching THEN window + 1 ELSE window
        /\ watching => window < MaxWindow
    BY <1>4 DEF Tick
  <2>4. \A b \in Buckets : Level(b)' \in Int
    <3>1. \A b \in Buckets : balance'[b] \in Nat /\ idle'[b] \in Nat
      BY <2>1
    <3>2. \A b \in Buckets : idle'[b] * Rate[b] \in Nat
      BY <3>1, <1>0
    <3>3. QED
      BY <3>1, <3>2, <1>0 DEF Level, Lesser
  <2>5. CASE watching
    <3>1. ASSUME NEW b \in Buckets
          PROVE  granted'[b] + Level(b)' <= Capacity[b] + Rate[b] * window'
      <4>1. Rate[b] * window' = Rate[b] * window + Rate[b]
        BY <2>3, <2>5, <1>0
      <4>2. granted[b] + Level(b) <= Capacity[b] + Rate[b] * window
        BY <2>5, <1>0 DEF WindowIsWithinRate
      <4>3. granted'[b] = granted[b] /\ granted[b] \in Nat
        BY <2>3, <1>0
      <4>4. QED
        BY <4>1, <4>2, <4>3, <2>2, <2>4, <1>0
    <3>2. QED
      BY <3>1, <2>1, <2>3, <2>5, <1>0 DEF WindowIsWithinRate
  <2>6. CASE ~watching
    BY <1>0, <2>1, <2>3, <2>6 DEF WindowIsWithinRate
  <2>7. QED
    BY <2>5, <2>6
<1>5. ASSUME Watch PROVE Stored /\ Watched
  <2>1. \A b \in Buckets : Level(b)' = Level(b)
    BY <1>5 DEF Watch, buckets, Level
  <2>2. \A b \in Buckets : granted[b] = 0 /\ window = 0
    BY <1>0, <1>5 DEF Watch, WindowIsWithinRate
  <2>3. \A b \in Buckets :
          granted'[b] + Level(b)' <= Capacity[b] + Rate[b] * window'
    BY <2>1, <2>2, <1>0, <1>5 DEF Watch
  <2>4. QED
    BY <2>3, <1>0, <1>5 DEF Watch, buckets, WindowIsWithinRate
<1>6. ASSUME NEW c \in Callers, NEW n \in Estimates, Enter(c, n)
      PROVE  Stored /\ Watched
  BY <1>6, <1>1 DEF Enter
<1>7. ASSUME NEW c \in Callers,
             Reject(c) \/ AcquirePermit(c) \/ CallEnds(c) \/ Cancelled(c)
      PROVE  Stored /\ Watched
  BY <1>7, <1>1 DEF Reject, AcquirePermit, CallEnds, ProviderAnswers,
                    ProviderRaises, Cancelled, Leave
<1>8. ASSUME Close PROVE Stored /\ Watched
  BY <1>8, <1>1 DEF Close
<1>9. ASSUME LookAway PROVE Stored /\ Watched
  <2>1. Stored
    BY <1>9, <1>0 DEF LookAway, buckets
  <2>2. watching' = FALSE /\ window' = 0 /\ granted' = [b \in Buckets |-> 0]
    BY <1>9 DEF LookAway
  <2>3. WindowIsWithinRate'
    BY <2>2 DEF WindowIsWithinRate
  <2>4. window' \in 0 .. MaxWindow /\ granted' \in [Buckets -> Nat]
    BY <2>2, <1>0
  <2>5. QED
    BY <2>1, <2>2, <2>3, <2>4
<1>10. QED
  BY <1>2, <1>3, <1>4, <1>5, <1>6, <1>7, <1>8, <1>9 DEF Next, Arrival, CallStep

-----------------------------------------------------------------------------
(* The theorems.                                                           *)

\* One step of the runtime preserves the whole invariant.
LEMMA StepInvariant == InductiveInvariant /\ [Next]_vars => InductiveInvariant'
<1> SUFFICES ASSUME InductiveInvariant, [Next]_vars PROVE InductiveInvariant'
  OBVIOUS
<1>1. CASE Next
  BY <1>1, PermitsStep, BreakerStep, CallsTypeStep, LineStep, WindowStep
  DEF InductiveInvariant, TypeOK
<1>2. CASE UNCHANGED vars
  <2>1. TypeOK'
    BY <1>2 DEF vars, breaker, buckets, semaphore, calls, observer,
       InductiveInvariant, TypeOK
  <2>2. PermitsAreConserved' /\ BreakerMatchesCount'
    BY <1>2 DEF vars, breaker, semaphore, calls, InductiveInvariant,
       PermitsAreConserved, Calling, BreakerMatchesCount
  <2>3. LineIsExact'
    BY <1>2 DEF vars, semaphore, calls, InductiveInvariant, LineIsExact
  <2>4. \A b \in Buckets : Level(b)' = Level(b)
    BY <1>2 DEF vars, buckets, Level
  <2>5. WindowIsWithinRate'
    BY <1>2, <2>4 DEF vars, observer, InductiveInvariant, WindowIsWithinRate
  <2>6. QED
    BY <2>1, <2>2, <2>3, <2>5 DEF InductiveInvariant
<1>3. QED
  BY <1>1, <1>2

\* Every reachable state of the runtime satisfies the inductive invariant:
\* the types, the permits, an exact line, the breaker's count and the window.
THEOREM ProviderInvariant == Spec => []InductiveInvariant
<1>1. Init => InductiveInvariant
  BY InitInvariant
<1>2. InductiveInvariant /\ [Next]_vars => InductiveInvariant'
  BY StepInvariant
<1>3. QED
  BY <1>1, <1>2, PTL DEF Spec

\* No interleaving of refills, sleeps and cancellations lets a bucket grant
\* more than its capacity and its earnings in any stretch of time
\* (TokenBucket.acquire).
THEOREM RatesAreKept == Spec => []RateKept
<1>1. InductiveInvariant => RateKept
  <2> SUFFICES ASSUME InductiveInvariant, NEW b \in Buckets
               PROVE  granted[b] <= Capacity[b] + Rate[b] * window
    BY DEF RateKept
  <2>1. /\ Level(b) \in Nat /\ granted[b] \in Nat /\ Capacity[b] \in Nat
        /\ window \in Nat /\ Rate[b] \in Nat
    BY SMTT(60), LevelFacts DEF InductiveInvariant, TypeOK
  <2>2. Rate[b] * window \in Nat
    BY <2>1
  <2>3. QED
    BY <2>1, <2>2 DEF InductiveInvariant, WindowIsWithinRate
<1>2. QED
  BY <1>1, ProviderInvariant, PTL

\* Permits are neither lost nor made up, wherever calls are cancelled (the
\* semaphore of ManagedProvider).
THEOREM PermitsNeverLeak == Spec => []PermitsAreConserved
<1>1. InductiveInvariant => PermitsAreConserved
  BY DEF InductiveInvariant
<1>2. QED
  BY <1>1, ProviderInvariant, PTL

\* The circuit is closed exactly below the threshold, in whatever order the
\* calls admitted earlier end (CircuitBreaker.success, CircuitBreaker.failure).
THEOREM BreakerAgrees == Spec => []BreakerMatchesCount
<1>1. InductiveInvariant => BreakerMatchesCount
  BY DEF InductiveInvariant
<1>2. QED
  BY <1>1, ProviderInvariant, PTL
=============================================================================
