------------------------ MODULE EvidenceCallsProofs ------------------------
(***************************************************************************)
(* Proofs about EvidenceCalls.tla, for every number of workers, items and  *)
(* retries and every way the items share keys.                             *)
(***************************************************************************)
EXTENDS EvidenceCalls, FiniteSetTheorems, TLAPS

USE CallsAssumption

States == {"idle", "getting", "calling", "sleeping", "returned", "raised", "cancelled"}
Outcomes == Labels \cup Retryable \cup Fatal

\* A worker takes an item only if it exists.
LEMMA EndMarkersAreCounted == EndMarkers \in Nat /\ Produced \in Nat
BY FS_CardinalityType DEF EndMarkers, Produced

\* The key of the last item filed under it stands for that item.
LEMMA LastStays ==
    ASSUME NEW i \in Items, IsLast(i)
    PROVE  LastOf(KeyOf[i]) = i
<1>1. /\ LastOf(KeyOf[i]) \in Items
      /\ KeyOf[LastOf(KeyOf[i])] = KeyOf[i]
      /\ IsLast(LastOf(KeyOf[i]))
  BY DEF LastOf
<1>2. LastOf(KeyOf[i]) <= i /\ i <= LastOf(KeyOf[i])
  BY <1>1 DEF IsLast
<1>3. QED
  BY <1>1, <1>2 DEF Items

-----------------------------------------------------------------------------
(* Each step keeps the invariant.                                          *)

\* The command checks nothing in before it starts.
LEMMA InitEstablishes == Init => InductiveInvariant
<1> SUFFICES ASSUME Init PROVE InductiveInvariant
  OBVIOUS
<1>1. TypeOK
  BY DEF Init, TypeOK, Callers, Items
<1>2. WorkInv
  BY DEF Init, WorkInv, Callers, Items, Held
<1>3. LogInv
  BY DEF Init, LogInv, Callers
<1>4. StageInv
  BY DEF Init, StageInv, Callers
<1>5. RetriesAreEarned
  BY DEF Init, RetriesAreEarned
<1>6. QED
  BY <1>1, <1>2, <1>3, <1>4, <1>5 DEF InductiveInvariant

LEMMA CommandStepKeeps ==
    ASSUME InductiveInvariant, CommandStep
    PROVE  InductiveInvariant'
<1> USE DEF InductiveInvariant
<1>1. TypeOK'
  BY DEF TypeOK, CommandStep, RejectInput, BeginResolve, ResolveFails, BeginMap, MapFails,
     GiveUp, FinishMap, Close, pool, Callers, Artifact
<1>0. UNCHANGED <<put, got, results, item, attempt, log>>
  BY DEF CommandStep, RejectInput, BeginResolve, ResolveFails, BeginMap, MapFails, GiveUp,
     FinishMap, Close, pool
<1>2. WorkInv'
  <2>1. CASE BeginMap
    <3>1. \A w \in Workers : pc[w] = "idle" /\ item[w] = 0 /\ pc'[w] = "getting"
      BY <2>1 DEF BeginMap, WorkInv, StageInv, TypeOK, Held, Callers
    <3>2. QED
      BY <1>0, <2>1, <3>1 DEF WorkInv, Held, Final
  <2>2. CASE ~BeginMap
    <3>1. \A w \in Workers : pc'[w] = pc[w]
      BY <2>2 DEF CommandStep, RejectInput, BeginResolve, ResolveFails, MapFails, GiveUp,
         FinishMap, Close, TypeOK, Callers
    <3>2. QED
      BY <1>0, <3>1 DEF WorkInv, Held, Final
  <2>3. QED
    BY <2>1, <2>2
<1>3. LogInv'
  <2>1. CASE BeginResolve
    <3>1. /\ main' = "resolving" /\ pc' = [pc EXCEPT ![Command] = "calling"]
          /\ pc[Command] = "idle" /\ log[0] = <<>> /\ attempt[Command] = 0
          /\ item[Command] = 0 /\ pc \in [Callers -> States]
      BY <2>1 DEF BeginResolve, LogInv, WorkInv, TypeOK, States
    <3>2. QED
      BY <1>0, <3>1 DEF LogInv, Callers
  <2>2. CASE ~BeginResolve
    <3>1. main' # "checking"
      BY <2>2 DEF CommandStep, RejectInput, ResolveFails, BeginMap, MapFails, GiveUp,
         FinishMap, Close
    <3>2. \A c \in Callers : pc'[c] = pc[c] \/ pc'[c] \in {"getting", "returned"}
      BY <2>2 DEF CommandStep, RejectInput, ResolveFails, BeginMap, MapFails, GiveUp,
         FinishMap, Close
    <3>3. QED
      BY <1>0, <3>1, <3>2 DEF LogInv
  <2>3. QED
    BY <2>1, <2>2
<1>4. StageInv'
  <2>1. Complete' = Complete /\ Artifact' = Artifact /\ Command \notin Workers
    <3>1. UNCHANGED results
      BY DEF CommandStep, RejectInput, BeginResolve, ResolveFails, BeginMap, MapFails,
         GiveUp, FinishMap, Close, pool
    <3>2. QED
      BY <3>1, CallsAssumption DEF Complete, Artifact, LastOf, IsLast, Callers
  <2>2. CASE RejectInput \/ ResolveFails \/ MapFails
    BY <2>1, <2>2 DEF StageInv, WorkInv, RejectInput, ResolveFails, MapFails, Finished
  <2>3. CASE BeginResolve \/ BeginMap
    <3>1. main' \in {"resolving", "mapping"} /\ open' = open /\ file' = file
      BY <2>3 DEF BeginResolve, BeginMap
    <3>2. main \in {"checking", "resolving"}
      BY <2>3 DEF BeginResolve, BeginMap
    <3>3. BeginResolve => \A w \in Workers : pc'[w] = pc[w]
      BY <2>1 DEF BeginResolve, TypeOK
    <3>4. main' = "resolving" => BeginResolve
      BY <2>3 DEF BeginMap
    <3>5. QED
      BY <3>1, <3>2, <3>3, <3>4 DEF StageInv
  <2>4. CASE GiveUp
    BY <2>1, <2>4 DEF StageInv, GiveUp, AllUnwound, Finished
  <2>5. CASE FinishMap
    BY <2>1, <2>5 DEF StageInv, FinishMap, MapEnds, Finished
  <2>6. CASE Close
    BY <2>1, <2>6 DEF StageInv, Close, Finished
  <2>7. QED
    BY <2>2, <2>3, <2>4, <2>5, <2>6 DEF CommandStep
<1>5. RetriesAreEarned'
  BY DEF RetriesAreEarned, CommandStep, RejectInput, BeginResolve, ResolveFails, BeginMap,
     MapFails, GiveUp, FinishMap, Close, pool
<1>6. QED
  BY <1>1, <1>2, <1>3, <1>4, <1>5

LEMMA PutKeeps ==
    ASSUME InductiveInvariant, Put
    PROVE  InductiveInvariant'
BY DEF InductiveInvariant, Put, TypeOK, WorkInv, LogInv, StageInv, RetriesAreEarned, Held,
   Final, Finished, Complete, Artifact

LEMMA TakeItemKeeps ==
    ASSUME InductiveInvariant, NEW w \in Workers, TakeItem(w)
    PROVE  InductiveInvariant'
<1> USE DEF InductiveInvariant
<1>0. /\ main = "mapping" /\ pc[w] = "getting" /\ got < put
      /\ got + 1 \in Items /\ got' = got + 1 /\ got \in Nat
      /\ item' = [item EXCEPT ![w] = got + 1]
      /\ pc' = [pc EXCEPT ![w] = "calling"]
      /\ attempt' = [attempt EXCEPT ![w] = 0]
      /\ UNCHANGED <<main, put, log, results, file, open>>
      /\ w \in Callers /\ w # Command
  BY DEF TakeItem, TypeOK, Items, Callers, IsItem
<1>9. item[w] = 0 /\ log[got + 1] = <<>> /\ results[got + 1] = NoLabel
  BY <1>0 DEF WorkInv, Held, Items
<1>1. TypeOK'
  BY SMTT(30), <1>0 DEF TypeOK, Items
<1>2. WorkInv'
  <2>1. \A v \in Workers : v # w => item'[v] = item[v] /\ pc'[v] = pc[v]
    BY <1>0 DEF TypeOK, Callers
  <2>2. item'[w] = got + 1 /\ pc'[w] = "calling" /\ item'[Command] = 0
    BY <1>0 DEF TypeOK, WorkInv
  <2>3. \A v \in Workers :
          /\ Held(v)' => item'[v] # 0
          /\ item'[v] # 0 => item'[v] <= got' /\ (Held(v)' \/ pc'[v] = "cancelled")
          /\ pc'[v] = "returned" => got' > NItems
          /\ \A u \in Workers : item'[u] = item'[v] => u = v \/ item'[v] = 0
    <3>1. got' = got + 1 /\ got \in Nat /\ NItems \in Nat
      BY <1>0
    <3>2. \A v \in Workers : v # w => item[v] \in Nat /\ (item[v] # 0 => item[v] <= got)
      BY DEF WorkInv, TypeOK, Callers
    <3>3. \A v \in Workers : v # w => item'[v] # item'[w]
      BY <3>1, <3>2, <2>1, <2>2
    <3>4. \A v \in Workers : v # w =>
            /\ Held(v)' => item'[v] # 0
            /\ item'[v] # 0 => item'[v] <= got' /\ (Held(v)' \/ pc'[v] = "cancelled")
            /\ pc'[v] = "returned" => got' > NItems
      BY <2>1, <3>1, <3>2 DEF WorkInv, Held
    <3>5. /\ Held(w)' /\ item'[w] # 0 /\ item'[w] <= got' /\ pc'[w] # "returned"
      BY <2>2, <3>1 DEF Held
    <3>6. ASSUME NEW v \in Workers, NEW u \in Workers, item'[u] = item'[v]
          PROVE  u = v \/ item'[v] = 0
      BY <3>3, <3>6, <2>1 DEF WorkInv
    <3>7. QED
      BY <3>4, <3>5, <3>6
  <2>4. ASSUME NEW i \in Items
        PROVE  /\ i > got' => log'[i] = <<>> /\ results'[i] = NoLabel
               /\ i <= got' => results'[i] # NoLabel \/ \E v \in Workers : item'[v] = i
               /\ results'[i] # NoLabel => /\ log'[i] # <<>> /\ Final(i)' = results'[i]
                                          /\ \A v \in Workers : item'[v] # i
    <3>1. i > got' => log'[i] = <<>> /\ results'[i] = NoLabel
      BY <1>0 DEF WorkInv, Items
    <3>2. i <= got' => results'[i] # NoLabel \/ \E v \in Workers : item'[v] = i
      <4>1. CASE i = got + 1
        BY <4>1, <2>2
      <4>2. CASE i <= got
        BY <1>0, <1>9, <4>2, <2>1 DEF WorkInv, Items
      <4>3. QED
        BY <1>0, <4>1, <4>2 DEF Items
    <3>3. results'[i] # NoLabel => /\ log'[i] # <<>> /\ Final(i)' = results'[i]
                                  /\ \A v \in Workers : item'[v] # i
      BY <1>0, <1>9, <2>1, <2>2 DEF WorkInv, Final
    <3>4. QED
      BY <3>1, <3>2, <3>3
  <2>5. QED
    BY <1>0, <2>2, <2>3, <2>4 DEF WorkInv, TypeOK
<1>3. LogInv'
  BY <1>0, <1>9 DEF LogInv, TypeOK
<1>4. StageInv'
  BY <1>0 DEF StageInv, Complete, Artifact
<1>5. RetriesAreEarned'
  BY <1>0 DEF RetriesAreEarned
<1>6. QED
  BY <1>1, <1>2, <1>3, <1>4, <1>5

\* An end marker comes after every item, so whoever takes one knows that all
\* items were taken.
LEMMA TakeEndMarkerKeeps ==
    ASSUME InductiveInvariant, NEW w \in Workers, TakeEndMarker(w)
    PROVE  InductiveInvariant'
<1> USE DEF InductiveInvariant
<1>0. /\ main = "mapping" /\ pc[w] = "getting" /\ got < put
      /\ got' = got + 1 /\ got' > NItems /\ got >= NItems /\ got \in Nat /\ put \in Nat
      /\ pc' = [pc EXCEPT ![w] = "returned"]
      /\ UNCHANGED <<main, put, item, attempt, log, results, file, open>>
      /\ w \in Callers /\ w # Command
  BY DEF TakeEndMarker, TypeOK, Callers, IsItem
<1>9. item[w] = 0
  BY <1>0 DEF WorkInv, Held
<1>1. TypeOK'
  BY <1>0 DEF TypeOK
<1>2. WorkInv'
  BY <1>0, <1>9 DEF WorkInv, TypeOK, Callers, Held, Final, Items
<1>3. LogInv'
  BY <1>0 DEF LogInv, TypeOK
<1>4. StageInv'
  BY <1>0 DEF StageInv, Complete, Artifact
<1>5. RetriesAreEarned'
  BY <1>0 DEF RetriesAreEarned
<1>6. QED
  BY <1>1, <1>2, <1>3, <1>4, <1>5

LEMMA WakeKeeps ==
    ASSUME InductiveInvariant, NEW c \in Callers, Wake(c)
    PROVE  InductiveInvariant'
<1> USE DEF InductiveInvariant
<1>0. /\ main = IF c = Command THEN "resolving" ELSE "mapping"
      /\ pc[c] = "sleeping" /\ attempt[c] < MaxRetries /\ attempt[c] \in Nat
      /\ Len(log[item[c]]) = attempt[c] + 1
      /\ pc' = [pc EXCEPT ![c] = "calling"]
      /\ attempt' = [attempt EXCEPT ![c] = @ + 1]
      /\ UNCHANGED <<main, put, got, item, log, results, file, open>>
  BY DEF Wake, TypeOK, LogInv
<1>1. TypeOK'
  BY <1>0 DEF TypeOK
<1>2. WorkInv'
  <2>1. \A w \in Workers : /\ pc'[w] = pc[w] \/ (pc[w] = "sleeping" /\ pc'[w] = "calling")
                          /\ Held(w)' <=> Held(w)
    BY <1>0 DEF TypeOK, Callers, Held
  <2>2. \A i \in Items : Final(i)' = Final(i)
    BY <1>0 DEF Final
  <2>3. QED
    BY <1>0, <2>1, <2>2 DEF WorkInv
<1>3. LogInv'
  BY <1>0 DEF LogInv, TypeOK
<1>4. StageInv'
  BY <1>0 DEF StageInv, TypeOK, Callers, Complete, Artifact
<1>5. RetriesAreEarned'
  BY <1>0 DEF RetriesAreEarned
<1>6. QED
  BY <1>1, <1>2, <1>3, <1>4, <1>5

-----------------------------------------------------------------------------
(* The ends of a call.                                                     *)

\* What every end of a call finds and records.
LEMMA CallFacts ==
    ASSUME InductiveInvariant, NEW c \in Callers, Calling(c), NEW how, Record(c, how)
    PROVE  /\ item[c] \in 0 .. NItems /\ log[item[c]] \in Seq(Outcomes)
           /\ log' = [log EXCEPT ![item[c]] = Append(log[item[c]], how)]
           /\ Len(log[item[c]]) = attempt[c] /\ attempt[c] \in 0 .. MaxRetries
           /\ \A n \in 1 .. Len(log[item[c]]) : log[item[c]][n] \in Retryable
           /\ c = Command => item[c] = 0 /\ main = "resolving"
           /\ c # Command => /\ c \in Workers /\ main = "mapping"
                             /\ item[c] \in Items /\ item[c] <= got
                             /\ results[item[c]] = NoLabel
<1>1. /\ pc[c] = "calling"
      /\ main = IF c = Command THEN "resolving" ELSE "mapping"
  BY DEF Calling
<1>2. /\ item[c] \in 0 .. NItems /\ attempt[c] \in 0 .. MaxRetries /\ got \in Nat
      /\ log \in [0 .. NItems -> Seq(Outcomes)]
  BY DEF InductiveInvariant, TypeOK, Outcomes
<1>3. log[item[c]] \in Seq(Outcomes)
  BY <1>2
<1>4. log' = [log EXCEPT ![item[c]] = Append(log[item[c]], how)]
  BY <1>2 DEF Record
<1>5. /\ Len(log[item[c]]) = attempt[c]
      /\ \A n \in 1 .. Len(log[item[c]]) : log[item[c]][n] \in Retryable
  BY <1>1 DEF InductiveInvariant, LogInv
<1>6. c = Command => item[c] = 0 /\ main = "resolving"
  BY <1>1 DEF InductiveInvariant, WorkInv
<1>7. ASSUME c # Command
      PROVE  /\ c \in Workers /\ main = "mapping"
             /\ item[c] \in Items /\ item[c] <= got
             /\ results[item[c]] = NoLabel
  <2>1. c \in Workers /\ main = "mapping" /\ Held(c)
    BY <1>1, <1>7 DEF Callers, Held
  <2>2. item[c] # 0 /\ item[c] <= got
    BY <2>1 DEF InductiveInvariant, WorkInv
  <2>3. item[c] \in Items
    BY <1>2, <2>2 DEF Items
  <2>4. results[item[c]] = NoLabel
    BY <2>1, <2>3 DEF InductiveInvariant, WorkInv
  <2>5. QED
    BY <2>1, <2>2, <2>3, <2>4
<1>8. QED
  BY <1>1, <1>2, <1>3, <1>4, <1>5, <1>6, <1>7

\* The log of a call, one longer, is still one that was earned.
LEMMA RecordKeepsRetries ==
    ASSUME InductiveInvariant, NEW c \in Callers, Calling(c), NEW how \in Outcomes,
           Record(c, how)
    PROVE  RetriesAreEarned' /\ log' \in [0 .. NItems -> Seq(Outcomes)]
<1> DEFINE l == log[item[c]]
<1>1. /\ item[c] \in 0 .. NItems /\ l \in Seq(Outcomes)
      /\ log' = [log EXCEPT ![item[c]] = Append(l, how)]
      /\ Len(l) <= MaxRetries
      /\ \A n \in 1 .. Len(l) : l[n] \in Retryable
      /\ log \in [0 .. NItems -> Seq(Outcomes)]
  <2>1. log \in [0 .. NItems -> Seq(Outcomes)] /\ MaxRetries \in Nat
    BY DEF InductiveInvariant, TypeOK, Outcomes
  <2>2. /\ item[c] \in 0 .. NItems /\ l \in Seq(Outcomes)
        /\ log' = [log EXCEPT ![item[c]] = Append(l, how)]
        /\ Len(l) = attempt[c] /\ attempt[c] \in 0 .. MaxRetries
        /\ \A n \in 1 .. Len(l) : l[n] \in Retryable
    BY CallFacts
  <2> HIDE DEF l
  <2>3. QED
    BY <2>1, <2>2
<1> HIDE DEF l
<1>2. /\ Append(l, how) \in Seq(Outcomes)
      /\ Len(Append(l, how)) = Len(l) + 1
      /\ \A n \in 1 .. Len(l) : Append(l, how)[n] = l[n]
  BY <1>1
<1>3. ASSUME NEW i \in 0 .. NItems
      PROVE  /\ Len(log'[i]) <= MaxRetries + 1
             /\ \A n \in 1 .. Len(log'[i]) - 1 : log'[i][n] \in Retryable
  <2>1. CASE i = item[c]
    <3>1. log'[i] = Append(l, how) /\ Len(l) \in Nat
      BY <1>1, <2>1
    <3>2. Len(log'[i]) = Len(l) + 1 /\ \A n \in 1 .. Len(l) : log'[i][n] = l[n]
      BY <1>2, <3>1
    <3>3. 1 .. Len(log'[i]) - 1 = 1 .. Len(l)
      BY <3>1, <3>2
    <3>4. Len(log'[i]) <= MaxRetries + 1
      BY <1>1, <3>1, <3>2
    <3>5. \A n \in 1 .. Len(l) : l[n] \in Retryable
      BY <1>1
    <3>6. QED
      BY <3>2, <3>3, <3>4, <3>5
  <2>2. CASE i # item[c]
    BY <1>1, <2>2 DEF InductiveInvariant, RetriesAreEarned
  <2>3. QED
    BY <2>1, <2>2
<1>4. log' \in [0 .. NItems -> Seq(Outcomes)]
  BY <1>1, <1>2
<1>5. QED
  BY <1>3, <1>4 DEF RetriesAreEarned

\* A call that ends with an answer.
LEMMA AnswerKeeps ==
    ASSUME InductiveInvariant, NEW c \in Callers, NEW label \in Labels, Answer(c, label)
    PROVE  InductiveInvariant'
<1> USE DEF InductiveInvariant
<1>0. Calling(c) /\ Record(c, label) /\ label \in Outcomes
      /\ UNCHANGED <<main, put, got, attempt, file, open>>
  BY DEF Answer, Outcomes
<1>1. /\ item[c] \in 0 .. NItems /\ log[item[c]] \in Seq(Outcomes)
      /\ log' = [log EXCEPT ![item[c]] = Append(log[item[c]], label)]
      /\ c = Command => item[c] = 0 /\ main = "resolving"
      /\ c # Command => /\ c \in Workers /\ main = "mapping"
                        /\ item[c] \in Items /\ item[c] <= got
                        /\ results[item[c]] = NoLabel
      /\ log \in [0 .. NItems -> Seq(Outcomes)]
      /\ pc[c] = "calling"
  BY <1>0, CallFacts DEF TypeOK, Outcomes, Calling
<1>2. RetriesAreEarned' /\ log' \in [0 .. NItems -> Seq(Outcomes)]
  BY <1>0, RecordKeepsRetries
<1>3. CASE c = Command
  <2>1. /\ pc' = [pc EXCEPT ![c] = "returned"] /\ UNCHANGED <<item, results>>
        /\ \A i \in Items : log'[i] = log[i]
        /\ \A w \in Workers : pc'[w] = pc[w]
        /\ pc'[Command] = "returned"
    BY <1>1, <1>3 DEF Answer, Items, TypeOK, Callers
  <2>2. TypeOK'
    BY <1>0, <1>2, <2>1 DEF TypeOK, Outcomes
  <2>3. WorkInv'
    BY <1>0, <2>1 DEF WorkInv, Held, Final
  <2>4. LogInv'
    <3>1. main' # "checking"
      BY <1>0, <1>1, <1>3
    <3>2. \A w \in Workers : pc'[w] = "idle"
      BY <1>1, <1>3, <2>1 DEF StageInv
    <3>3. QED
      BY <2>1, <3>1, <3>2 DEF LogInv, Callers
  <2>5. StageInv'
    BY <1>0, <2>1 DEF StageInv, Finished, Complete, Artifact
  <2>6. QED
    BY <1>2, <2>2, <2>3, <2>4, <2>5
<1>4. CASE c # Command
  <2>1. /\ pc' = [pc EXCEPT ![c] = "getting"] /\ item' = [item EXCEPT ![c] = 0]
        /\ results' = [results EXCEPT ![item[c]] = label]
        /\ c \in Workers
    BY <1>1, <1>4 DEF Answer, StoreResult
  <2>2. /\ log'[item[c]] # <<>> /\ log'[item[c]][Len(log'[item[c]])] = label
        /\ \A i \in 0 .. NItems : i # item[c] => log'[i] = log[i]
    <3>1. log'[item[c]] = Append(log[item[c]], label)
      BY <1>1
    <3>2. ASSUME NEW l \in Seq(Outcomes)
          PROVE  /\ Append(l, label) # <<>>
                 /\ Append(l, label)[Len(Append(l, label))] = label
      BY <1>0
    <3>3. \A i \in 0 .. NItems : i # item[c] => log'[i] = log[i]
      BY <1>1
    <3>4. QED
      BY <1>1, <3>1, <3>2, <3>3
  <2>3. TypeOK'
    <3>1. /\ pc' \in [Callers -> States] /\ item' \in [Callers -> 0 .. NItems]
          /\ results' \in [Items -> Labels \cup {NoLabel}]
      BY <1>1, <2>1 DEF TypeOK, States
    <3>2. log' \in [0 .. NItems -> Seq(Labels \cup Retryable \cup Fatal)]
      BY <1>2 DEF Outcomes
    <3>3. QED
      BY <1>0, <3>1, <3>2 DEF TypeOK, States
  <2>4. WorkInv'
    <3>1. /\ pc'[c] = "getting" /\ item'[c] = 0 /\ results'[item[c]] = label
          /\ \A w \in Workers : w # c => pc'[w] = pc[w] /\ item'[w] = item[w]
          /\ item'[Command] = 0
          /\ \A i \in Items : i # item[c] => results'[i] = results[i] /\ log'[i] = log[i]
      BY <1>1, <1>4, <2>1, <2>2 DEF TypeOK, Callers, WorkInv, Items
    <3>2. \A w \in Workers :
            /\ Held(w)' => item'[w] # 0
            /\ item'[w] # 0 => item'[w] <= got' /\ (Held(w)' \/ pc'[w] = "cancelled")
            /\ pc'[w] = "returned" => got' > NItems
            /\ \A v \in Workers : item'[v] = item'[w] => v = w \/ item'[w] = 0
      BY <1>0, <2>1, <3>1 DEF WorkInv, Held
    <3>3. ASSUME NEW i \in Items
          PROVE  /\ i > got' => log'[i] = <<>> /\ results'[i] = NoLabel
                 /\ i <= got' => results'[i] # NoLabel \/ \E w \in Workers : item'[w] = i
                 /\ results'[i] # NoLabel => /\ log'[i] # <<>> /\ Final(i)' = results'[i]
                                            /\ \A w \in Workers : item'[w] # i
      <4>1. CASE i = item[c]
        <5>1. \A w \in Workers : item'[w] # i
          BY <1>1, <1>4, <2>1, <3>1, <4>1 DEF WorkInv, Items
        <5>2. results'[i] = label /\ label # NoLabel /\ ~(i > got')
          BY <1>0, <1>1, <1>4, <3>1, <4>1 DEF Items, TypeOK
        <5>3. QED
          BY <2>2, <4>1, <5>1, <5>2 DEF Final
      <4>2. CASE i # item[c]
        <5>1. results'[i] = results[i] /\ log'[i] = log[i] /\ Final(i)' = Final(i)
          BY <3>1, <4>2 DEF Final
        <5>2. \A w \in Workers : item'[w] = i <=> item[w] = i
          BY <3>1, <4>2, <2>1 DEF Items
        <5>3. QED
          BY <1>0, <5>1, <5>2 DEF WorkInv
      <4>3. QED
        BY <4>1, <4>2
    <3>4. QED
      BY <1>0, <3>1, <3>2, <3>3 DEF WorkInv
  <2>5. LogInv'
    <3>1. ASSUME NEW d \in Callers, pc'[d] \in {"calling", "sleeping"}
          PROVE  pc'[d] = pc[d] /\ attempt'[d] = attempt[d] /\ item'[d] = item[d]
                 /\ log'[item[d]] = log[item[d]]
      <4>1. d # c /\ pc'[d] = pc[d] /\ item'[d] = item[d] /\ attempt'[d] = attempt[d]
        BY <1>0, <2>1, <3>1 DEF TypeOK
      <4>2. item[d] # item[c] /\ item[d] \in 0 .. NItems
        BY <4>1, <3>1, <2>1, <1>1, <1>4 DEF WorkInv, Held, Callers, Items, TypeOK
      <4>3. QED
        BY <4>1, <4>2, <2>2
    <3>2. main' # "checking"
      BY <1>0, <1>1, <1>4
    <3>3. QED
      BY <3>1, <3>2 DEF LogInv
  <2>6. StageInv'
    BY <1>0, <1>1, <1>4 DEF StageInv
  <2>7. QED
    BY <1>2, <2>3, <2>4, <2>5, <2>6
<1>5. QED
  BY <1>3, <1>4

\* A call that ends with an error, to be repeated or not.
LEMMA ErrorKeeps ==
    ASSUME InductiveInvariant, NEW c \in Callers, Calling(c),
           NEW how \in Retryable \cup Fatal, Record(c, how),
           NEW next \in {"sleeping", "raised"},
           next = "sleeping" => how \in Retryable /\ attempt[c] < MaxRetries,
           pc' = [pc EXCEPT ![c] = next],
           UNCHANGED <<main, put, got, item, results, attempt, file, open>>
    PROVE  InductiveInvariant'
<1> USE DEF InductiveInvariant
<1>0. how \in Outcomes
  BY DEF Outcomes
<1>1. /\ item[c] \in 0 .. NItems /\ log[item[c]] \in Seq(Outcomes)
      /\ log' = [log EXCEPT ![item[c]] = Append(log[item[c]], how)]
      /\ Len(log[item[c]]) = attempt[c] /\ attempt[c] \in 0 .. MaxRetries
      /\ \A n \in 1 .. Len(log[item[c]]) : log[item[c]][n] \in Retryable
      /\ c = Command => item[c] = 0 /\ main = "resolving"
      /\ c # Command => /\ c \in Workers /\ main = "mapping"
                        /\ item[c] \in Items /\ item[c] <= got
                        /\ results[item[c]] = NoLabel
  BY CallFacts
<1>2. RetriesAreEarned' /\ log' \in [0 .. NItems -> Seq(Outcomes)]
  BY <1>0, RecordKeepsRetries
<1>3. /\ pc[c] = "calling" /\ pc'[c] = next
      /\ \A d \in Callers : d # c => pc'[d] = pc[d]
  BY DEF Calling, TypeOK
<1>4. /\ Len(log'[item[c]]) = attempt[c] + 1
      /\ next = "sleeping" =>
            \A n \in 1 .. Len(log'[item[c]]) : log'[item[c]][n] \in Retryable
      /\ \A i \in 0 .. NItems : i # item[c] => log'[i] = log[i]
  <2>1. log'[item[c]] = Append(log[item[c]], how)
    BY <1>1 DEF TypeOK
  <2>2. QED
    BY <1>0, <1>1, <2>1 DEF TypeOK
<1>5. TypeOK'
  BY <1>2 DEF TypeOK, Outcomes
<1>6. WorkInv'
  <2>1. \A i \in Items : log'[i] = log[i] \/ (i = item[c] /\ i <= got /\ results[i] = NoLabel)
    BY <1>1, <1>4 DEF Items
  <2>2. \A w \in Workers : Held(w)' <=> Held(w)
    BY <1>3 DEF Held, Callers
  <2>3. \A w \in Workers : pc'[w] = pc[w] \/ (pc[w] = "calling" /\ pc'[w] \in {"sleeping", "raised"})
    BY <1>3 DEF Callers
  <2>4. got \in Nat
    BY DEF TypeOK
  <2>5. QED
    BY <2>1, <2>2, <2>3, <2>4 DEF WorkInv, Final, Items
<1>7. LogInv'
  <2>1. main' # "checking"
    BY <1>1
  <2>2. ASSUME NEW d \in Callers, d # c, pc'[d] \in {"calling", "sleeping"}
        PROVE  log'[item[d]] = log[item[d]] /\ pc'[d] = pc[d]
    <3>1. pc'[d] = pc[d]
      BY <1>3, <2>2
    <3>2. item[d] # item[c] /\ item[d] \in 0 .. NItems
      BY <1>1, <1>3, <2>2, <3>1 DEF WorkInv, StageInv, Held, Callers, Items, TypeOK
    <3>3. QED
      BY <1>4, <3>1, <3>2
  <2>3. QED
    BY <1>3, <1>4, <2>1, <2>2 DEF LogInv
<1>8. StageInv'
  BY <1>1, <1>3 DEF StageInv, Callers
<1>9. QED
  BY <1>2, <1>5, <1>6, <1>7, <1>8

\* A task that is cancelled, whatever it was at.
LEMMA UnwindKeeps ==
    ASSUME InductiveInvariant, NEW w \in Workers, Unwind(w)
    PROVE  InductiveInvariant'
<1> USE DEF InductiveInvariant
<1>0. /\ main = "cancelling" /\ w \in Callers
      /\ pc' = [pc EXCEPT ![w] = "cancelled"]
      /\ UNCHANGED <<main, put, got, item, attempt, log, results, file, open>>
  BY DEF Unwind, pool, Callers
<1>1. TypeOK'
  BY <1>0 DEF TypeOK
<1>2. WorkInv'
  BY <1>0 DEF WorkInv, TypeOK, Callers, Held, Final
<1>3. LogInv'
  BY <1>0 DEF LogInv, TypeOK
<1>4. StageInv'
  BY <1>0 DEF StageInv, Complete, Artifact
<1>5. RetriesAreEarned'
  BY <1>0 DEF RetriesAreEarned
<1>6. QED
  BY <1>1, <1>2, <1>3, <1>4, <1>5

LEMMA InterruptKeeps ==
    ASSUME InductiveInvariant, InterruptMap \/ InterruptResolve
    PROVE  InductiveInvariant'
<1> USE DEF InductiveInvariant
<1>0. /\ UNCHANGED <<put, got, item, attempt, log, results, file, open>>
      /\ main \in {"mapping", "resolving"} /\ main' \in {"cancelling", "closing"}
      /\ main = "mapping" => main' = "cancelling"
      /\ \A w \in Workers : pc'[w] = pc[w]
      /\ pc'[Command] \in {pc[Command], "cancelled"}
  BY DEF InterruptMap, InterruptResolve, pool, TypeOK, Callers
<1>1. TypeOK'
  BY DEF TypeOK, InterruptMap, InterruptResolve, pool, Callers
<1>2. WorkInv'
  BY <1>0 DEF WorkInv, Held, Final
<1>3. LogInv'
  BY <1>0 DEF LogInv, Callers
<1>4. StageInv'
  BY <1>0 DEF StageInv, Complete, Artifact
<1>5. RetriesAreEarned'
  BY <1>0 DEF RetriesAreEarned
<1>6. QED
  BY <1>1, <1>2, <1>3, <1>4, <1>5

LEMMA CallEndsKeeps ==
    ASSUME InductiveInvariant, NEW c \in Callers, CallEnds(c)
    PROVE  InductiveInvariant'
<1>1. CASE \E label \in Labels : Answer(c, label)
  BY <1>1, AnswerKeeps
<1>2. CASE c # Command /\ Malformed(c)
  <2>1. "invalid" \in Retryable \cup Fatal
    BY DEF Fatal
  <2>2. QED
    BY <1>2, <2>1, ErrorKeeps DEF Malformed, Raise
<1>3. CASE TimesOut(c)
  <2>1. "timeout" \in Retryable \cup Fatal
    BY DEF Fatal
  <2>2. QED
    BY <1>3, <2>1, ErrorKeeps DEF TimesOut, Raise
<1>4. CASE \E class \in ErrorClasses : ProviderRaises(c, class)
  <2>1. PICK class \in ErrorClasses : ProviderRaises(c, class)
    BY <1>4
  <2>2. class \in Retryable \cup Fatal
    BY DEF Fatal
  <2>3. CASE WorthRetry(c, class)
    BY <2>1, <2>2, <2>3, ErrorKeeps DEF ProviderRaises, WorthRetry
  <2>4. CASE ~WorthRetry(c, class)
    BY <2>1, <2>2, <2>4, ErrorKeeps DEF ProviderRaises, Raise
  <2>5. QED
    BY <2>3, <2>4
<1>5. QED
  BY <1>1, <1>2, <1>3, <1>4 DEF CallEnds

-----------------------------------------------------------------------------
(* The theorems.                                                           *)

\* The invariant holds of every behaviour: each piece of work is in one
\* place, with the history of calls that place requires.
THEOREM InvariantHolds == Spec => []InductiveInvariant
<1>1. Init => InductiveInvariant
  BY InitEstablishes
<1>2. InductiveInvariant /\ [Next]_vars => InductiveInvariant'
  <2> SUFFICES ASSUME InductiveInvariant, [Next]_vars PROVE InductiveInvariant'
    OBVIOUS
  <2>1. CASE CommandStep
    BY <2>1, CommandStepKeeps
  <2>2. CASE Put
    BY <2>2, PutKeeps
  <2>3. ASSUME NEW w \in Workers, TakeNext(w) \/ Unwind(w) PROVE InductiveInvariant'
    BY <2>3, TakeItemKeeps, TakeEndMarkerKeeps, UnwindKeeps DEF TakeNext
  <2>4. ASSUME NEW c \in Callers, CallEnds(c) \/ Wake(c) PROVE InductiveInvariant'
    BY <2>4, CallEndsKeeps, WakeKeeps
  <2>5. CASE InterruptMap \/ InterruptResolve
    BY <2>5, InterruptKeeps
  <2>6. CASE UNCHANGED vars
    BY <2>6 DEF vars, InductiveInvariant, TypeOK, WorkInv, LogInv, StageInv,
       RetriesAreEarned, Held, Final, Finished, Complete, Artifact
  <2>7. QED
    BY <2>1, <2>2, <2>3, <2>4, <2>5, <2>6 DEF Next
<1>3. QED
  BY <1>1, <1>2, PTL DEF Spec

\* A call is repeated only after an error that may pass, at most MaxRetries
\* times, and never once it was answered.
THEOREM RetriesAreEarnedHolds == Spec => []RetriesAreEarned
<1>1. InductiveInvariant => RetriesAreEarned
  BY DEF InductiveInvariant
<1>2. QED
  BY <1>1, InvariantHolds, PTL

\* An artifact is written only when every item was answered, and holds the
\* answers by the order of the work, not by their arrival.
THEOREM ArtifactIsWholeHolds == Spec => []ArtifactIsWhole
<1>1. InductiveInvariant => ArtifactIsWhole
  <2> SUFFICES ASSUME InductiveInvariant, file # NoFile, NEW i \in Items
               PROVE  Answered(i) /\ (IsLast(i) => file[KeyOf[i]] = Final(i))
    BY DEF ArtifactIsWhole
  <2>1. /\ results[i] # NoLabel /\ results[i] \in Labels
        /\ log[i] # <<>> /\ Final(i) = results[i] /\ file = Artifact
    BY DEF InductiveInvariant, StageInv, WorkInv, Complete, TypeOK
  <2>2. KeyOf[i] \in Range(KeyOf)
    BY DEF Range
  <2>3. IsLast(i) => file[KeyOf[i]] = results[i]
    BY <2>1, <2>2, LastStays DEF Artifact
  <2>4. QED
    BY <2>1, <2>3 DEF Answered
<1>2. QED
  BY <1>1, InvariantHolds, PTL

\* No task outlives the client it calls with.
THEOREM NothingRunsAfterCloseHolds == Spec => []NothingRunsAfterClose
<1>1. InductiveInvariant => NothingRunsAfterClose
  BY DEF InductiveInvariant, StageInv, NothingRunsAfterClose
<1>2. QED
  BY <1>1, InvariantHolds, PTL

\* bounded_map never meets an incomplete result when its workers returned.
THEOREM NoItemLeftBehindHolds == Spec => []NoItemLeftBehind
<1>1. InductiveInvariant => NoItemLeftBehind
  <2> SUFFICES ASSUME InductiveInvariant, main = "mapping", MapEnds, NEW i \in Items
               PROVE  results[i] # NoLabel
    BY DEF NoItemLeftBehind, Complete
  <2>1. got > NItems /\ \A w \in Workers : item[w] = 0
    BY DEF InductiveInvariant, WorkInv, MapEnds, Held
  <2>2. got \in Nat /\ i <= got /\ i # 0
    BY <2>1 DEF InductiveInvariant, TypeOK, Items
  <2>3. QED
    BY <2>1, <2>2 DEF InductiveInvariant, WorkInv
<1>2. QED
  BY <1>1, InvariantHolds, PTL
=============================================================================
