---------------------------- MODULE ScoringProofs ----------------------------
(***************************************************************************)
(* Proofs about Scoring.tla, for any number of jobs, generations, metrics  *)
(* and slices.                                                             *)
(***************************************************************************)
EXTENDS Scoring, FiniteSetTheorems, WellFoundedInduction, TLAPS

USE ScoringAssumption

-----------------------------------------------------------------------------
(* What the operators compute.                                             *)

\* Statements have a place on a bounded line.
Top == Cardinality(Keys) * Width + Cardinality(AggregateIds)

LEMMA WidthFacts ==
    /\ Width \in Nat /\ Width > 0 /\ Cardinality(Keys) \in Nat
    /\ Cardinality(AggregateIds) \in Nat
<1>1. IsFiniteSet(AggregateIds)
  BY FS_Product DEF AggregateIds
<1>2. QED
  BY <1>1, FS_CardinalityType DEF Width

LEMMA PlaceIsBounded ==
    ASSUME NEW j \in Jobs, NEW id \in Ids
    PROVE  Place(j, id) \in Nat /\ Place(j, id) <= Top
<1>0. /\ Width \in Nat /\ Width > 0 /\ Cardinality(Keys) \in Nat
      /\ Cardinality(AggregateIds) \in Nat /\ Cardinality(Keys) * Width \in Nat
  BY WidthFacts
<1>1. CASE id \in ScoreIds
  <2>1. id[1] \in Keys /\ id[2] \in Metrics
    BY <1>1 DEF ScoreIds
  <2>2. /\ KeyRank[id[1]] \in Nat /\ KeyRank[id[1]] + 1 <= Cardinality(Keys)
        /\ ListRank[j][id[2]] \in Nat /\ ListRank[j][id[2]] <= Width - 1
    BY <2>1, <1>0
  <2>3. Place(j, id) = KeyRank[id[1]] * Width + ListRank[j][id[2]]
    BY <1>1 DEF Place
  <2>4. ASSUME NEW a \in Nat, NEW w \in Nat, NEW r \in Nat, NEW c \in Nat, NEW n \in Nat,
               a + 1 <= c, r <= w - 1
        PROVE  a * w + r \in Nat /\ a * w + r <= c * w + n
    <3>1. PICK d \in Nat : c = a + 1 + d
      <4>1. c - (a + 1) \in Nat /\ c = a + 1 + (c - (a + 1))
        BY <2>4
      <4>2. QED
        BY <4>1
    <3>2. c * w = a * w + w + d * w
      BY <3>1
    <3>3. a * w \in Nat /\ c * w \in Nat /\ d * w \in Nat
      OBVIOUS
    <3>4. ASSUME NEW aw \in Nat, NEW cw \in Nat, NEW dw \in Nat, cw = aw + w + dw
          PROVE  aw + r \in Nat /\ aw + r <= cw + n
      BY <2>4, <3>4
    <3>5. QED
      BY <3>2, <3>3, <3>4
  <2>5. /\ KeyRank[id[1]] * Width + ListRank[j][id[2]] \in Nat
        /\ KeyRank[id[1]] * Width + ListRank[j][id[2]] <=
              Cardinality(Keys) * Width + Cardinality(AggregateIds)
    <3> HIDE DEF Width
    <3> QED
      BY <2>2, <2>4, <1>0
  <2>6. QED
    BY <2>3, <2>5 DEF Top
<1>2. CASE id \notin ScoreIds
  <2>1. id \in AggregateIds /\ Place(j, id) = Cardinality(Keys) * Width + AggregateRank[id]
    BY <1>2 DEF Place, Ids
  <2>2. AggregateRank[id] \in Nat /\ AggregateRank[id] <= Cardinality(AggregateIds)
    BY <2>1, <1>0
  <2>3. QED
    BY <2>1, <2>2, <1>0 DEF Top
<1>3. QED
  BY <1>1, <1>2

\* What a job writes are identities of the two tables.
LEMMA StatementTypes ==
    ASSUME NEW j \in Jobs, NEW ks \in SUBSET Keys
    PROVE  /\ ScoresFor(j, ks) \subseteq ScoreIds
           /\ AggregatesFor(j, ks) \subseteq AggregateIds
BY DEF ScoresFor, AggregatesFor, ScoreIds, AggregateIds

\* Keys and slices differ, so an identity belongs to one table.
LEMMA TablesDiffer == ScoreIds \cap AggregateIds = {}
BY DEF ScoreIds, AggregateIds

\* Fewer scores give a smaller count.
LEMMA CountGrows ==
    ASSUME NEW ids, NEW more, NEW a, ids \subseteq more
    PROVE  /\ Cardinality(Counted(ids, a)) \in Nat
           /\ Cardinality(Counted(more, a)) \in Nat
           /\ Cardinality(Counted(ids, a)) <= Cardinality(Counted(more, a))
<1>1. /\ Counted(ids, a) \subseteq Counted(more, a)
      /\ Counted(more, a) \subseteq Keys
  BY DEF Counted
<1>2. IsFiniteSet(Counted(more, a))
  BY <1>1, FS_Subset
<1>3. IsFiniteSet(Counted(ids, a)) /\ Cardinality(Counted(ids, a)) <= Cardinality(Counted(more, a))
  BY <1>1, <1>2, FS_Subset
<1>4. QED
  BY <1>2, <1>3, FS_CardinalityType

\* A step of the run leaves the rows it finds.
LEMMA RowsStay ==
    ASSUME InductiveInvariant, Next
    PROVE  /\ rows' \in [Keys -> Generated \cup {NoRow}]
           /\ \A k \in Written : rows'[k] = rows[k]
           /\ Written \subseteq Written'
<1>0. rows \in [Keys -> Generated \cup {NoRow}]
  BY DEF InductiveInvariant, TypeOK
<1>1. CASE \E k \in Keys, r \in Generated : Generate(k, r)
  BY <1>0, <1>1 DEF Generate, Ledger!Record, Written
<1>2. CASE rows' = rows
  BY <1>0, <1>2 DEF Written
<1>3. QED
  BY <1>1, <1>2 DEF Next, Open, Ledger!Open, Settle, Ledger!Settle, Load, JobStep,
     SaveScore, SaveAggregate, Issue, Commit, Abort, Finish, ledger

\* Whether a metric can score a stored generation is settled.
LEMMA ScorableStays ==
    ASSUME InductiveInvariant, Next
    PROVE  \A k \in Written, m \in Metrics : Scorable(k, m)' <=> Scorable(k, m)
BY RowsStay DEF Scorable

\* Computing a score adds it, or nothing, to what its job found.
LEMMA FoundGrows ==
    ASSUME TypeOK, NEW j \in Jobs, NEW id \in ScoreIds, Compute(j, id)
    PROVE  /\ found' \in [Jobs -> SUBSET ScoreIds]
           /\ \A i \in Jobs \ {j} : found'[i] = found[i]
           /\ found'[j] = found[j] \/ found'[j] = found[j] \cup {id}
           /\ id \in found'[j] => id \in found[j] \/ Scorable(id[1], id[2])
           /\ Settled(id) /\ Scorable(id[1], id[2]) => id \in found'[j]
<1>1. PICK value \in BOOLEAN :
         /\ MayReturn(id[1], id[2], value)
         /\ found' = [found EXCEPT ![j] = IF value THEN @ \cup {id} ELSE @]
  BY DEF Compute
<1>2. CASE value
  BY <1>1, <1>2 DEF TypeOK, MayReturn
<1>3. CASE ~value
  BY <1>1, <1>3 DEF TypeOK, MayReturn, Settled
<1>4. QED
  BY <1>2, <1>3

-----------------------------------------------------------------------------
(* The inductive invariant, step by step.                                  *)

LEMMA InitInvariant == Init => InductiveInvariant
BY DEF Init, Ledger!Init, InductiveInvariant, TypeOK, StatementsOk, ScoresHaveRows,
   ValuesOk, CommittedJobsScored, AggregatesAreBacked

\* The types, for every step.
LEMMA TypeStep == ASSUME InductiveInvariant, Next PROVE TypeOK'
<1>0. /\ TypeOK
      /\ rows' \in [Keys -> Generated \cup {NoRow}]
  BY RowsStay DEF InductiveInvariant
<1>1. CASE UNCHANGED <<database, jobs>>
  BY <1>0, <1>1 DEF TypeOK, database, jobs
<1>2. ASSUME NEW j \in Jobs, Load(j) PROVE TypeOK'
  <2>1. Written \in SUBSET Keys
    BY DEF Written
  <2>2. ScoresFor(j, Written) \cup AggregatesFor(j, Written) \subseteq Ids
    BY <2>1, StatementTypes DEF Ids
  <2>3. QED
    BY <1>0, <1>2, <2>1, <2>2 DEF TypeOK, Load, database
<1>3. ASSUME NEW j \in Jobs, NEW id \in Ids, NEW w \in SUBSET {id}, Issue(j, id, w),
             found' \in [Jobs -> SUBSET ScoreIds]
      PROVE  TypeOK'
  BY <1>0, <1>3 DEF TypeOK, Issue, database
<1>4. ASSUME NEW j \in Jobs, Commit(j) PROVE TypeOK'
  <2>1. \A a \in AggregateIds : Cardinality(Counted(found[j], a)) \in Nat
    BY CountGrows
  <2>2. aggregates' \in [AggregateIds -> Nat \cup {NoAggregate}]
    BY <1>0, <1>4, <2>1 DEF TypeOK, Commit
  <2>3. QED
    BY <1>0, <1>4, <2>2 DEF TypeOK, Commit, Finish
<1>5. ASSUME NEW j \in Jobs, Abort(j) PROVE TypeOK'
  BY <1>0, <1>5 DEF TypeOK, Abort, Finish, database
<1>6. ASSUME NEW j \in Jobs, NEW id \in Ids, SaveScore(j, id) PROVE TypeOK'
  BY <1>0, <1>3, <1>6, FoundGrows DEF SaveScore
<1>7. ASSUME NEW j \in Jobs, NEW id \in Ids, SaveAggregate(j, id) PROVE TypeOK'
  BY <1>0, <1>3, <1>7 DEF SaveAggregate, TypeOK
<1>8. QED
  BY <1>1, <1>2, <1>4, <1>5, <1>6, <1>7 DEF Next, Open, Generate, Settle, JobStep

\* No step lets two transactions write one row, and what a transaction has
\* issued and has still to issue stays accounted for.
LEMMA StatementsStep ==
    ASSUME InductiveInvariant, Next
    PROVE  /\ \A i, j \in Jobs : i # j => (own[i] \cap own[j] = {})'
           /\ StatementsOk'
<1>0. TypeOK /\ StatementsOk /\ ScoresHaveRows /\ \A i, j \in Jobs : i # j => own[i] \cap own[j] = {}
  BY DEF InductiveInvariant
<1> DEFINE Apart == \A i, j \in Jobs : i # j => own'[i] \cap own'[j] = {}
<1>1. CASE UNCHANGED <<database, jobs>>
  BY <1>0, <1>1 DEF database, jobs, StatementsOk, ScoresFor, AggregatesFor, Place
<1>2. ASSUME NEW j \in Jobs, Load(j) PROVE Apart /\ StatementsOk'
  <2>1. Apart
    BY <1>0, <1>2 DEF Load
  <2>2. own[j] = {}
    BY <1>0, <1>2 DEF Load, StatementsOk
  <2>3. StatementsOk'
    BY <1>0, <1>2, <2>2 DEF Load, StatementsOk, TypeOK, ScoresFor, AggregatesFor, Place, database
  <2>4. QED
    BY <2>1, <2>3
<1>3. ASSUME NEW j \in Jobs, NEW id \in Ids, Issue(j, id, {id} \ scores) \/ Issue(j, id, {id}),
             id \in ScoreIds => Issue(j, id, {id} \ scores)
      PROVE  Apart /\ StatementsOk'
  <2>1. PICK w \in {{id} \ scores, {id}} :
            Issue(j, id, w) /\ (id \in ScoreIds => w = {id} \ scores) /\ w \subseteq {id}
    BY <1>3
  <2>2. Apart
    BY <1>0, <2>1 DEF Issue, LockedByOther, TypeOK
  <2>3. StatementsOk'
    <3>1. /\ own' = [own EXCEPT ![j] = @ \cup w]
          /\ todo' = [todo EXCEPT ![j] = @ \ {id}]
          /\ scores' = scores /\ pc' = pc /\ seen' = seen
          /\ pc[j] = "open" /\ id \in todo[j]
          /\ \A other \in todo[j] \ {id} : Place(j, id) < Place(j, other)
      BY <2>1 DEF Issue, At, database
    <3>2. ASSUME NEW i \in Jobs, i # j
          PROVE  own'[i] = own[i] /\ todo'[i] = todo[i]
      BY <3>1, <3>2, <1>0 DEF TypeOK
    <3>3. own'[j] = own[j] \cup w /\ todo'[j] = todo[j] \ {id}
      BY <3>1, <1>0 DEF TypeOK
    <3>4. own'[j] \cup todo'[j] \subseteq ScoresFor(j, seen[j]) \cup AggregatesFor(j, seen[j])
      BY <3>1, <3>3, <2>1, <1>0 DEF StatementsOk
    <3>5. ScoresFor(j, seen[j]) \subseteq todo'[j] \cup own'[j] \cup scores
      <4>1. ScoresFor(j, seen[j]) \subseteq ScoreIds
        BY <1>0, StatementTypes DEF TypeOK
      <4>2. ScoresFor(j, seen[j]) \subseteq todo[j] \cup own[j] \cup scores
        BY <1>0, <3>1 DEF StatementsOk
      <4>3. QED
        BY <4>1, <4>2, <3>3, <2>1
    <3>6. \A mine \in own'[j], next \in todo'[j] : Place(j, mine) < Place(j, next)
      BY <1>0, <3>1, <3>3, <2>1 DEF StatementsOk
    <3>7. ASSUME NEW i \in Jobs
          PROVE  /\ pc[i] # "open" => own'[i] = {} /\ todo'[i] = {}
                 /\ own'[i] \cup todo'[i] \subseteq
                       ScoresFor(i, seen[i]) \cup AggregatesFor(i, seen[i])
                 /\ pc[i] = "open" =>
                       ScoresFor(i, seen[i]) \subseteq todo'[i] \cup own'[i] \cup scores
                 /\ \A mine \in own'[i], next \in todo'[i] : Place(i, mine) < Place(i, next)
      <4>1. CASE i = j
        BY <4>1, <3>1, <3>4, <3>5, <3>6
      <4>2. CASE i # j
        BY <4>2, <3>2, <1>0 DEF StatementsOk
      <4>3. QED
        BY <4>1, <4>2
    <3>8. QED
      BY <3>1, <3>7 DEF StatementsOk, ScoresFor, AggregatesFor, Place
  <2>4. QED
    BY <2>2, <2>3
<1>4. ASSUME NEW j \in Jobs, Commit(j) \/ Abort(j) PROVE Apart /\ StatementsOk'
  <2>1. /\ own' = [own EXCEPT ![j] = {}]
        /\ todo'[j] = {} /\ \A i \in Jobs \ {j} : todo'[i] = todo[i]
        /\ scores \subseteq scores' /\ seen' = seen
        /\ pc'[j] # "open" /\ \A i \in Jobs \ {j} : pc'[i] = pc[i]
    BY <1>0, <1>4 DEF Commit, Abort, Finish, TypeOK, database
  <2>2. own'[j] = {} /\ \A i \in Jobs \ {j} : own'[i] = own[i]
    BY <2>1, <1>0 DEF TypeOK
  <2>3. Apart
    BY <1>0, <2>2
  <2>4. StatementsOk'
    BY <1>0, <2>1, <2>2 DEF StatementsOk, ScoresFor, AggregatesFor, Place
  <2>5. QED
    BY <2>3, <2>4
<1>5. QED
  BY <1>1, <1>2, <1>3, <1>4, TablesDiffer DEF Next, Open, Generate, Settle, JobStep,
     SaveScore, SaveAggregate

\* Scores are only added, and only for generations the run has.
LEMMA ScoresStep ==
    ASSUME InductiveInvariant, Next
    PROVE  scores \subseteq scores' /\ ScoresHaveRows' /\ CommittedJobsScored'
<1>0. TypeOK /\ StatementsOk /\ ScoresHaveRows /\ CommittedJobsScored
      /\ Written \subseteq Written'
  BY RowsStay DEF InductiveInvariant
<1>1. CASE scores' = scores /\ UNCHANGED <<pc, seen>>
  BY <1>0, <1>1 DEF ScoresHaveRows, CommittedJobsScored, ScoresFor
<1>2. ASSUME NEW j \in Jobs, Load(j) \/ Abort(j)
      PROVE  scores' = scores /\ ScoresHaveRows' /\ CommittedJobsScored'
  <2>1. /\ scores' = scores
        /\ pc'[j] # "committed" /\ \A i \in Jobs \ {j} : pc'[i] = pc[i] /\ seen'[i] = seen[i]
        /\ seen'[j] \subseteq Written
    BY <1>0, <1>2 DEF Load, Abort, Finish, TypeOK, ScoresHaveRows, database
  <2>2. QED
    BY <1>0, <2>1 DEF ScoresHaveRows, CommittedJobsScored, ScoresFor
<1>3. ASSUME NEW j \in Jobs, Commit(j)
      PROVE  scores \subseteq scores' /\ ScoresHaveRows' /\ CommittedJobsScored'
  <2>1. /\ scores' = scores \cup (own[j] \cap ScoreIds) /\ seen' = seen
        /\ pc[j] = "open" /\ todo[j] = {}
        /\ \A i \in Jobs \ {j} : pc'[i] = pc[i]
    BY <1>0, <1>3 DEF Commit, Finish, TypeOK
  <2>2. \A id \in own[j] \cap ScoreIds : id[1] \in seen[j]
    BY <1>0, TablesDiffer, StatementTypes DEF StatementsOk, ScoresFor, TypeOK
  <2>3. ScoresFor(j, seen[j]) \subseteq scores'
    <3>1. ScoresFor(j, seen[j]) \subseteq own[j] \cup scores
      BY <1>0, <2>1 DEF StatementsOk
    <3>2. ScoresFor(j, seen[j]) \subseteq ScoreIds
      BY <1>0, StatementTypes DEF TypeOK
    <3>3. QED
      BY <3>1, <3>2, <2>1
  <2>4. ScoresHaveRows'
    BY <1>0, <2>1, <2>2 DEF ScoresHaveRows
  <2>5. CommittedJobsScored'
    BY <1>0, <2>1, <2>3 DEF CommittedJobsScored, ScoresFor
  <2>6. QED
    BY <2>1, <2>4, <2>5
<1>4. QED
  BY <1>1, <1>2, <1>3 DEF Next, Open, Generate, Settle, JobStep, SaveScore,
     SaveAggregate, Issue, database, jobs

\* What a job finds, and stores, follows what its metrics can score.
LEMMA ValuesStep ==
    ASSUME InductiveInvariant, Next
    PROVE  ValuesOk'
<1>0. /\ TypeOK /\ StatementsOk /\ ScoresHaveRows /\ ValuesOk
      /\ \A k \in Written, m \in Metrics : Scorable(k, m)' <=> Scorable(k, m)
  BY ScorableStays DEF InductiveInvariant
<1>1. \A id \in scores : id[1] \in Written /\ id[2] \in Metrics
  BY <1>0 DEF TypeOK, ScoresHaveRows, ScoreIds
<1>2. \A j \in Jobs : \A id \in ScoresFor(j, seen[j]) :
         id \in ScoreIds /\ id[1] \in Written /\ id[2] \in Metrics
  BY <1>0, StatementTypes DEF TypeOK, ScoresHaveRows, ScoresFor, ScoreIds
<1>3. CASE UNCHANGED <<database, jobs>>
  <2>1. UNCHANGED <<scores, values, pc, seen, todo, found>>
    BY <1>3 DEF database, jobs
  <2>2. QED
    BY <1>0, <1>1, <1>2, <2>1 DEF ValuesOk, Settled, ScoresFor
<1>4. ASSUME NEW j \in Jobs, Load(j) PROVE ValuesOk'
  <2>1. /\ UNCHANGED <<scores, values, found>> /\ pc[j] = "idle"
        /\ ScoresFor(j, seen'[j]) \subseteq todo'[j]
        /\ \A i \in Jobs \ {j} : pc'[i] = pc[i] /\ seen'[i] = seen[i] /\ todo'[i] = todo[i]
    BY <1>0, <1>4 DEF Load, TypeOK, database
  <2>2. found[j] = {}
    BY <1>0, <2>1 DEF ValuesOk
  <2>3. QED
    BY <1>0, <1>1, <1>2, <2>1, <2>2 DEF ValuesOk, Settled, ScoresFor
<1>5. ASSUME NEW j \in Jobs, NEW id \in Ids, SaveScore(j, id) \/ SaveAggregate(j, id)
      PROVE  ValuesOk'
  <2>1. /\ UNCHANGED <<scores, values, pc, seen>> /\ pc[j] = "open" /\ id \in todo[j]
        /\ todo'[j] = todo[j] \ {id} /\ \A i \in Jobs \ {j} : todo'[i] = todo[i]
    BY <1>0, <1>5 DEF SaveScore, SaveAggregate, Issue, At, TypeOK, database
  <2>2. /\ \A i \in Jobs \ {j} : found'[i] = found[i]
        /\ found[j] \subseteq found'[j]
        /\ found'[j] \subseteq found[j] \cup ({id} \cap ScoreIds)
        /\ id \in ScoreIds =>
              /\ id \in found'[j] => id \in found[j] \/ Scorable(id[1], id[2])
              /\ Settled(id) /\ Scorable(id[1], id[2]) => id \in found'[j]
    <3>1. CASE SaveScore(j, id)
      BY <1>0, <3>1, FoundGrows DEF SaveScore
    <3>2. CASE SaveAggregate(j, id)
      BY <3>2, TablesDiffer DEF SaveAggregate
    <3>3. QED
      BY <1>5, <3>1, <3>2
  <2>3. /\ found[j] \subseteq ScoresFor(j, seen[j]) \ todo[j]
        /\ \A known \in ScoresFor(j, seen[j]) \ todo[j] :
              Settled(known) => (known \in found[j] <=> Scorable(known[1], known[2]))
    BY <1>0, <2>1 DEF ValuesOk
  <2>4. id \in ScoreIds => id \in ScoresFor(j, seen[j])
    BY <1>0, <2>1, TablesDiffer, StatementTypes DEF StatementsOk, TypeOK
  <2>5. found'[j] \subseteq ScoresFor(j, seen[j]) \ todo'[j]
    BY <2>1, <2>2, <2>3, <2>4
  <2>6. ASSUME NEW known \in ScoresFor(j, seen[j]) \ todo'[j], Settled(known)
        PROVE  known \in found'[j] <=> Scorable(known[1], known[2])
    <3>1. CASE known = id
      <4>1. id \in ScoreIds /\ id \notin found[j]
        BY <1>2, <2>1, <2>3, <2>6, <3>1
      <4>2. QED
        BY <2>2, <2>6, <3>1, <4>1
    <3>2. CASE known # id
      BY <2>1, <2>2, <2>3, <2>6, <3>2
    <3>3. QED
      BY <3>1, <3>2
  <2>7. ASSUME NEW i \in Jobs
        PROVE  /\ found'[i] \subseteq ScoresFor(i, seen[i]) \ todo'[i]
               /\ pc[i] # "open" => found'[i] = {}
               /\ pc[i] = "open" =>
                     \A known \in ScoresFor(i, seen[i]) \ todo'[i] :
                        Settled(known) => (known \in found'[i] <=> Scorable(known[1], known[2]))
    <3>1. CASE i = j
      BY <2>1, <2>5, <2>6, <3>1
    <3>2. CASE i # j
      BY <1>0, <2>1, <2>2, <3>2 DEF ValuesOk
    <3>3. QED
      BY <3>1, <3>2
  <2>8. QED
    BY <1>0, <1>1, <1>2, <2>1, <2>7 DEF ValuesOk, Settled, ScoresFor
<1>6. ASSUME NEW j \in Jobs, Commit(j) \/ Abort(j) PROVE ValuesOk'
  <2>1. /\ seen' = seen /\ pc[j] = "open" /\ pc'[j] # "open" /\ found'[j] = {}
        /\ \A i \in Jobs \ {j} : pc'[i] = pc[i] /\ found'[i] = found[i] /\ todo'[i] = todo[i]
    BY <1>0, <1>6 DEF Commit, Abort, Finish, TypeOK
  <2>2. /\ values' \subseteq scores'
        /\ \A id \in scores' : id[1] \in Written /\ id[2] \in Metrics /\
              (Settled(id) => (id \in values' <=> Scorable(id[1], id[2])))
    <3>1. CASE Abort(j)
      BY <1>0, <1>1, <3>1 DEF Abort, ValuesOk, database
    <3>2. CASE Commit(j)
      <4>1. /\ scores' = scores \cup (own[j] \cap ScoreIds) /\ todo[j] = {}
            /\ values' = values \cup (own[j] \cap found[j])
        BY <3>2 DEF Commit
      <4>2. /\ own[j] \cap ScoreIds \subseteq ScoresFor(j, seen[j])
            /\ found[j] \subseteq ScoresFor(j, seen[j])
        BY <1>0, TablesDiffer, StatementTypes DEF StatementsOk, ValuesOk, TypeOK
      <4>3. \A id \in ScoresFor(j, seen[j]) :
               Settled(id) => (id \in found[j] <=> Scorable(id[1], id[2]))
        BY <1>0, <2>1, <4>1 DEF ValuesOk
      <4>4. values' \subseteq scores'
        BY <1>0, <1>2, <4>1, <4>2 DEF ValuesOk
      <4>5. ASSUME NEW id \in scores'
            PROVE  /\ id[1] \in Written /\ id[2] \in Metrics
                   /\ Settled(id) => (id \in values' <=> Scorable(id[1], id[2]))
        <5>1. id \in scores \/ id \in own[j] \cap ScoreIds
          BY <4>1
        <5>2. CASE id \in scores
          BY <1>0, <1>1, <4>1, <4>2, <4>3, <5>2 DEF ValuesOk
        <5>3. CASE id \notin scores
          BY <1>0, <1>2, <4>1, <4>2, <4>3, <5>1, <5>3 DEF ValuesOk
        <5>4. QED
          BY <5>2, <5>3
      <4>6. QED
        BY <4>4, <4>5
    <3>3. QED
      BY <1>6, <3>1, <3>2
  <2>3. QED
    BY <1>0, <1>2, <2>1, <2>2 DEF ValuesOk, Settled, ScoresFor
<1>7. QED
  BY <1>3, <1>4, <1>5, <1>6 DEF Next, Open, Generate, Settle, JobStep

\* An aggregate that is written is backed by scores of the same transaction
\* or earlier ones; later scores only add to what backs it.
LEMMA BackedStep ==
    ASSUME InductiveInvariant, Next
    PROVE  AggregatesAreBacked'
<1>0. /\ TypeOK /\ StatementsOk /\ ScoresHaveRows /\ ValuesOk /\ AggregatesAreBacked
      /\ scores \subseteq scores' /\ ValuesOk'
      /\ \A k \in Written, m \in Metrics : Scorable(k, m)' <=> Scorable(k, m)
  BY ScoresStep, ValuesStep, ScorableStays DEF InductiveInvariant
<1> DEFINE Backed(a) == /\ aggregates'[a] <= Cardinality(Counted(scores', a))
                        /\ a[2] \notin NeedsData =>
                              aggregates'[a] <= Cardinality(Counted(values', a))
<1>1. values \subseteq values'
  BY <1>0 DEF Next, Open, Generate, Settle, JobStep, Load, SaveScore, SaveAggregate,
     Issue, Commit, Abort, database
<1>2. ASSUME NEW a \in AggregateIds, aggregates'[a] = aggregates[a], aggregates[a] # NoAggregate
      PROVE  Backed(a)
  <2>1. /\ aggregates[a] \in Nat /\ aggregates[a] <= Cardinality(Counted(scores, a))
        /\ a[2] \notin NeedsData => aggregates[a] <= Cardinality(Counted(values, a))
    BY <1>0, <1>2 DEF TypeOK, AggregatesAreBacked
  <2>2. /\ Cardinality(Counted(scores, a)) \in Nat /\ Cardinality(Counted(scores', a)) \in Nat
        /\ Cardinality(Counted(scores, a)) <= Cardinality(Counted(scores', a))
    BY <1>0, CountGrows
  <2>3. /\ Cardinality(Counted(values, a)) \in Nat /\ Cardinality(Counted(values', a)) \in Nat
        /\ Cardinality(Counted(values, a)) <= Cardinality(Counted(values', a))
    BY <1>1, CountGrows
  <2>4. QED
    BY <1>2, <2>1, <2>2, <2>3
<1>3. ASSUME NEW j \in Jobs, Commit(j), NEW a \in AggregateIds, a \in own[j]
      PROVE  Backed(a)
  <2>1. /\ aggregates'[a] = Cardinality(Counted(found[j], a))
        /\ todo[j] = {} /\ pc[j] = "open"
        /\ scores' = scores \cup (own[j] \cap ScoreIds)
    BY <1>3 DEF Commit
  <2>2. found[j] \subseteq scores'
    <3>1. ScoresFor(j, seen[j]) \subseteq own[j] \cup scores
      BY <1>0, <2>1 DEF StatementsOk
    <3>2. ScoresFor(j, seen[j]) \subseteq ScoreIds
      BY <1>0, StatementTypes DEF TypeOK
    <3>3. QED
      BY <1>0, <2>1, <3>1, <3>2 DEF ValuesOk
  <2>3. ASSUME a[2] \notin NeedsData
        PROVE  Counted(found[j], a) \subseteq Counted(values', a)
    <3>1. ASSUME NEW k \in Keys, <<k, a[2]>> \in found[j] PROVE <<k, a[2]>> \in values'
      <4>1. <<k, a[2]>> \in ScoresFor(j, seen[j]) /\ k \in Written /\ a[2] \in Metrics
        BY <1>0, <3>1 DEF ValuesOk, ScoresFor, ScoresHaveRows, TypeOK, ScoreIds
      <4>2. Scorable(k, a[2])
        BY <1>0, <2>1, <2>3, <3>1, <4>1 DEF ValuesOk, Settled
      <4>3. Scorable(k, a[2])'
        BY <1>0, <4>1, <4>2
      <4>4. QED
        BY <1>0, <2>2, <2>3, <3>1, <4>3 DEF ValuesOk, Settled
    <3>2. QED
      BY <3>1 DEF Counted
  <2>4. Cardinality(Counted(found[j], a)) <= Cardinality(Counted(scores', a))
    BY <2>2, CountGrows
  <2>5. ASSUME a[2] \notin NeedsData
        PROVE  Cardinality(Counted(found[j], a)) <= Cardinality(Counted(values', a))
    <3>1. Counted(values', a) \subseteq Keys
      BY DEF Counted
    <3>2. IsFiniteSet(Counted(values', a))
      BY <3>1, FS_Subset
    <3>3. QED
      BY <2>3, <2>5, <3>2, FS_Subset
  <2>6. QED
    BY <2>1, <2>4, <2>5
<1>4. ASSUME NEW a \in AggregateIds, aggregates'[a] # NoAggregate
      PROVE  Backed(a)
  <2>1. CASE aggregates'[a] = aggregates[a]
    BY <1>2, <1>4, <2>1
  <2>2. CASE aggregates'[a] # aggregates[a]
    <3>1. \E j \in Jobs : Commit(j)
      BY <2>2 DEF Next, Open, Generate, Settle, JobStep, Load, SaveScore,
         SaveAggregate, Issue, Abort, database
    <3>2. PICK j \in Jobs : Commit(j)
      BY <3>1
    <3>3. a \in own[j]
      BY <2>2, <3>2 DEF Commit
    <3>4. QED
      BY <3>2, <3>3, <1>3
  <2>3. QED
    BY <2>1, <2>2
<1>5. QED
  BY <1>4 DEF AggregatesAreBacked, Counted

LEMMA StepInvariant == InductiveInvariant /\ [Next]_vars => InductiveInvariant'
<1> SUFFICES ASSUME InductiveInvariant, [Next]_vars PROVE InductiveInvariant'
  OBVIOUS
<1>1. CASE Next
  BY <1>1, TypeStep, StatementsStep, ScoresStep, ValuesStep, BackedStep DEF InductiveInvariant
<1>2. CASE UNCHANGED vars
  <2>1. UNCHANGED <<rows, scores, values, aggregates, pc, seen, todo, found, own>>
    BY <1>2 DEF vars, ledger, database, jobs
  <2>2. TypeOK' /\ \A i, j \in Jobs : i # j => own'[i] \cap own'[j] = {}
    BY <2>1 DEF InductiveInvariant, TypeOK
  <2>3. StatementsOk'
    BY <2>1 DEF InductiveInvariant, StatementsOk, ScoresFor, AggregatesFor, Place
  <2>4. ScoresHaveRows' /\ CommittedJobsScored'
    BY <2>1 DEF InductiveInvariant, ScoresHaveRows, CommittedJobsScored, Written, ScoresFor
  <2>5. AggregatesAreBacked'
    BY <2>1 DEF InductiveInvariant, AggregatesAreBacked, Counted
  <2>6. ValuesOk'
    BY <2>1 DEF InductiveInvariant, ValuesOk, Settled, Scorable, ScoresFor
  <2>7. QED
    BY <2>2, <2>3, <2>4, <2>5, <2>6 DEF InductiveInvariant
<1>3. QED
  BY <1>1, <1>2

-----------------------------------------------------------------------------
(* The theorems.                                                           *)

\* Every reachable state satisfies the inductive invariant: one writer per
\* row, statements issued in order, every score and aggregate accounted for.
THEOREM ScoringInvariant == Spec => []InductiveInvariant
<1>1. Init => InductiveInvariant
  BY InitInvariant
<1>2. InductiveInvariant /\ [Next]_vars => InductiveInvariant'
  BY StepInvariant
<1>3. QED
  BY <1>1, <1>2, PTL DEF Spec

\* A job that committed left a score for every generation it read under every
\* metric it was asked for, whatever other jobs did (save_score).
THEOREM NoScoreIsLost == Spec => []CommittedJobsScored
<1>1. InductiveInvariant => CommittedJobsScored
  BY DEF InductiveInvariant
<1>2. QED
  BY <1>1, ScoringInvariant, PTL

\* No aggregate counts more observations than stored scores back, nor, unless
\* its metric depends on installed data, more than stored values (rescore_run's
\* single transaction).
THEOREM AggregatesHaveScores == Spec => []AggregatesAreBacked
<1>1. InductiveInvariant => AggregatesAreBacked
  BY DEF InductiveInvariant
<1>2. QED
  BY <1>1, ScoringInvariant, PTL

\* Every bounded set of numbers that is not empty has a largest one.
LEMMA Largest ==
    ASSUME NEW bound \in Nat, NEW S, S # {},
           \A n \in S : n \in Nat /\ n <= bound
    PROVE  \E n \in S : \A m \in S : m <= n
<1> DEFINE Gaps == {bound - n : n \in S}
<1>1. Gaps \subseteq Nat /\ Gaps # {}
  OBVIOUS
<1>2. IsWellFoundedOn(OpToRel(<, Nat), Nat)
  BY NatLessThanWellFounded
<1>3. PICK g \in Gaps : \A h \in Gaps : ~(<<h, g>> \in OpToRel(<, Nat))
  <2> HIDE DEF Gaps
  <2> QED
    BY <1>1, <1>2, WFMin
<1>4. \A h \in Gaps : ~(h < g)
  BY <1>1, <1>3 DEF OpToRel
<1>5. PICK n \in S : g = bound - n
  BY <1>3
<1>6. ASSUME NEW m \in S PROVE m <= n
  <2>1. bound - m \in Gaps
    OBVIOUS
  <2>2. ~(bound - m < bound - n)
    BY <2>1, <1>4, <1>5
  <2>3. QED
    BY <2>2
<1>7. QED
  BY <1>6

\* Jobs list the metrics they share in one order.
JobsAgree == \A i, j \in Jobs : ListRank[i] = ListRank[j]

\* A job waits only for one whose own next statement comes later: in a ring
\* of waiting jobs the one furthest on would wait for one further on still.
LEMMA WaitsClimb ==
    ASSUME JobsAgree, InductiveInvariant
    PROVE  NoWaitCycle
<1> SUFFICES ASSUME NEW ring \in (SUBSET Jobs) \ {{}},
                    \A j \in ring : \E i \in ring : WaitsFor(j, i)
             PROVE  FALSE
  BY DEF NoWaitCycle
<1>0. StatementsOk /\ TypeOK
  BY DEF InductiveInvariant
<1> DEFINE Reached == {n \in Nat : \E j \in ring, id \in Ids : At(j, id) /\ n = Place(j, id)}
<1>1. ASSUME NEW j \in ring
      PROVE  \E id \in Ids : At(j, id) /\ Place(j, id) \in Reached
  <2>1. PICK id : At(j, id)
    BY DEF WaitsFor
  <2>2. id \in Ids
    BY <1>0, <2>1 DEF At, TypeOK
  <2>3. QED
    BY <2>1, <2>2, PlaceIsBounded
<1>2. Reached # {} /\ \A n \in Reached : n \in Nat /\ n <= Top
  <2>1. Reached # {}
    <3>1. PICK j : j \in ring
      OBVIOUS
    <3> HIDE DEF Reached
    <3>2. QED
      BY <1>1, <3>1
  <2>2. \A n \in Reached : n \in Nat /\ n <= Top
    BY PlaceIsBounded
  <2>3. QED
    BY <2>1, <2>2
<1>3. Top \in Nat
  <2>1. Cardinality(Keys) * Width \in Nat /\ Cardinality(AggregateIds) \in Nat
    BY WidthFacts
  <2>2. QED
    BY <2>1 DEF Top
<1>4. PICK n \in Reached : \A m \in Reached : m <= n
  <2> HIDE DEF Reached
  <2> QED
    BY <1>2, <1>3, Largest
<1>5. PICK j \in ring, id \in Ids : At(j, id) /\ n = Place(j, id)
  BY <1>4
<1>6. PICK i \in ring : \E held \in own[i] : At(j, held)
  BY DEF WaitsFor
<1>7. id \in own[i]
  <2>0. PICK held \in own[i] : At(j, held)
    BY <1>6
  <2>1. held \in Ids /\ Place(j, held) \in Nat /\ Place(j, id) \in Nat
    BY <1>0, PlaceIsBounded DEF TypeOK
  <2>2. held # id => Place(j, held) < Place(j, id) /\ Place(j, id) < Place(j, held)
    BY <1>5, <2>0 DEF At
  <2>3. QED
    BY <2>1, <2>2
<1>8. PICK next \in Ids : At(i, next) /\ Place(i, next) \in Reached
  BY <1>1
<1>9. Place(i, id) < Place(i, next)
  BY <1>0, <1>6, <1>7, <1>8 DEF StatementsOk, At
<1>10. Place(i, id) = Place(j, id)
  BY DEF JobsAgree, Place
<1>11. Place(i, next) <= n /\ n \in Nat /\ Place(i, next) \in Nat
  <2> HIDE DEF Reached
  <2> QED
    BY <1>2, <1>4, <1>8
<1>12. n < Place(i, next)
  BY <1>5, <1>9, <1>10
<1>13. QED
  BY <1>11, <1>12

\* When all jobs list their metrics in one order, no scoring transactions ever
\* wait for each other in a ring, however many there are (rescore_run).
THEOREM NoDeadlock == ASSUME JobsAgree PROVE Spec => []NoWaitCycle
<1>1. InductiveInvariant => NoWaitCycle
  BY WaitsClimb
<1>2. QED
  BY <1>1, ScoringInvariant, PTL
-----------------------------------------------------------------------------
(* One job at a time.                                                      *)

\* What a job finds that has no other beside it: every stored score is of a
\* generation it read, every aggregate of what it read is one of its
\* statements, and until it commits the aggregates match the scores.
Undisturbed ==
    /\ \A j \in Jobs : pc[j] = "open" =>
          /\ \A id \in scores : id[1] \in seen[j]
          /\ AggregatesFor(j, seen[j]) \subseteq own[j] \cup todo[j]
    /\ AggregatesExact

\* A statement it issues goes from what is to do to what is done.
LEMMA UndisturbedIssue ==
    ASSUME InductiveInvariant, Undisturbed, NEW j \in Jobs, NEW id \in Ids,
           SaveScore(j, id) \/ SaveAggregate(j, id)
    PROVE  Undisturbed'
<1>0. /\ TypeOK /\ UNCHANGED <<rows, scores, values, aggregates, pc, seen>>
      /\ todo' = [todo EXCEPT ![j] = @ \ {id}]
      /\ id \in todo[j]
  BY DEF InductiveInvariant, SaveScore, SaveAggregate, Issue, At, ledger, database
<1>1. \/ own' = [own EXCEPT ![j] = @ \cup ({id} \ scores)] /\ id \in ScoreIds
      \/ own' = [own EXCEPT ![j] = @ \cup {id}]
  BY DEF SaveScore, SaveAggregate, Issue
<1>2. AggregatesExact'
  BY <1>0 DEF Undisturbed, AggregatesExact, Counted
<1>3. ASSUME NEW i \in Jobs, pc[i] = "open"
      PROVE  AggregatesFor(i, seen[i]) \subseteq own'[i] \cup todo'[i]
  <2>1. /\ AggregatesFor(i, seen[i]) \subseteq own[i] \cup todo[i]
        /\ AggregatesFor(i, seen[i]) \subseteq AggregateIds
    BY <1>0, <1>3, StatementTypes DEF Undisturbed, TypeOK
  <2>2. CASE i = j
    BY <1>0, <1>1, <2>1, <2>2, TablesDiffer DEF TypeOK
  <2>3. CASE i # j
    BY <1>0, <1>1, <2>1, <2>3 DEF TypeOK
  <2>4. QED
    BY <2>2, <2>3
<1>4. QED
  BY <1>0, <1>2, <1>3 DEF Undisturbed, AggregatesFor

\* An aggregate it replaces counts the values it found, which are the stored
\* ones; one it does not replace is of a slice and a metric it adds no score to.
LEMMA UndisturbedCommit ==
    ASSUME InductiveInvariant, Undisturbed, OneAtATime, NEW j \in Jobs, Commit(j)
    PROVE  Undisturbed'
<1>0. /\ TypeOK /\ StatementsOk /\ ScoresHaveRows /\ ValuesOk
      /\ pc[j] = "open" /\ todo[j] = {} /\ rows' = rows
      /\ scores' = scores \cup (own[j] \cap ScoreIds)
      /\ values' = values \cup (own[j] \cap found[j])
      /\ pc' = [pc EXCEPT ![j] = "committed"]
  BY DEF InductiveInvariant, Commit, Finish, ledger
<1>1. \A i \in Jobs : pc'[i] # "open"
  BY <1>0 DEF OneAtATime, TypeOK
<1>2. ASSUME NEW a \in AggregateIds, a \in own[j], a[2] \notin NeedsData
      PROVE  aggregates'[a] = Cardinality(Counted(values', a))
  <2>1. aggregates'[a] = Cardinality(Counted(found[j], a))
    BY <1>2 DEF Commit
  <2>2. a[2] \in Listed[j] /\ seen[j] \subseteq Keys
    BY <1>0, <1>2, TablesDiffer, StatementTypes DEF StatementsOk, AggregatesFor, TypeOK
  <2>3. /\ ScoresFor(j, seen[j]) \subseteq own[j] \cup scores
        /\ found[j] \subseteq ScoresFor(j, seen[j])
        /\ \A id \in ScoresFor(j, seen[j]) :
              Settled(id) => (id \in found[j] <=> Scorable(id[1], id[2]))
    BY <1>0 DEF StatementsOk, ValuesOk
  <2>4. ASSUME NEW k \in Keys
        PROVE  <<k, a[2]>> \in found[j] <=> <<k, a[2]>> \in values'
    <3>1. Settled(<<k, a[2]>>)
      BY <1>2 DEF Settled
    <3>2. CASE <<k, a[2]>> \in found[j]
      <4>1. <<k, a[2]>> \in own[j] \/ <<k, a[2]>> \in scores
        BY <2>3, <3>2
      <4>2. Scorable(k, a[2])
        BY <2>3, <3>1, <3>2
      <4>3. QED
        BY <1>0, <3>1, <3>2, <4>1, <4>2 DEF ValuesOk
    <3>3. CASE <<k, a[2]>> \in values
      <4>1. <<k, a[2]>> \in scores /\ Scorable(k, a[2])
        BY <1>0, <3>1, <3>3 DEF ValuesOk
      <4>2. k \in seen[j]
        BY <1>0, <4>1 DEF Undisturbed
      <4>3. <<k, a[2]>> \in ScoresFor(j, seen[j])
        BY <2>2, <4>2 DEF ScoresFor
      <4>4. QED
        BY <2>3, <3>1, <3>3, <4>1, <4>3, <1>0
    <3>4. QED
      BY <1>0, <3>2, <3>3
  <2>5. Counted(found[j], a) = Counted(values', a)
    BY <2>4 DEF Counted
  <2>6. QED
    BY <2>1, <2>5
<1>3. ASSUME NEW a \in AggregateIds, a \notin own[j]
      PROVE  aggregates'[a] = aggregates[a] /\ Counted(values', a) = Counted(values, a)
  <2>1. aggregates'[a] = aggregates[a]
    BY <1>3 DEF Commit
  <2>2. a = <<a[1], a[2]>> /\ a[1] \in Slices /\ a[2] \in Metrics
    BY DEF AggregateIds
  <2>3. ASSUME NEW k \in Keys, <<k, a[2]>> \in own[j], a[1] \in SlicesOf[k]
        PROVE  FALSE
    <3>1. <<k, a[2]>> \in ScoreIds
      BY <2>2 DEF ScoreIds
    <3>2. <<k, a[2]>> \in ScoresFor(j, seen[j])
      <4>1. /\ own[j] \subseteq ScoresFor(j, seen[j]) \cup AggregatesFor(j, seen[j])
            /\ seen[j] \in SUBSET Keys
        BY <1>0 DEF StatementsOk, TypeOK
      <4>2. <<k, a[2]>> \notin AggregatesFor(j, seen[j])
        BY <3>1, <4>1, TablesDiffer, StatementTypes
      <4>3. QED
        BY <2>3, <4>1, <4>2
    <3>3. k \in seen[j] /\ a[2] \in Listed[j]
      BY <3>2 DEF ScoresFor
    <3>4. a \in AggregatesFor(j, seen[j])
      <4>1. a[1] \in UNION {SlicesOf[key] : key \in seen[j]}
        BY <2>3, <3>3
      <4>2. QED
        BY <2>2, <3>3, <4>1 DEF AggregatesFor
    <3>5. QED
      BY <1>0, <1>3, <3>4 DEF Undisturbed
  <2>4. Counted(values', a) = Counted(values, a)
    BY <1>0, <2>3 DEF Counted
  <2>5. QED
    BY <2>1, <2>4
<1>4. AggregatesExact'
  BY <1>2, <1>3 DEF Undisturbed, AggregatesExact, Counted
<1>5. QED
  BY <1>1, <1>4 DEF Undisturbed

\* A generation written meanwhile has no score yet; a job that opens alone
\* reads every generation that has one.
LEMMA UndisturbedStep ==
    ASSUME InductiveInvariant, Undisturbed, OneAtATime, OneAtATime', [Next]_vars
    PROVE  Undisturbed'
<1>0. TypeOK /\ ScoresHaveRows
  BY DEF InductiveInvariant
<1>1. ASSUME UNCHANGED <<database, jobs>> PROVE Undisturbed'
  <2>1. UNCHANGED <<scores, values, aggregates, pc, seen, todo, own>>
    BY <1>1 DEF database, jobs
  <2>2. AggregatesExact'
    BY <2>1 DEF Undisturbed, AggregatesExact, Counted
  <2>3. QED
    BY <2>1, <2>2 DEF Undisturbed, AggregatesFor
<1>2. ASSUME NEW j \in Jobs, Load(j) PROVE Undisturbed'
  <2>1. /\ UNCHANGED <<rows, scores, values, aggregates, own>>
        /\ pc'[j] = "open" /\ seen'[j] = Written
        /\ AggregatesFor(j, Written) \subseteq todo'[j]
    BY <1>0, <1>2 DEF Load, TypeOK, ledger, database
  <2>2. \A i \in Jobs : pc'[i] = "open" => i = j
    BY <2>1 DEF OneAtATime
  <2>3. AggregatesExact'
    BY <2>1 DEF Undisturbed, AggregatesExact, Counted
  <2>4. \A id \in scores' : id[1] \in seen'[j]
    BY <1>0, <2>1 DEF ScoresHaveRows
  <2>5. QED
    BY <2>1, <2>2, <2>3, <2>4 DEF Undisturbed, AggregatesFor
<1>3. ASSUME NEW j \in Jobs, Abort(j) PROVE Undisturbed'
  <2>1. UNCHANGED <<rows, scores, values, aggregates, seen>> /\ \A i \in Jobs : pc'[i] # "open"
    BY <1>0, <1>3 DEF Abort, Finish, TypeOK, OneAtATime, ledger, database
  <2>2. AggregatesExact'
    BY <2>1 DEF Undisturbed, AggregatesExact, Counted
  <2>3. QED
    BY <2>1, <2>2 DEF Undisturbed
<1>4. CASE UNCHANGED vars
  BY <1>1, <1>4 DEF vars
<1>5. QED
  BY <1>1, <1>2, <1>3, <1>4, UndisturbedIssue, UndisturbedCommit
  DEF Next, Open, Generate, Settle, JobStep

\* While one job at a time is open, an aggregate counts exactly the stored
\* values it summarises, however often the run is scored while it grows, for
\* every metric that does not depend on installed data (rescore_run,
\* save_metric_aggregate).
THEOREM ScoringOneByOneIsExact == Spec => AggregatesMatchScores
<1>1. Init => Undisturbed
  BY DEF Init, Undisturbed, AggregatesExact
<1>2. InductiveInvariant /\ Undisturbed /\ OneAtATime /\ OneAtATime' /\ [Next]_vars => Undisturbed'
  BY UndisturbedStep
<1>3. Undisturbed => AggregatesExact
  BY DEF Undisturbed
<1>4. QED
  BY <1>1, <1>2, <1>3, ScoringInvariant, PTL DEF Spec, AggregatesMatchScores
=============================================================================
