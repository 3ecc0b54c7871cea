------------------------------- MODULE Scoring -------------------------------
(***************************************************************************)
(* Scoring stored generations: ScoringEngine.rescore_run                   *)
(* (src/evalharness/scoring/engine.py) over the scores and                 *)
(* metric_aggregates tables.                                               *)
(*                                                                         *)
(* A job is one call of rescore_run, by `evalctl run` after it executed    *)
(* the run or by `evalctl runs rescore` in a process of its own.  It is    *)
(* one transaction: the generations are read once, then one statement per  *)
(* (generation, metric) inserts a score unless it is there already, then   *)
(* one per (slice, metric) replaces an aggregate, then it commits.  The    *)
(* transaction is PostgreSQL's, READ COMMITTED: a statement sees what was  *)
(* committed before it, and an insert or update of a row another           *)
(* transaction has written and not committed waits for that transaction.   *)
(*                                                                         *)
(* What the run's generations do meanwhile is RunLedger's promise.         *)
(* A score is stored with a value or with NULL.  Most metrics compute a    *)
(* value from the generation and the case alone; METEOR and BERTScore also *)
(* need data or a package that may be missing, and return None until it is *)
(* installed, under the same version and config hash.                      *)
(***************************************************************************)
EXTENDS Naturals, FiniteSets

CONSTANTS
    Jobs,        \* calls of rescore_run
    Keys,        \* the (case, repeat) pairs of the run
    Metrics,     \* metric name, version and config hash: a score's identity
    Slices,      \* "__overall__" and the dimension=value pairs rolled up
    Generated,   \* the rows the run may write
    Listed,      \* [Jobs -> SUBSET Metrics]: what the caller asks for
    ListRank,    \* [Jobs -> [Metrics -> Nat]]: the order it lists them in
    KeyRank,     \* [Keys -> Nat]: case_id, then repeat_idx
    AggregateRank, \* [Slices \X Metrics -> Nat]: metric name, then slice
    SlicesOf,    \* [Keys -> SUBSET Slices]
    CountsMissing, \* metrics whose value is 0.0, not None, without an output
    Excluded,    \* <<key, metric>>: the case has nothing for it to compare with
    NeedsData,   \* metrics without a value while WordNet or a package is missing
    NoAggregate,
    PromptOf, Prompts, Texts, Inputs, NoRow, NoText, NoInputs

VARIABLES
    status, runInputs, rows, cache, \* the run, as RunLedger describes it
    scores,      \* committed rows of scores, by identity
    values,      \* those of them whose value is not NULL
    aggregates,  \* committed rows of metric_aggregates: n, by identity
    pc,          \* what a job's transaction has come to
    seen,        \* the generations it read
    todo,        \* the statements it has still to issue
    found,       \* the scores it computed a value for, which it will average
    own          \* rows it has written and not committed, locked until it ends

ledger == <<status, runInputs, rows, cache>>
database == <<scores, values, aggregates>>
jobs == <<pc, seen, todo, found, own>>
vars == <<ledger, database, jobs>>

Ledger == INSTANCE RunLedger

ScoreIds == Keys \X Metrics
AggregateIds == Slices \X Metrics
Ids == ScoreIds \cup AggregateIds

\* Statements per generation leave room for every metric of any list.
Width == 1 + Cardinality(Metrics)

\* Generations come ordered by case and repeat, each with the metrics in the
\* caller's order; the aggregates follow, sorted.
Place(j, id) ==
    IF id \in ScoreIds
    THEN KeyRank[id[1]] * Width + ListRank[j][id[2]]
    ELSE Cardinality(Keys) * Width + AggregateRank[id]

ASSUME ScoringAssumption ==
    /\ IsFiniteSet(Keys) /\ IsFiniteSet(Metrics) /\ IsFiniteSet(Slices)
    /\ Keys \cap Slices = {}
    /\ Generated \subseteq Ledger!Rows
    /\ Listed \in [Jobs -> SUBSET Metrics]
    /\ ListRank \in [Jobs -> [Metrics -> 0 .. Width - 1]]
    /\ KeyRank \in [Keys -> 0 .. Cardinality(Keys) - 1]
    /\ AggregateRank \in [AggregateIds -> 0 .. Cardinality(AggregateIds)]
    /\ SlicesOf \in [Keys -> SUBSET Slices]
    /\ CountsMissing \subseteq Metrics
    /\ Excluded \subseteq ScoreIds
    /\ NeedsData \subseteq Metrics
    /\ NoAggregate \notin Nat
    /\ NoRow \notin Ledger!Rows
    /\ PromptOf \in [Keys -> Prompts]

Written == {k \in Keys : rows[k] # NoRow}

\* A metric can score a generation: it has an output, or the metric counts a
\* missing one as 0.0, and the case says what to compare it with.
Scorable(k, m) ==
    /\ <<k, m>> \notin Excluded
    /\ rows[k].kind = "answer" \/ m \in CountsMissing

\* Whether it returns a value then: always, unless what it needs is missing on
\* the machine that scores.
MayReturn(k, m, value) ==
    /\ value => Scorable(k, m)
    /\ Scorable(k, m) /\ m \notin NeedsData => value

\* The generations whose score, among these, goes into an aggregate.
Counted(ids, a) == {k \in Keys : a[1] \in SlicesOf[k] /\ <<k, a[2]>> \in ids}

\* Every identity a job reading these generations will write.
ScoresFor(j, ks) == ks \X Listed[j]
AggregatesFor(j, ks) == (UNION {SlicesOf[k] : k \in ks}) \X Listed[j]

TypeOK ==
    /\ rows \in [Keys -> Generated \cup {NoRow}]
    /\ scores \subseteq ScoreIds
    /\ values \subseteq ScoreIds
    /\ aggregates \in [AggregateIds -> Nat \cup {NoAggregate}]
    /\ pc \in [Jobs -> {"idle", "open", "committed", "aborted"}]
    /\ seen \in [Jobs -> SUBSET Keys]
    /\ todo \in [Jobs -> SUBSET Ids]
    /\ found \in [Jobs -> SUBSET ScoreIds]
    /\ own \in [Jobs -> SUBSET Ids]
-----------------------------------------------------------------------------
Init ==
    /\ Ledger!Init
    /\ scores = {}
    /\ values = {}
    /\ aggregates = [a \in AggregateIds |-> NoAggregate]
    /\ pc = [j \in Jobs |-> "idle"]
    /\ seen = [j \in Jobs |-> {}]
    /\ todo = [j \in Jobs |-> {}]
    /\ found = [j \in Jobs |-> {}]
    /\ own = [j \in Jobs |-> {}]

\* The run, while it is scored.  The response cache does not concern scoring.
Open(i) ==
    /\ Ledger!Open(i)
    /\ UNCHANGED <<database, jobs>>

Generate(k, r) ==
    /\ Ledger!Record(k, r)
    /\ UNCHANGED <<database, jobs>>

Settle(s) ==
    /\ Ledger!Settle(s)
    /\ UNCHANGED <<database, jobs>>

-----------------------------------------------------------------------------
\* The run is looked up and its generations read, once.  What is not written
\* yet is not scored by this job.
Load(j) ==
    /\ pc[j] = "idle"
    /\ status # "absent"
    /\ seen' = [seen EXCEPT ![j] = Written]
    /\ todo' = [todo EXCEPT ![j] = ScoresFor(j, Written) \cup AggregatesFor(j, Written)]
    /\ pc' = [pc EXCEPT ![j] = "open"]
    /\ UNCHANGED <<ledger, database, found, own>>

At_Unordered(j, id) == pc[j] = "open" /\ id \in todo[j]

\* The statement a job is at.
At(j, id) ==
    /\ pc[j] = "open"
    /\ id \in todo[j]
    /\ \A other \in todo[j] \ {id} : Place(j, id) < Place(j, other)

LockedByOther(j, id) == \E i \in Jobs \ {j} : id \in own[i]

Issue(j, id, written) ==
    /\ At(j, id)
    /\ ~LockedByOther(j, id)
    /\ todo' = [todo EXCEPT ![j] = @ \ {id}]
    /\ own' = [own EXCEPT ![j] = @ \cup written]
    /\ UNCHANGED <<ledger, database, pc, seen>>

\* The metric is computed whether the score is stored already or not.
Compute(j, id) ==
    \E value \in BOOLEAN :
       /\ MayReturn(id[1], id[2], value)
       /\ found' = [found EXCEPT ![j] = IF value THEN @ \cup {id} ELSE @]

SaveScore_DoesNotWait(j, id) ==
    /\ id \in ScoreIds
    /\ At(j, id)
    /\ todo' = [todo EXCEPT ![j] = @ \ {id}]
    /\ own' = [own EXCEPT ![j] = IF LockedByOther(j, id) THEN @ ELSE @ \cup ({id} \ scores)]
    /\ Compute(j, id)
    /\ UNCHANGED <<ledger, database, pc, seen>>

\* save_score: ON CONFLICT DO NOTHING, so the value stored first stays.
SaveScore(j, id) ==
    /\ id \in ScoreIds
    /\ Issue(j, id, {id} \ scores)
    /\ Compute(j, id)

\* save_metric_aggregate: ON CONFLICT DO UPDATE, so the row is locked whether
\* it is new or not.
SaveAggregate(j, id) ==
    /\ id \in AggregateIds
    /\ Issue(j, id, {id})
    /\ UNCHANGED found

\* The transaction is over, and what the process computed for it forgotten.
Finish(j, outcome) ==
    /\ pc' = [pc EXCEPT ![j] = outcome]
    /\ own' = [own EXCEPT ![j] = {}]
    /\ found' = [found EXCEPT ![j] = {}]

Commit_KeepsAggregates(j) ==
    /\ pc[j] = "open"
    /\ todo[j] = {}
    /\ scores' = scores \cup (own[j] \cap ScoreIds)
    /\ values' = values \cup (own[j] \cap found[j])
    /\ aggregates' = [a \in AggregateIds |->
                        IF a \in own[j] /\ aggregates[a] = NoAggregate
                        THEN Cardinality(Counted(found[j], a)) ELSE aggregates[a]]
    /\ Finish(j, "committed")
    /\ UNCHANGED <<ledger, seen, todo>>

Commit_KeepsLocks(j) ==
    /\ pc[j] = "open"
    /\ todo[j] = {}
    /\ pc' = [pc EXCEPT ![j] = "committed"]
    /\ UNCHANGED <<ledger, database, seen, todo, found, own>>

\* n as the aggregate's last statement set it: the values this job computed,
\* of which a conflict may have kept it from storing some.
Commit(j) ==
    /\ pc[j] = "open"
    /\ todo[j] = {}
    /\ scores' = scores \cup (own[j] \cap ScoreIds)
    /\ values' = values \cup (own[j] \cap found[j])
    /\ aggregates' = [a \in AggregateIds |->
                        IF a \in own[j] THEN Cardinality(Counted(found[j], a))
                        ELSE aggregates[a]]
    /\ Finish(j, "committed")
    /\ UNCHANGED <<ledger, seen, todo>>

\* A metric that cannot score a case, a lost connection, a killed process,
\* PostgreSQL's choice of a deadlock victim: nothing of the transaction stays.
Abort(j) ==
    /\ pc[j] = "open"
    /\ todo' = [todo EXCEPT ![j] = {}]
    /\ Finish(j, "aborted")
    /\ UNCHANGED <<ledger, database, seen>>

JobStep(j) ==
    \/ \E id \in Ids : SaveScore(j, id) \/ SaveAggregate(j, id)
    \/ Commit(j)

Next ==
    \/ \E i \in Inputs : Open(i)
    \/ \E k \in Keys, r \in Generated : Generate(k, r)
    \/ \E s \in {"completed", "cancelled", "failed"} : Settle(s)
    \/ \E j \in Jobs : Load(j) \/ JobStep(j) \/ Abort(j)

Spec == Init /\ [][Next]_vars

\* A transaction that is not waiting is served; nothing else is owed.
FairSpec == Spec /\ \A j \in Jobs : WF_vars(JobStep(j))
-----------------------------------------------------------------------------
(* Safety.                                                                 *)

\* A job that committed left a score for every generation it read under every
\* metric it was asked for, whoever inserted it: an insert that conflicts with
\* a row of a transaction still running waits to learn whether it stays
\* (ScoreRepository.save_score).
CommittedJobsScored ==
    \A j \in Jobs : pc[j] = "committed" => ScoresFor(j, seen[j]) \subseteq scores

\* However jobs overlap with each other and with the run, an aggregate never
\* counts more observations than there are stored scores, nor, unless the
\* metric depends on installed data, more than there are stored values
\* (ScoringEngine.rescore_run writes both in one transaction).  With METEOR a
\* rescore after the data was installed counts values over scores that stay
\* NULL (save_score).
AggregatesAreBacked ==
    \A a \in AggregateIds :
       aggregates[a] # NoAggregate =>
          /\ aggregates[a] <= Cardinality(Counted(scores, a))
          /\ a[2] \notin NeedsData =>
                aggregates[a] <= Cardinality(Counted(values, a))

\* While one job at a time is open, as when the commands run one by one, an
\* aggregate counts exactly the stored values it summarises, however often the
\* run is scored while it grows (save_metric_aggregate), for every metric
\* that does not depend on installed data.
OneAtATime == \A i, j \in Jobs : pc[i] = "open" /\ pc[j] = "open" => i = j
AggregatesExact ==
    \A a \in AggregateIds :
       aggregates[a] # NoAggregate /\ a[2] \notin NeedsData =>
          aggregates[a] = Cardinality(Counted(values, a))
AggregatesMatchScores == []OneAtATime => []AggregatesExact

\* Job j's next statement has to wait for job i.
WaitsFor(j, i) == i # j /\ \E id \in own[i] : At(j, id)

\* Jobs that list their metrics in one order never wait for each other in a
\* ring: generations come back ordered and aggregates are sorted, so every
\* transaction takes its rows in the same order (ScoringEngine.rescore_run,
\* GenerationRepository.get_generations_for_run).
NoWaitCycle ==
    \A ring \in (SUBSET Jobs) \ {{}} :
       \E j \in ring : \A i \in ring : ~WaitsFor(j, i)

\* A re-aggregation over more generations replaces the number of one over
\* fewer (save_metric_aggregate); an older one never comes back.
AggregatesNeverGoStale ==
    [][\A a \in AggregateIds :
          aggregates[a] # NoAggregate => aggregates'[a] >= aggregates[a]]_vars

(* Why the safety properties hold: the inductive invariant that            *)
(* ScoringProofs.tla preserves step by step.                               *)

\* A transaction has issued, has still to issue, or need not write each of its
\* statements, and takes its rows in the order of Place.
StatementsOk ==
    \A j \in Jobs :
       /\ pc[j] # "open" => own[j] = {} /\ todo[j] = {}
       /\ own[j] \cup todo[j] \subseteq
             ScoresFor(j, seen[j]) \cup AggregatesFor(j, seen[j])
       /\ pc[j] = "open" =>
             ScoresFor(j, seen[j]) \subseteq todo[j] \cup own[j] \cup scores
       /\ \A mine \in own[j], next \in todo[j] : Place(j, mine) < Place(j, next)

\* Only generations the run has are scored, and they stay.
ScoresHaveRows ==
    /\ \A j \in Jobs : seen[j] \subseteq Written
    /\ \A id \in scores : id[1] \in Written

\* A job has computed a value for whatever it has issued and a metric can
\* score, and so has whoever stored a score, unless data may be missing.
Settled(id) == id[2] \notin NeedsData

ValuesOk ==
    /\ values \subseteq scores
    /\ \A id \in scores : Settled(id) => (id \in values <=> Scorable(id[1], id[2]))
    /\ \A j \in Jobs :
       /\ found[j] \subseteq ScoresFor(j, seen[j]) \ todo[j]
       /\ pc[j] # "open" => found[j] = {}
       /\ pc[j] = "open" =>
             \A id \in ScoresFor(j, seen[j]) \ todo[j] :
                Settled(id) => (id \in found[j] <=> Scorable(id[1], id[2]))

\* The whole invariant: no row has two writers, every stored score, value and
\* aggregate is accounted for.
InductiveInvariant ==
    /\ TypeOK
    /\ \A i, j \in Jobs : i # j => own[i] \cap own[j] = {}
    /\ StatementsOk
    /\ ScoresHaveRows
    /\ ValuesOk
    /\ CommittedJobsScored
    /\ AggregatesAreBacked

(* Liveness.                                                               *)

\* Every scoring transaction ends: it does not wait for ever for another
\* (ScoringEngine.rescore_run).
ScoringEnds == \A j \in Jobs : pc[j] = "open" ~> pc[j] # "open"
=============================================================================
