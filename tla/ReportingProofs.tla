--------------------------- MODULE ReportingProofs ---------------------------
(***************************************************************************)
(* Proofs about Reporting.tla, for any number of evaluators of one run     *)
(* beside any number of rescoring jobs.                                    *)
(***************************************************************************)
EXTENDS Reporting, ScoringProofs

USE ReportingAssumption

LEMMA PipelineInitInvariant == PipelineInit => PipelineInvariant
<1> SUFFICES ASSUME PipelineInit PROVE PipelineInvariant
  OBVIOUS
<1>1. InductiveInvariant
  BY InitInvariant DEF PipelineInit
<1>2. PipelineTypeOK
  BY DEF PipelineInit, PipelineTypeOK, Init, Ledger!Init, Stages, BlankPage, Pages, RunStatuses
<1>3. PagesOk
  BY DEF PipelineInit, PagesOk, Init, Ready, Reported, Reading, Writing
<1>4. CompletedListsEveryRow
  BY DEF PipelineInit, CompletedListsEveryRow
<1>5. QED
  BY <1>1, <1>2, <1>3, <1>4 DEF PipelineInvariant

\* Every step of the pipeline is a step of scoring, or leaves it alone.
LEMMA PipelineStepsScore == PipelineNext => [Next]_vars
BY DEF PipelineNext, StartRun, WriteRow, EndRun, Score, ScoringFails, ReadRun,
   ReadGenerations, ReadScores, ReadAggregates, WriteFile, Crash, Next

\* A run that is complete stays complete, and only a complete one is recorded
\* as completed.
LEMMA CompletionStep ==
    ASSUME InductiveInvariant, PipelineTypeOK, PipelineNext
    PROVE  /\ Written = Keys => Written' = Keys
           /\ status' \in RunStatuses
           /\ status' = "completed" => Written' = Keys
<1>1. Written \subseteq Written' /\ Written' \subseteq Keys
  <2>1. CASE Next
    BY <2>1, RowsStay DEF Written
  <2>2. CASE UNCHANGED vars
    BY <2>2 DEF vars, ledger, Written
  <2>3. QED
    BY <2>1, <2>2, PipelineStepsScore
<1>2. status' = status \/ status' = "running" \/ (\E s \in {"completed", "cancelled", "failed"} : Ledger!Settle(s))
  BY DEF PipelineNext, StartRun, WriteRow, EndRun, Score, ScoringFails, ReadRun,
     ReadGenerations, ReadScores, ReadAggregates, WriteFile, Crash, Open, Generate, Settle,
     Ledger!Open, Ledger!Record, Load, JobStep, SaveScore, SaveAggregate, Issue, Commit,
     Abort, Finish, vars, ledger
<1>3. ASSUME NEW s, Ledger!Settle(s), s = "completed" PROVE Written' = Keys
  BY <1>1, <1>3 DEF Ledger!Settle, Ledger!Missing, Written
<1>4. QED
  BY <1>1, <1>2, <1>3 DEF PipelineTypeOK, RunStatuses, Ledger!Settle

\* The types, and that "completed" is only recorded over a full run.
LEMMA PipelineTypeStep ==
    ASSUME InductiveInvariant, PipelineTypeOK, PipelineNext
    PROVE  PipelineTypeOK'
<1>0. /\ status' \in RunStatuses
      /\ status' = "completed" => Written' = Keys
  BY CompletionStep
<1>1. /\ Written \in SUBSET Keys /\ values \in SUBSET ScoreIds
      /\ aggregates \in [AggregateIds -> Nat \cup {NoAggregate}]
  BY DEF InductiveInvariant, TypeOK, Written
<1>2. ASSUME NEW e \in Evaluators,
             StartRun(e) \/ (\E k \in Keys, r \in Generated : WriteRow(e, k, r))
               \/ (\E s \in {"completed", "cancelled", "failed"} : EndRun(e, s))
               \/ WriteFile(e) \/ Crash(e)
      PROVE  PipelineTypeOK'
  <2>1. page' = page
    BY <1>2 DEF StartRun, WriteRow, EndRun, WriteFile, Crash, reports
  <2>2. verdict' \in [Evaluators -> RunStatuses \ {"running"}]
    BY <1>2 DEF PipelineTypeOK, RunStatuses, StartRun, WriteRow, EndRun, WriteFile, Crash, reports
  <2>3. ASSUME NEW s \in Stages, Becomes(e, s) PROVE stage' \in [Evaluators -> Stages]
    BY <2>3 DEF PipelineTypeOK, Becomes
  <2>4. stage[e] \in Writing => Following[stage[e]] \in Stages
    BY DEF Writing, Following, Stages
  <2>5. stage' \in [Evaluators -> Stages]
    <3>1. CASE stage' = stage
      BY <3>1 DEF PipelineTypeOK
    <3>2. CASE \E s \in Stages : Becomes(e, s)
      BY <3>2, <2>3
    <3>3. stage' = stage \/ \E s \in Stages : Becomes(e, s)
      <4>1. {"executing", "scoring", "failed"} \subseteq Stages
        BY DEF Stages
      <4>2. QED
        BY <1>2, <2>4, <4>1 DEF StartRun, WriteRow, EndRun, WriteFile, Crash, reports
    <3>4. QED
      BY <3>1, <3>2, <3>3
  <2>6. files' \in [Writing -> Pages \cup {NoPage}]
    <3>1. CASE WriteFile(e)
      BY <3>1 DEF WriteFile, PipelineTypeOK
    <3>2. CASE ~WriteFile(e)
      BY <1>2, <3>2 DEF PipelineTypeOK, StartRun, WriteRow, EndRun, Crash, reports
    <3>3. QED
      BY <3>1, <3>2
  <2>7. QED
    BY ZenonT(30), <1>0, <2>1, <2>2, <2>5, <2>6 DEF PipelineTypeOK
<1>3. ASSUME NEW e \in Evaluators, ReadRun(e) PROVE PipelineTypeOK'
  <2>1. page' \in [Evaluators -> Pages]
    BY <1>3 DEF PipelineTypeOK, Pages, ReadRun
  <2>2. stage' \in [Evaluators -> Stages]
    BY <1>3 DEF PipelineTypeOK, ReadRun, Becomes, Stages, Reading
  <2>3. verdict' = verdict /\ files' = files
    BY <1>3 DEF ReadRun
  <2>4. QED
    BY ZenonT(60), <1>0, <2>1, <2>2, <2>3 DEF PipelineTypeOK
<1>4. ASSUME NEW e \in Evaluators, ReadGenerations(e) PROVE PipelineTypeOK'
  <2>1. page' \in [Evaluators -> Pages]
    BY <1>4, <1>1 DEF PipelineTypeOK, Pages, ReadGenerations
  <2>2. stage' \in [Evaluators -> Stages]
    BY <1>4 DEF PipelineTypeOK, ReadGenerations, Becomes, Stages, Reading
  <2>3. verdict' = verdict /\ files' = files
    BY <1>4 DEF ReadGenerations
  <2>4. QED
    BY ZenonT(60), <1>0, <2>1, <2>2, <2>3 DEF PipelineTypeOK
<1>5. ASSUME NEW e \in Evaluators, ReadScores(e) PROVE PipelineTypeOK'
  <2>1. page' \in [Evaluators -> Pages]
    BY <1>5, <1>1 DEF PipelineTypeOK, Pages, ReadScores
  <2>2. stage' \in [Evaluators -> Stages]
    BY <1>5 DEF PipelineTypeOK, ReadScores, Becomes, Stages, Reading
  <2>3. verdict' = verdict /\ files' = files
    BY <1>5 DEF ReadScores
  <2>4. QED
    BY ZenonT(60), <1>0, <2>1, <2>2, <2>3 DEF PipelineTypeOK
<1>6. ASSUME NEW e \in Evaluators, ReadAggregates(e) PROVE PipelineTypeOK'
  <2>1. page' \in [Evaluators -> Pages]
    BY <1>6, <1>1 DEF PipelineTypeOK, Pages, ReadAggregates
  <2>2. stage' \in [Evaluators -> Stages]
    BY <1>6 DEF PipelineTypeOK, ReadAggregates, Becomes, Stages, Writing
  <2>3. verdict' = verdict /\ files' = files
    BY <1>6 DEF ReadAggregates
  <2>4. QED
    BY ZenonT(60), <1>0, <2>1, <2>2, <2>3 DEF PipelineTypeOK
<1>7. ASSUME NEW j \in Jobs, Score(j) \/ ScoringFails(j) PROVE PipelineTypeOK'
  BY <1>0, <1>7 DEF PipelineTypeOK, Score, ScoringFails, reports, Stages
<1>8. QED
  BY <1>2, <1>3, <1>4, <1>5, <1>6, <1>7 DEF PipelineNext

\* What a scoring step changes of an evaluator's transaction.
LEMMA ScoringStepFacts ==
    ASSUME InductiveInvariant, PipelineTypeOK, PagesOk, NEW j \in Jobs,
           Score(j) \/ ScoringFails(j), NEW e \in Evaluators
    PROVE  /\ pc[e] = "committed" => pc'[e] = "committed" /\ seen'[e] = seen[e]
           /\ stage'[e] = stage[e] \/ stage'[e] = "failed"
           /\ stage[e] \in {"off", "executing"} => pc'[e] = pc[e]
           /\ pc'[e] # "idle" => (pc[e] # "idle" /\ seen'[e] = seen[e]) \/ seen'[e] = Written
           /\ Written' = Written /\ verdict' = verdict /\ page' = page
<1>0. pc \in [Jobs -> {"idle", "open", "committed", "aborted"}] /\ seen \in [Jobs -> SUBSET Keys]
  BY DEF InductiveInvariant, TypeOK
<1>1. CASE Score(j)
  <2>1. CASE Load(j)
    BY <1>0, <1>1, <2>1 DEF Score, Load, ledger, Written, reports
  <2>2. CASE JobStep(j)
    BY <1>0, <1>1, <2>2 DEF Score, JobStep, SaveScore, SaveAggregate, Issue, At, Commit, Finish,
       ledger, Written, reports
  <2>3. QED
    BY <1>1, <2>1, <2>2 DEF Score
<1>2. CASE ScoringFails(j)
  <2>1. /\ pc[j] = "open" /\ pc' = [pc EXCEPT ![j] = "aborted"] /\ seen' = seen
        /\ rows' = rows /\ verdict' = verdict /\ page' = page
        /\ stage' = [f \in Evaluators |-> IF f = j THEN "failed" ELSE stage[f]]
    BY <1>2 DEF ScoringFails, Abort, Finish, ledger
  <2>2. stage'[e] = stage[e] \/ stage'[e] = "failed"
    BY <2>1
  <2>3. stage[e] \in {"off", "executing"} => e # j
    BY <2>1 DEF PagesOk
  <2>4. /\ e # j => pc'[e] = pc[e]
        /\ e = j => pc[e] = "open"
    BY <1>0, <2>1
  <2>5. Written' = Written
    BY <2>1 DEF Written
  <2>6. QED
    BY <2>1, <2>2, <2>3, <2>4, <2>5
<1>3. QED
  BY <1>1, <1>2

\* Once a run is complete, what its metrics can score stays so.
LEMMA OwnStays ==
    ASSUME InductiveInvariant, PipelineNext, Written = Keys, NEW e \in Evaluators
    PROVE  Own(e)' = Own(e)
<1>1. CASE Next
  <2>1. \A k \in Keys : Scorable(k, Primary[e])' <=> Scorable(k, Primary[e])
    BY <1>1, ScorableStays
  <2>2. QED
    BY <2>1 DEF Own
<1>2. CASE UNCHANGED vars
  BY <1>2 DEF vars, ledger, Own, Scorable
<1>3. QED
  BY <1>1, <1>2, PipelineStepsScore

\* What the evaluators know of the run and of its scores stays true.
LEMMA PagesStep ==
    ASSUME InductiveInvariant, PipelineTypeOK, PagesOk, PipelineNext
    PROVE  PagesOk'
<1>0. /\ Written = Keys => Written' = Keys
      /\ pc \in [Jobs -> {"idle", "open", "committed", "aborted"}]
      /\ seen \in [Jobs -> SUBSET Keys]
      /\ CommittedJobsScored /\ ScoresHaveRows /\ ValuesOk
      /\ \A f \in Evaluators : verdict[f] = "completed" => Own(f)' = Own(f)
  BY CompletionStep, OwnStays DEF InductiveInvariant, TypeOK, PagesOk
<1>1. ASSUME NEW e \in Evaluators, StartRun(e) \/ Crash(e) \/ WriteFile(e) PROVE PagesOk'
  <2>1. pc' = pc /\ seen' = seen /\ verdict' = verdict /\ page' = page
    BY <1>1 DEF StartRun, Crash, WriteFile, Open, vars, jobs
  <2>2. /\ \A f \in Evaluators \ {e} : stage'[f] = stage[f]
        /\ \/ stage[e] = "off" /\ stage'[e] = "executing"
           \/ stage'[e] = "failed"
           \/ stage[e] \in Writing /\ stage'[e] \in {"html", "xml", "done"}
    BY <1>1 DEF StartRun, Crash, WriteFile, Becomes, Following, Writing, PipelineTypeOK
  <2>3. QED
    BY <1>0, <2>1, <2>2 DEF PagesOk, Whole, Ready, Reported, Reading, Writing
<1>2. ASSUME NEW e \in Evaluators, \E k \in Keys, r \in Generated : WriteRow(e, k, r)
      PROVE  PagesOk'
  BY <1>0, <1>2 DEF WriteRow, Generate, PagesOk, Whole, Ready, Reported, jobs, reports
<1>3. ASSUME NEW e \in Evaluators, NEW s \in {"completed", "cancelled", "failed"}, EndRun(e, s)
      PROVE  PagesOk'
  <2>1. /\ pc' = pc /\ seen' = seen /\ page' = page
        /\ stage[e] = "executing" /\ stage'[e] = "scoring" /\ verdict'[e] = s
        /\ \A f \in Evaluators \ {e} : stage'[f] = stage[f] /\ verdict'[f] = verdict[f]
        /\ s = "completed" => Written = Keys
    BY <1>3 DEF EndRun, Settle, Becomes, jobs, PipelineTypeOK, Ledger!Settle, Ledger!Missing,
       Written
  <2>2. QED
    BY <1>0, <2>1 DEF PagesOk, Whole, Ready, Reported, Reading, Writing
<1>4. ASSUME NEW e \in Evaluators,
             ReadRun(e) \/ ReadGenerations(e) \/ ReadScores(e) \/ ReadAggregates(e)
      PROVE  PagesOk'
  <2>1. /\ pc' = pc /\ seen' = seen /\ verdict' = verdict /\ Written' = Written
        /\ \A f \in Evaluators \ {e} : stage'[f] = stage[f] /\ page'[f] = page[f]
    BY <1>4 DEF ReadRun, ReadGenerations, ReadScores, ReadAggregates, Becomes, vars, jobs,
       ledger, Written, PipelineTypeOK
  <2>2. CASE ReadRun(e)
    <3>1. /\ pc[e] = "committed" /\ stage'[e] = "generations"
          /\ page'[e].status = status
      BY <2>2 DEF ReadRun, Becomes, PipelineTypeOK
    <3>2. QED
      BY <1>0, <2>1, <3>1 DEF PagesOk, Whole, Ready, Reported, Reading, Writing, PipelineTypeOK
  <2>3. CASE ReadGenerations(e)
    <3>1. /\ stage[e] = "generations" /\ stage'[e] = "scores"
          /\ page'[e].status = page[e].status /\ page'[e].generations = Written
      BY <2>3 DEF ReadGenerations, Becomes, PipelineTypeOK
    <3>2. QED
      BY <1>0, <2>1, <3>1 DEF PagesOk, Whole, Ready, Reported, Reading, Writing
  <2>4. CASE ReadScores(e)
    <3>1. /\ stage[e] = "scores" /\ stage'[e] = "aggregates"
          /\ page'[e].status = page[e].status
          /\ page'[e].generations = page[e].generations /\ page'[e].verdicts = values
      BY <2>4 DEF ReadScores, Becomes, PipelineTypeOK
    <3>2. pc[e] = "committed"
      BY <3>1 DEF PagesOk, Reported, Reading
    <3>3. ASSUME Whole(e), NEW id \in Own(e) PROVE id \in values
      <4>1. /\ id[1] \in Keys /\ id[2] = Primary[e] /\ id = <<id[1], Primary[e]>>
            /\ Scorable(id[1], id[2])
        BY <3>3 DEF Own
      <4>2. seen[e] = Keys
        BY <3>2, <3>3 DEF PagesOk, Whole
      <4>3. id \in scores
        BY <1>0, <3>2, <4>1, <4>2 DEF CommittedJobsScored, ScoresFor
      <4>4. QED
        BY <1>0, <3>3, <4>1, <4>3 DEF ValuesOk, Settled, Whole
    <3>4. QED
      BY <1>0, <2>1, <3>1, <3>2, <3>3 DEF PagesOk, Whole, Ready, Reported, Reading, Writing
  <2>5. CASE ReadAggregates(e)
    <3>1. /\ stage[e] = "aggregates" /\ stage'[e] = "json"
          /\ page'[e].status = page[e].status
          /\ page'[e].generations = page[e].generations /\ page'[e].verdicts = page[e].verdicts
      BY <2>5 DEF ReadAggregates, Becomes, PipelineTypeOK
    <3>2. QED
      BY <1>0, <2>1, <3>1 DEF PagesOk, Whole, Ready, Reported, Reading, Writing
  <2>6. QED
    BY <1>4, <2>2, <2>3, <2>4, <2>5
<1>5. ASSUME NEW j \in Jobs, Score(j) \/ ScoringFails(j) PROVE PagesOk'
  BY <1>0, <1>5, ScoringStepFacts DEF PagesOk, Whole, Ready, Reported, Reading, Writing
<1>6. QED
  BY <1>1, <1>2, <1>3, <1>4, <1>5 DEF PipelineNext

\* A file is written from a page whose generations were read after its status.
LEMMA FilesStep ==
    ASSUME PipelineTypeOK, PagesOk, CompletedListsEveryRow, PipelineNext
    PROVE  CompletedListsEveryRow'
<1>1. CASE \E e \in Evaluators : WriteFile(e)
  <2>1. PICK e \in Evaluators : WriteFile(e)
    BY <1>1
  <2>2. page[e].status = "completed" => page[e].generations = Keys
    BY <2>1 DEF WriteFile, PagesOk, Reported
  <2>3. files' = [files EXCEPT ![stage[e]] = page[e]]
    BY <2>1 DEF WriteFile
  <2>4. QED
    BY <2>2, <2>3 DEF CompletedListsEveryRow, PipelineTypeOK
<1>2. CASE ~ \E e \in Evaluators : WriteFile(e)
  <2>1. files' = files
    BY <1>2 DEF PipelineNext, StartRun, WriteRow, EndRun, ReadRun, ReadGenerations,
       ReadScores, ReadAggregates, Crash, Score, ScoringFails, reports
  <2>2. QED
    BY <2>1 DEF CompletedListsEveryRow
<1>3. QED
  BY <1>1, <1>2

LEMMA PipelineStepInvariant ==
    PipelineInvariant /\ [PipelineNext]_everything => PipelineInvariant'
<1> SUFFICES ASSUME PipelineInvariant, [PipelineNext]_everything
             PROVE  PipelineInvariant'
  OBVIOUS
<1>1. CASE PipelineNext
  <2>1. InductiveInvariant'
    BY <1>1, PipelineStepsScore, StepInvariant DEF PipelineInvariant
  <2>2. QED
    BY <1>1, <2>1, PipelineTypeStep, PagesStep, FilesStep DEF PipelineInvariant
<1>2. CASE UNCHANGED everything
  <2>1. InductiveInvariant'
    BY <1>2, StepInvariant DEF PipelineInvariant, everything
  <2>2. UNCHANGED <<stage, verdict, page, files, status, rows, pc, seen>>
    BY <1>2 DEF everything, reports, vars, ledger, jobs
  <2>3. PipelineTypeOK' /\ PagesOk' /\ CompletedListsEveryRow'
    BY <2>2 DEF PipelineInvariant, PipelineTypeOK, PagesOk, Whole, Own, Scorable, Ready,
       Reported, Written,
       CompletedListsEveryRow
  <2>4. QED
    BY <2>1, <2>3 DEF PipelineInvariant
<1>3. QED
  BY <1>1, <1>2

-----------------------------------------------------------------------------
(* The theorems.                                                           *)

\* Every reachable state of the pipelines satisfies the invariant.
THEOREM PipelineIsInvariant == PipelineSpec => []PipelineInvariant
<1>1. PipelineInit => PipelineInvariant
  BY PipelineInitInvariant
<1>2. PipelineInvariant /\ [PipelineNext]_everything => PipelineInvariant'
  BY PipelineStepInvariant
<1>3. QED
  BY <1>1, <1>2, PTL DEF PipelineSpec

\* A report file that says "completed" lists every generation of the run
\* (build_report reads the status first).
THEOREM CompletedReportsAreFull == PipelineSpec => []CompletedListsEveryRow
<1>1. PipelineInvariant => CompletedListsEveryRow
  BY DEF PipelineInvariant
<1>2. QED
  BY <1>1, PipelineIsInvariant, PTL

\* When an evaluator's own pass completed the run, the headline of its report
\* has every generation the primary metric can score, unless that metric
\* depends on installed data (EvaluationService.run).
THEOREM HeadlinesAreComplete == PipelineSpec => []HeadlineIsComplete
<1>1. PipelineInvariant => HeadlineIsComplete
  BY DEF PipelineInvariant, PagesOk, HeadlineIsComplete, Ready, Own, Headline
<1>2. QED
  BY <1>1, PipelineIsInvariant, PTL

=============================================================================
