------------------------------ MODULE Reporting ------------------------------
(***************************************************************************)
(* `evalctl run` from execution to the report files:                       *)
(* EvaluationService.run (src/evalharness/services/evaluation.py),         *)
(* build_report and write_report (reporting/io.py) and the headline of     *)
(* assemble_run_report (reporting/assemble.py).                            *)
(*                                                                         *)
(* An evaluator is one such process.  It executes the run, scores it as a  *)
(* job of Scoring.tla and reports it; several may resume one run, and      *)
(* `evalctl runs rescore` (the jobs that are no evaluators) may run beside *)
(* them.  The report's reads are separate statements of one READ COMMITTED *)
(* session, the run's row first; its three files are written one after     *)
(* another under names made of the run's id, so that evaluators of one run *)
(* share them.                                                             *)
(***************************************************************************)
EXTENDS Scoring

CONSTANTS
    Evaluators,    \* the jobs that are `evalctl run` processes
    Primary,       \* [Evaluators -> Metrics]: the head of its metric list
    NameOf,        \* metric names; an identity is a name, a version, a config
    NoPage

VARIABLES
    stage,         \* where an evaluator is
    verdict,       \* the status its own pass over the run ended with
    page,          \* what its report has read
    files          \* the report files of the run, each made of one page

reports == <<stage, verdict, page, files>>
everything == <<vars, reports>>

Reading == {"generations", "scores", "aggregates"}
Writing == {"json", "html", "xml"}
Stages == {"off", "executing", "scoring", "done", "failed"} \cup Reading \cup Writing

BlankPage ==
    [status |-> "absent", generations |-> {}, verdicts |-> {},
     aggregates |-> [a \in AggregateIds |-> NoAggregate]]

ASSUME ReportingAssumption ==
    /\ Evaluators \subseteq Jobs
    /\ Primary \in [Evaluators -> Metrics]
    /\ \A e \in Evaluators : Primary[e] \in Listed[e]

PipelineInit ==
    /\ Init
    /\ stage = [e \in Evaluators |-> "off"]
    /\ verdict = [e \in Evaluators |-> "absent"]
    /\ page = [e \in Evaluators |-> BlankPage]
    /\ files = [f \in Writing |-> NoPage]

Becomes(e, s) == stage' = [stage EXCEPT ![e] = s]
-----------------------------------------------------------------------------
(* Execution, as the run's ledger shows it.                                *)

\* The run is created, or resumed.
StartRun(e) ==
    /\ stage[e] = "off"
    /\ IF status = "absent" THEN \E i \in Inputs : Open(i) ELSE UNCHANGED vars
    /\ Becomes(e, "executing")
    /\ UNCHANGED <<verdict, page, files>>

WriteRow(e, k, r) ==
    /\ stage[e] = "executing"
    /\ Generate(k, r)
    /\ UNCHANGED reports

\* execute_run returns, whatever status it recorded, and scoring follows.
EndRun(e, s) ==
    /\ stage[e] = "executing"
    /\ Settle(s)
    /\ verdict' = [verdict EXCEPT ![e] = s]
    /\ Becomes(e, "scoring")
    /\ UNCHANGED <<page, files>>

-----------------------------------------------------------------------------
(* Scoring.  A job that is no evaluator runs whenever its operator likes.  *)

Score(j) ==
    /\ j \in Evaluators => stage[j] = "scoring"
    /\ Load(j) \/ JobStep(j)
    /\ UNCHANGED reports

ScoringFails(j) ==
    /\ Abort(j)
    /\ stage' = [e \in Evaluators |-> IF e = j THEN "failed" ELSE stage[e]]
    /\ UNCHANGED <<verdict, page, files>>

-----------------------------------------------------------------------------
(* The report: every statement sees what was committed before it.          *)

ReadRun_BeforeScoring(e) ==
    /\ stage[e] = "scoring"
    /\ page' = [page EXCEPT ![e].status = status]
    /\ Becomes(e, "generations")
    /\ UNCHANGED <<vars, verdict, files>>

ReadRun(e) ==
    /\ stage[e] = "scoring"
    /\ pc[e] = "committed"
    /\ page' = [page EXCEPT ![e].status = status]
    /\ Becomes(e, "generations")
    /\ UNCHANGED <<vars, verdict, files>>

ReadGenerations(e) ==
    /\ stage[e] = "generations"
    /\ page' = [page EXCEPT ![e].generations = Written]
    /\ Becomes(e, "scores")
    /\ UNCHANGED <<vars, verdict, files>>

\* Of the stored scores only those with a verdict count: a score without a
\* value has none.
ReadScores(e) ==
    /\ stage[e] = "scores"
    /\ page' = [page EXCEPT ![e].verdicts = values]
    /\ Becomes(e, "aggregates")
    /\ UNCHANGED <<vars, verdict, files>>

ReadAggregates_RunLast(e) ==
    /\ stage[e] = "aggregates"
    /\ page' = [page EXCEPT ![e].aggregates = aggregates, ![e].status = status]
    /\ Becomes(e, "json")
    /\ UNCHANGED <<vars, verdict, files>>

ReadAggregates(e) ==
    /\ stage[e] = "aggregates"
    /\ page' = [page EXCEPT ![e].aggregates = aggregates]
    /\ Becomes(e, "json")
    /\ UNCHANGED <<vars, verdict, files>>

Following == [json |-> "html", html |-> "xml", xml |-> "done"]

WriteFile(e) ==
    /\ stage[e] \in Writing
    /\ files' = [files EXCEPT ![stage[e]] = page[e]]
    /\ Becomes(e, Following[stage[e]])
    /\ UNCHANGED <<vars, verdict, page>>

\* An exception or the end of the process, outside the scoring transaction.
Crash(e) ==
    /\ stage[e] \in {"executing"} \cup Reading \cup Writing
    /\ Becomes(e, "failed")
    /\ UNCHANGED <<vars, verdict, page, files>>

PipelineNext ==
    \/ \E e \in Evaluators :
          \/ StartRun(e)
          \/ \E k \in Keys, r \in Generated : WriteRow(e, k, r)
          \/ \E s \in {"completed", "cancelled", "failed"} : EndRun(e, s)
          \/ ReadRun(e) \/ ReadGenerations(e) \/ ReadScores(e) \/ ReadAggregates(e)
          \/ WriteFile(e) \/ Crash(e)
    \/ \E j \in Jobs : Score(j) \/ ScoringFails(j)

PipelineSpec == PipelineInit /\ [][PipelineNext]_everything
-----------------------------------------------------------------------------
(* What a report says.                                                     *)

\* The observations of a pass rate: every stored verdict under the name of the
\* primary metric, pass_rate_n of them.
Headline(e) == {id \in page[e].verdicts : NameOf[id[2]] = NameOf[Primary[e]]}

\* Its own scores alone, one for each generation the metric can score.
Own(e) == {k \in Keys : Scorable(k, Primary[e])} \X {Primary[e]}

\* It reads or has read: the stages given, and after them.
Reported(e, stages) == stage[e] \in stages \cup {"done"}

Ready(e) == stage[e] \in Writing \cup {"done"}
-----------------------------------------------------------------------------
(* Safety.                                                                 *)

\* A report file that says "completed" lists every generation of the run,
\* whoever else was resuming it, crashed or wrote files meanwhile: the status is
\* read before the generations (build_report), and "completed" is recorded over
\* a full run only.
CompletedListsEveryRow ==
    \A f \in Writing :
       files[f] # NoPage /\ files[f].status = "completed" => files[f].generations = Keys

\* When an evaluator's own pass completed the run, the headline of its report
\* leaves out no generation the primary metric can score, however many others
\* score the run at the same time (EvaluationService.run: execute, then score,
\* then report), unless that metric depends on installed data.
Whole(e) == verdict[e] = "completed" /\ Primary[e] \notin NeedsData

HeadlineIsComplete ==
    \A e \in Evaluators : Ready(e) /\ Whole(e) => Own(e) \subseteq Headline(e)

(* Why they hold: the invariant ReportingProofs.tla preserves, beside the  *)
(* one of the scoring transactions.                                        *)

\* An evaluator scores after its pass, and reports what it scored; a run that
\* was complete when a report or a scoring transaction looked stays complete.
PagesOk ==
    \A e \in Evaluators :
       /\ stage[e] \in {"off", "executing"} => pc[e] = "idle"
       /\ verdict[e] = "completed" =>
             Written = Keys /\ (pc[e] # "idle" => seen[e] = Keys)
       /\ Reported(e, Reading \cup Writing) =>
             pc[e] = "committed" /\ (page[e].status = "completed" => Written = Keys)
       /\ Reported(e, (Reading \ {"generations"}) \cup Writing) =>
             (page[e].status = "completed" => page[e].generations = Keys)
       /\ Ready(e) \/ stage[e] = "aggregates" =>
             (Whole(e) => Own(e) \subseteq page[e].verdicts)

RunStatuses == {"absent", "running", "completed", "cancelled", "failed"}
Pages ==
    [status : RunStatuses, generations : SUBSET Keys, verdicts : SUBSET ScoreIds,
     aggregates : [AggregateIds -> Nat \cup {NoAggregate}]]

PipelineTypeOK ==
    /\ stage \in [Evaluators -> Stages]
    /\ verdict \in [Evaluators -> RunStatuses \ {"running"}]
    /\ page \in [Evaluators -> Pages]
    /\ files \in [Writing -> Pages \cup {NoPage}]
    /\ status \in RunStatuses
    /\ status = "completed" => Written = Keys

\* The whole invariant of the pipeline.
PipelineInvariant ==
    InductiveInvariant /\ PipelineTypeOK /\ PagesOk /\ CompletedListsEveryRow
=============================================================================
