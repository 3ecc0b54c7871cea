--------------------------- MODULE MCPublication ---------------------------
(* Values for the constants of Publication.tla: three cases judged and        *)
(* labelled on a scale of two scores, one label of which is a decimal; labels *)
(* that repeat a case; two runs of three cases, one of them flaky; a suite of *)
(* all of it and a manifest of one gate of each kind.                         *)
EXTENDS Publication, TLC

CONSTANTS gpt, claude, anthropic, unnamed, config1, config2, template, dataset

FoldedFamilies == (gpt :> gpt) @@ (claude :> claude) @@ (anthropic :> claude) @@ (unnamed :> Blank)
Fraction(n, d) == [num |-> n, den |-> d]

Rubric(mode, metric, holdout) ==
    [kind |-> "rubric", id |-> mode, mode |-> mode, min |-> 1, max |-> 2, reasoned |-> TRUE,
     metric |-> metric, threshold |-> Fraction(1, 2), min_holdout |-> holdout, min_dev |-> 1]
Candidates == [kind |-> "work", mode |-> "pointwise",
               rows |-> [i \in 1..3 |-> [case |-> i, generation |-> i]]]
Pairs == [kind |-> "work", mode |-> "pairwise",
          rows |-> [i \in 1..3 |-> [case |-> i, a |-> "x", b |-> <<"y", "y", "z">>[i]]]]
Scores(third) ==
    [kind |-> "responses",
     pointwise |-> [g \in 1..3 |-> [score |-> <<1, 2, third>>[g], reasoned |-> TRUE]],
     pairwise |-> [k \in (1..3) \X {0, 1} |->
        [preference |-> <<<<"A", "B">>, <<"A", "A">>, <<"B", "A">>>>[k[1]][k[2] + 1],
         reasoned |-> TRUE]]]
Labels(mode, split, cases, values) ==
    [kind |-> "labels",
     rows |-> [i \in DOMAIN cases |->
        [case |-> cases[i], shape |-> ShapeOf[mode], value |-> values[i], split |-> split,
         set |-> split, rubric |-> mode]]]
Whole(n) == [number |-> n, text |-> ToString(n)]
Decimal(n) == [number |-> n, text |-> ToString(n) \o ".0"]
Word(w) == [number |-> NoValue, text |-> w]
HoldoutLabels == Labels("pointwise", "holdout", <<1, 2, 3>>, <<Whole(1), Decimal(2), Whole(2)>>)
RepeatedLabels == Labels("pointwise", "holdout", <<1, 2, 2>>, <<Whole(1), Whole(2), Whole(2)>>)
DevLabels == Labels("pointwise", "dev", <<1>>, <<Decimal(1)>>)

Apart == [judge |-> claude, candidate |-> gpt]
Related == [judge |-> claude, candidate |-> anthropic]
Judgment(families) ==
    Judged(Rubric("pointwise", "cohen_kappa", 3), Candidates, Scores(2), families)
CalibrationByHoldout ==
    CalibrationOf(Judgment(Apart), HoldoutLabels, NoValue, Rubric("pointwise", "cohen_kappa", 3))

Run(id, config) ==
    [id |-> id, dataset |-> dataset, template |-> template, config |-> config, repeats |-> 2]
Passed(case, repeat, version, passed) ==
    [case |-> case, repeat |-> repeat, version |-> version, passed |-> passed]
OldRun ==
    [kind |-> "verdicts", run |-> Run("old", config1),
     verdicts |-> {Passed(1, r, 1, TRUE) : r \in {1, 2}} \cup {Passed(2, r, 1, TRUE) : r \in {1, 2}}]
NewRun(config) ==
    [kind |-> "verdicts", run |-> Run("new", config),
     verdicts |-> {Passed(1, r, 1, FALSE) : r \in {1, 2}} \cup {Passed(2, r, 1, r = 1) : r \in {1, 2}}
                  \cup {Passed(2, 1, 2, FALSE)}]

Report(run, publishable) ==
    [kind |-> "report", run |-> run, status |-> "completed", publishable |-> publishable,
     coverage |-> IF publishable THEN 4 ELSE 3, floor |-> 4, planned |-> 4, written |-> 4,
     failures |-> 0, dataset |-> "qa",
     aggregates |-> <<[metric |-> "exact", slice |-> "long", value |-> 1],
                      [metric |-> "exact", slice |-> "overall", value |-> 2]>>,
     examples |-> <<[case |-> 2, repeat |-> 1, task |-> "qa_short", failed |-> TRUE, harness |-> FALSE],
                    [case |-> 1, repeat |-> 1, task |-> "qa_short", failed |-> TRUE, harness |-> FALSE]>>,
     raw |-> FALSE, p95 |-> 5, unpriced |-> 0, cost |-> 3]
Rag == [kind |-> "rag", run |-> "old", gating |-> FALSE]

Member(path, label) ==
    [path |-> path, role |-> "candidate", label |-> label, dataset |-> NoValue,
     domain |-> NoValue, task |-> NoValue]
Suite ==
    [kind |-> "suite", members |-> <<Member("old.json", 1), Member("new.json", 2)>>,
     primary |-> <<[dataset |-> "qa", metric |-> "exact"]>>,
     compares |-> <<>>, calibrations |-> <<"calibration.json">>,
     judges |-> <<"judgment.json", "attached.json">>, rags |-> <<"rag.json">>]
Gate(kind) == [kind |-> kind, name |-> kind, severity |-> "blocking"]
Gates ==
    [kind |-> "gates",
     artifacts |-> [run_report |-> "new.json", compare |-> "compare.json",
                    calibration |-> "calibration.json"],
     gates |->
        <<Gate("coverage") @@ [completed |-> TRUE, floor |-> NoValue],
          Gate("harness_failure_rate") @@ [max |-> Fraction(1, 10)],
          Gate("quality_floor") @@ [metric |-> "exact", min |-> 2],
          Gate("latency") @@ [max |-> 4], Gate("cost") @@ [max |-> 4],
          Gate("paired_regression") @@ [min_effect |-> Fraction(1, 10), min_h |-> 1,
                                        max_p |-> NoValue],
          Gate("calibrated_judge") @@ [min_agreement |-> Fraction(1, 2)]>>]

Paths == Outputs \cup
    {"rubric.yaml", "work.jsonl", "responses.json", "holdout.jsonl", "dev.jsonl", "judgment.json",
     "attached.json", "calibration.json", "old.db", "new.db", "compare.json", "old.json",
     "new.json", "rag.json", "suite.yaml", "gates.yaml"}
\* Nothing is attached yet: a suite can be built once something was.
PointwiseDisk ==
    [f \in Paths |->
        CASE f = "rubric.yaml" -> Rubric("pointwise", "cohen_kappa", 3)
          [] f = "work.jsonl" -> Candidates
          [] f = "responses.json" -> Scores(2)
          [] f = "holdout.jsonl" -> HoldoutLabels
          [] f = "dev.jsonl" -> DevLabels
          [] f = "judgment.json" -> Judgment(Apart)
          [] f = "calibration.json" -> CalibrationByHoldout
          [] f = "old.db" -> OldRun
          [] f = "new.db" -> NewRun(config1)
          [] f = "old.json" -> Report("old", TRUE)
          [] f = "new.json" -> Report("new", FALSE)
          [] f = "rag.json" -> Rag
          [] f = "suite.yaml" -> Suite
          [] f = "gates.yaml" -> Gates
          [] OTHER -> Nothing]
\* Pairs of models, one of which is judged by its place only; nothing to build.
PairwiseDisk ==
    [f \in Paths |->
        CASE f = "rubric.yaml" -> Rubric("pairwise", "krippendorff_alpha", 3)
          [] f = "work.jsonl" -> Pairs
          [] f = "responses.json" -> Scores(2)
          [] f = "holdout.jsonl" -> Labels("pairwise", "holdout", <<1, 2, 3>>,
                                           <<Word("A"), Word("tie"), Word("B")>>)
          [] f = "dev.jsonl" -> Labels("pairwise", "dev", <<3>>, <<Word("B")>>)
          [] f = "judgment.json" ->
                Judged(Rubric("pairwise", "krippendorff_alpha", 3), Pairs, Scores(2), Apart)
          [] OTHER -> Nothing]
TwoDisks == {PointwiseDisk, PairwiseDisk}
Replacements ==
    [f \in Paths |-> CASE f = "holdout.jsonl" -> {RepeatedLabels}
                       [] OTHER -> {}]

Validate(dev) ==
    [kind |-> "validate", judgment |-> "judgment.json", holdout |-> "holdout.jsonl", dev |-> dev,
     rubric |-> "rubric.yaml", out |-> "calibration.json"]
JudgeTask ==
    [kind |-> "judge", rubric |-> "rubric.yaml", work |-> "work.jsonl",
     responses |-> "responses.json", families |-> Related, out |-> "judgment.json"]
AttachTask ==
    [kind |-> "attach", judgment |-> "judgment.json", calibration |-> "calibration.json",
     out |-> "attached.json"]
CompareTask ==
    [kind |-> "compare", baseline |-> "old.db", candidate |-> "new.db", compatible |-> FALSE,
     out |-> "compare.json"]
BuildTask == [kind |-> "build", manifest |-> "suite.yaml"]
CheckTask == [kind |-> "check", manifest |-> "gates.yaml", overrides |-> [a \in ArtifactNames |-> NoValue]]

CONSTANTS c1, c2
ReleaseTasks ==
    (c1 :> {JudgeTask, Validate("dev.jsonl"), Validate(NoValue), AttachTask, CompareTask, BuildTask})
    @@ (c2 :> {BuildTask, CheckTask})
SomeAngles == [n \in 1..4 |-> [k \in 0..n |-> k]]
OneInTwenty == Fraction(1, 20)
BelowManifests == Paths \ Outputs
=============================================================================
