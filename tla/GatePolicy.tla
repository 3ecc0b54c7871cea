----------------------------- MODULE GatePolicy -----------------------------
(***************************************************************************)
(* What `evalctl gates check` decides (gates/loader.py, models.py,         *)
(* evaluate.py): a manifest of gates over one run report, one comparison   *)
(* and one calibration.  No state: Publication.tla runs this over files.   *)
(* Rates, effects and scores are whole numbers or fractions.               *)
(***************************************************************************)
EXTENDS JudgePolicy, ComparePolicy

\* Which artifact a gate is about, and what bounds it has; "floor" may be left
\* to the report, "min_h", "max_p" and "min_agreement" may be left out.
Needs ==
    [coverage |-> "run_report", harness_failure_rate |-> "run_report",
     quality_floor |-> "run_report", latency |-> "run_report", cost |-> "run_report",
     paired_regression |-> "compare", calibrated_judge |-> "calibration"]
ArtifactNames == {"run_report", "compare", "calibration"}

\* GatesManifest: what a gate needs is declared; an override only replaces it.
ManifestLoads(manifest) ==
    /\ manifest.gates # <<>>
    /\ \A i, j \in DOMAIN manifest.gates :
        manifest.gates[i].name = manifest.gates[j].name => i = j
    /\ \A i \in DOMAIN manifest.gates :
        manifest.artifacts[Needs[manifest.gates[i].kind]] # NoValue

\* _resolve_bound.  Declared paths stay below the manifest, overrides need not.
Bound(manifest, overrides, artifact) ==
    IF overrides[artifact] # NoValue THEN overrides[artifact] ELSE manifest.artifacts[artifact]
Resolvable(manifest, overrides, inside) ==
    \A a \in ArtifactNames : overrides[a] = NoValue /\ manifest.artifacts[a] # NoValue =>
        manifest.artifacts[a] \in inside

\* _eval_coverage .. _eval_cost.
CoverageOk(gate, report) ==
    LET floor == IF gate.floor # NoValue THEN gate.floor ELSE report.floor
    IN  /\ gate.completed => report.status = "completed"
        /\ report.coverage >= floor
FailureRateOk(gate, report) ==
    /\ report.planned # 0
    /\ report.failures * gate.max.den <= gate.max.num * report.planned
\* The first aggregate of the metric that is over all cases.
Headlines(report, metric) ==
    {i \in DOMAIN report.aggregates :
        report.aggregates[i].metric = metric /\ report.aggregates[i].slice = "overall"}
Headline(report, metric) == report.aggregates[Min(Headlines(report, metric))]
QualityOk(gate, report) ==
    /\ Headlines(report, gate.metric) # {}
    /\ Headline(report, gate.metric).value >= gate.min
LatencyOk(gate, report) == report.p95 # NoValue /\ report.p95 <= gate.max
CostOk(gate, report) == report.unpriced = 0 /\ report.cost <= gate.max

Magnitude(x) == IF x < 0 THEN -x ELSE x
Significant(gate, compare) ==
    IF gate.max_p # NoValue THEN AtMost(compare.p, gate.max_p) ELSE compare.significant
PracticalEffect(gate, compare) ==
    /\ Magnitude(compare.new - compare.old) * gate.min_effect.den
        >= gate.min_effect.num * compare.n
    /\ gate.min_h # NoValue => Magnitude(compare.h) >= gate.min_h
RegressionOk(gate, compare) ==
    \/ compare.new >= compare.old
    \/ ~Significant(gate, compare)
    \/ ~PracticalEffect(gate, compare)

JudgeOk(gate, calibration) ==
    /\ calibration.body.gating
    /\ gate.min_agreement # NoValue =>
        /\ calibration.body.holdout.agreement # NoValue
        /\ AtLeast(calibration.body.holdout.agreement, gate.min_agreement)

\* _eval_one; artifact is what the gate is about.
Passes(gate, artifact) ==
    CASE gate.kind = "coverage" -> CoverageOk(gate, artifact)
      [] gate.kind = "harness_failure_rate" -> FailureRateOk(gate, artifact)
      [] gate.kind = "quality_floor" -> QualityOk(gate, artifact)
      [] gate.kind = "latency" -> LatencyOk(gate, artifact)
      [] gate.kind = "cost" -> CostOk(gate, artifact)
      [] gate.kind = "paired_regression" -> RegressionOk(gate, artifact)
      [] gate.kind = "calibrated_judge" -> JudgeOk(gate, artifact)

\* evaluate_gates: every gate is evaluated; a blocking one that fails makes
\* the command fail.
Evaluation(manifest, loaded) ==
    LET failed == {i \in DOMAIN manifest.gates :
                    ~Passes(manifest.gates[i], loaded[Needs[manifest.gates[i].kind]])}
        of(severity) == {i \in failed : manifest.gates[i].severity = severity}
    IN  [failed |-> {manifest.gates[i].name : i \in failed},
         blocking_failed |-> of("blocking") # {},
         informational_failed |-> of("informational") # {}]
=============================================================================
