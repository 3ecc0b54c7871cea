---------------------------- MODULE JudgePolicy ----------------------------
(***************************************************************************)
(* What decides whether a judge's verdicts may gate anything: the          *)
(* deterministic runners (judge/runner.py, pairwise.py), the agreement of  *)
(* a judge with human labels (labels.py, agreement.py) and the binding of  *)
(* a calibration to a judgment (calibrate.py, hashing.py).  No state:      *)
(* Publication.tla runs these over files.                                  *)
(*                                                                         *)
(* The digest of a body is the body.  Agreement is an exact ratio, where   *)
(* the code has a float.  Texts are left out, but for being given or not.  *)
(* A rating is what it is as a number and what it prints as: a label may   *)
(* be 1, 1.0 or "1", which are one number and two texts.                   *)
(***************************************************************************)
EXTENDS Integers, FiniteSets, Sequences, FiniteSetsExt, TLC

CONSTANTS
    Folded,    \* [families -> families]: a model family stripped, in lower case
    Blank,     \* what nothing but spaces becomes
    NoValue

Distinct(rows) == \A i, j \in DOMAIN rows : rows[i].case = rows[j].case => i = j

-----------------------------------------------------------------------------
(* Rubrics and judgments.                                                  *)

\* A bound is a fraction between 0 and 1.
RubricLoads(r) ==
    /\ r.min < r.max
    /\ r.threshold.num \in 0..r.threshold.den
    /\ r.min_holdout >= 1 /\ r.min_dev >= 1

\* resolve_original_preference: the second ordering shows the pair the other
\* way round.
Resolve(position, preference) ==
    CASE preference = "tie" \/ position = 0 -> preference
      [] preference = "A" -> "B"
      [] OTHER -> "A"

\* build_pairwise_item: a preference that follows the position is a tie.
PairwiseItem(pair, shown) ==
    LET consistent == Resolve(0, shown[1]) = Resolve(1, shown[2]) /\ shown[1] # "tie"
    IN  [case |-> pair.case, a |-> pair.a, b |-> pair.b, shown |-> shown,
         consistent |-> consistent, final |-> IF consistent THEN shown[1] ELSE "tie"]

\* pairwise_graph_summary: win rates if the decided pairs connect all models.
Decided(items) == {i \in DOMAIN items : items[i].final # "tie"}
Winner(item) == IF item.final = "A" THEN item.a ELSE item.b
Models(items) == UNION {{items[i].a, items[i].b} : i \in DOMAIN items}
Edges(items) == {{items[i].a, items[i].b} : i \in Decided(items)}
Connected(items) ==
    /\ Cardinality(Models(items)) >= 2
    /\ \A part \in SUBSET Models(items) \ {{}, Models(items)} :
        \E edge \in Edges(items) : edge \cap part # {} /\ ~(edge \subseteq part)
WinRates(items) ==
    IF ~Connected(items) THEN NoValue
    ELSE [m \in Models(items) |->
            [wins |-> Cardinality({i \in Decided(items) : Winner(items[i]) = m}),
             matches |-> Cardinality({i \in Decided(items) : m \in {items[i].a, items[i].b}})]]

\* swap_consistency_rate, position_bias_rate.
PairwiseSummary(items) ==
    LET opinions == {p \in (DOMAIN items) \X {1, 2} : items[p[1]].shown[p[2]] # "tie"}
    IN  [pairs |-> Len(items),
         consistent |-> Cardinality({i \in DOMAIN items : items[i].consistent}),
         first |-> Cardinality({p \in opinions : items[p[1]].shown[p[2]] = "A"}),
         opinions |-> Cardinality(opinions),
         win_rates |-> WinRates(items)]

\* run_pointwise, run_pairwise: a judge run over a file of candidates or pairs,
\* or none at all.
Answered(rubric, answers, key) ==
    /\ key \in DOMAIN answers
    /\ rubric.reasoned => answers[key].reasoned
CanJudge(rubric, work, answers, families) ==
    /\ RubricLoads(rubric)
    /\ Folded[families.judge] # Blank /\ Folded[families.candidate] # Blank
    /\ work.mode = rubric.mode
    /\ work.rows # <<>> /\ Distinct(work.rows)
    /\ \A i \in DOMAIN work.rows :
        LET row == work.rows[i]
        IN  IF rubric.mode = "pointwise"
            THEN /\ Answered(rubric, answers.pointwise, row.generation)
                 /\ answers.pointwise[row.generation].score \in rubric.min..rubric.max
            ELSE /\ row.a # row.b
                 /\ \A p \in {0, 1} : Answered(rubric, answers.pairwise, <<row.case, p>>)

Judged(rubric, work, answers, families) ==
    LET row(i) == work.rows[i]
        shown(i) == <<answers.pairwise[<<row(i).case, 0>>].preference,
                      answers.pairwise[<<row(i).case, 1>>].preference>>
        pointwise == [i \in DOMAIN work.rows |->
            [case |-> row(i).case, score |-> answers.pointwise[row(i).generation].score]]
        pairwise == [i \in DOMAIN work.rows |-> PairwiseItem(row(i), shown(i))]
        body == [mode |-> rubric.mode, rubric |-> rubric.id, families |-> families,
                 dumped |-> TRUE,
                 items |-> IF rubric.mode = "pointwise" THEN pointwise ELSE pairwise,
                 summary |-> IF rubric.mode = "pointwise" THEN NoValue
                             ELSE PairwiseSummary(pairwise)]
    IN  [kind |-> "judgment", body |-> body, gating |-> FALSE, claimed |-> NoValue]

\* JudgmentArtifact: a gate bit names a calibration.
JudgmentLoads(j) ==
    /\ j.kind = "judgment"
    /\ Folded[j.body.families.judge] # Blank /\ Folded[j.body.families.candidate] # Blank
    /\ j.gating => j.claimed # NoValue

\* judgment_identity_digest: all but the fields attach_calibration rewrites.
Op_Identity(j) == <<j.body, j.gating>>
Identity(j) == <<j.body>>

-----------------------------------------------------------------------------
(* Agreement of two raters over the cases S, h[i] and j[i] the two ratings. *)

Differ(S, h, j) == Cardinality({i \in S : h[i] # j[i]})
Square(x) == x * x

CohenKappa(S, h, j) ==
    LET all == Square(Cardinality(S))
        chance == Cardinality({p \in S \X S : h[p[1]] = j[p[2]]})
    IN  [num |-> all - chance - Cardinality(S) * Differ(S, h, j), den |-> all - chance,
         root |-> FALSE]

Rating(h, j, r) == IF r[2] = "human" THEN h[r[1]] ELSE j[r[1]]
Ratings(S) == S \X {"human", "judge"}

NominalAlpha(S, h, j) ==
    LET all == 4 * Square(Cardinality(S))
        same == Cardinality({p \in Ratings(S) \X Ratings(S) :
                                Rating(h, j, p[1]) = Rating(h, j, p[2])})
    IN  [num |-> all - same - 4 * Cardinality(S) * Differ(S, h, j), den |-> all - same,
         root |-> FALSE]

OrdinalAlpha(S, h, j) ==
    LET spread == MapThenSumSet(LAMBDA p : Square(Rating(h, j, p[1]) - Rating(h, j, p[2])),
                                Ratings(S) \X Ratings(S))
        apart == MapThenSumSet(LAMBDA i : Square(h[i] - j[i]), S)
    IN  [num |-> spread - 4 * Cardinality(S) * apart, den |-> spread, root |-> FALSE]

\* Twice the average rank, around its mean; the ratio is that of num to the
\* root of den.
Spearman(S, h, j) ==
    LET rank(v, i) == 2 * Cardinality({k \in S : v[k] < v[i]})
                      + Cardinality({k \in S : v[k] = v[i]}) - Cardinality(S)
        sum(v, w) == MapThenSumSet(LAMBDA i : rank(v, i) * rank(w, i), S)
    IN  [num |-> sum(h, j), den |-> sum(h, h) * sum(j, j), root |-> TRUE]

\* compute_agreement: Cohen's kappa, and alpha if all is text, take ratings for
\* what they print as, the others for numbers.
Aspect(metric, mode) ==
    IF metric = "cohen_kappa" \/ (metric = "krippendorff_alpha" /\ mode = "pairwise")
    THEN "text" ELSE "number"

\* compute_agreement: nothing to agree on without two categories.
Constant(S, v) == \A i, k \in S : v[i] = v[k]
Agreement(metric, mode, S, h, j) ==
    IF metric = "spearman"
    THEN IF Constant(S, h) \/ Constant(S, j) THEN NoValue ELSE Spearman(S, h, j)
    ELSE IF \A i, k \in S : h[i] = h[k] /\ h[i] = j[k] THEN NoValue
         ELSE CASE metric = "cohen_kappa" -> CohenKappa(S, h, j)
                [] mode = "pairwise" -> NominalAlpha(S, h, j)
                [] OTHER -> OrdinalAlpha(S, h, j)

AtLeast(agreement, bound) ==
    IF agreement.root
    THEN /\ agreement.num >= 0
         /\ Square(agreement.num * bound.den) >= Square(bound.num) * agreement.den
    ELSE agreement.num * bound.den >= bound.num * agreement.den

-----------------------------------------------------------------------------
(* Labels and calibration.                                                 *)

\* load_labels: n counts labelled cases, so a case is labelled once.
Op_LabelsLoad(labels, split) ==
    /\ labels.rows # <<>>
    /\ \A i \in DOMAIN labels.rows :
        labels.rows[i].split = split /\ labels.rows[i].set = labels.rows[1].set
LabelsLoad(labels, split) ==
    /\ labels.rows # <<>>
    /\ \A i \in DOMAIN labels.rows :
        labels.rows[i].split = split /\ labels.rows[i].set = labels.rows[1].set
    /\ Distinct(labels.rows)

\* _extract_judge_values: the labels whose case has a verdict, and the two
\* ratings of each.
Verdict(body, k) == IF body.mode = "pointwise" THEN body.items[k].score ELSE body.items[k].final
VerdictOf(body, case) ==
    LET k == CHOOSE k \in DOMAIN body.items : body.items[k].case = case IN Verdict(body, k)
Paired(body, labels) ==
    {i \in DOMAIN labels.rows : \E k \in DOMAIN body.items :
        body.items[k].case = labels.rows[i].case /\ Verdict(body, k) # NoValue}
Rated(body, case) ==
    LET verdict == VerdictOf(body, case)
    IN  IF body.mode = "pointwise" THEN [number |-> verdict, text |-> ToString(verdict)]
        ELSE [number |-> NoValue, text |-> verdict]
Human(body, labels, aspect) ==
    [i \in Paired(body, labels) |-> labels.rows[i].value[aspect]]
Judge(body, labels, aspect) ==
    [i \in Paired(body, labels) |-> Rated(body, labels.rows[i].case)[aspect]]

ShapeOf == [pointwise |-> "ordinal_score", pairwise |-> "preference"]

\* What a split must be like to be measured at all: of the judgment's rubric, in
\* the shape of its mode, and of numbers where numbers are compared.
Measurable(body, labels, rubric) ==
    /\ \A i \in DOMAIN labels.rows : labels.rows[i].rubric = body.rubric
    /\ \A i \in Paired(body, labels) : labels.rows[i].shape = ShapeOf[body.mode]
    /\ Aspect(rubric.metric, body.mode) = "number" =>
        \A i \in Paired(body, labels) :
            NoValue \notin {labels.rows[i].value.number, Rated(body, labels.rows[i].case).number}

\* _split_section.
Section(body, labels, rubric) ==
    LET S == Paired(body, labels)
        aspect == Aspect(rubric.metric, body.mode)
    IN  [set |-> labels.rows[1].set, n |-> Cardinality(S),
         agreement |-> Agreement(rubric.metric, body.mode, S, Human(body, labels, aspect),
                                 Judge(body, labels, aspect))]

\* validate_calibration: dev is NoValue when no dev labels are given.
CanCalibrate(judgment, holdout, dev, rubric) ==
    LET body == judgment.body
    IN  /\ JudgmentLoads(judgment) /\ Distinct(body.items)
        /\ LabelsLoad(holdout, "holdout") /\ Measurable(body, holdout, rubric)
        /\ RubricLoads(rubric) /\ rubric.id = body.rubric
        /\ dev # NoValue =>
            /\ LabelsLoad(dev, "dev") /\ Measurable(body, dev, rubric)
            /\ dev.rows[1].set # holdout.rows[1].set

FamiliesApart(families) ==
    /\ Folded[families.judge] # Blank /\ Folded[families.candidate] # Blank
    /\ Folded[families.judge] # Folded[families.candidate]

GatingAllowed(body, holdout, dev, rubric) ==
    /\ FamiliesApart(body.families)
    /\ holdout.n >= rubric.min_holdout
    /\ holdout.agreement # NoValue /\ AtLeast(holdout.agreement, rubric.threshold)
    /\ dev # NoValue /\ dev.n >= rubric.min_dev

CalibrationOf(judgment, holdout, dev, rubric) ==
    LET body == judgment.body
        onHoldout == Section(body, holdout, rubric)
        onDev == IF dev = NoValue THEN NoValue ELSE Section(body, dev, rubric)
        content == [judgment |-> Identity(judgment), rubric |-> body.rubric,
                    holdout |-> onHoldout, dev |-> onDev, threshold |-> rubric.threshold,
                    min_holdout |-> rubric.min_holdout, min_dev |-> rubric.min_dev,
                    families_apart |-> FamiliesApart(body.families),
                    gating |-> GatingAllowed(body, onHoldout, onDev, rubric)]
    IN  [kind |-> "calibration", body |-> content, digest |-> content]

\* CalibrationArtifact, calibration_body_digest: as every reader checks it.
CalibrationLoads(c) == c.kind = "calibration" /\ c.digest = c.body

\* attach_calibration.
CanAttach(judgment, calibration) ==
    /\ JudgmentLoads(judgment)
    /\ CalibrationLoads(calibration)
    /\ calibration.body.judgment = Identity(judgment)
    /\ calibration.body.gating
Attached(judgment, calibration) ==
    [judgment EXCEPT !.body.dumped = TRUE, !.gating = TRUE, !.claimed = calibration.digest]
=============================================================================
