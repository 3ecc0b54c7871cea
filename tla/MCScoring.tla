------------------------------ MODULE MCScoring ------------------------------
(* Values for the constants of Scoring.tla and Reporting.tla: two or three   *)
(* generations, the second of a case with a slice of its own.                *)
EXTENDS Scoring

CONSTANTS text, input, j1, j2, j3, overall, english, classification, assertions, meteor

Answer == [kind |-> "answer", text |-> text, cached |-> FALSE, inputs |-> input]
Failure == [kind |-> "harness_error", text |-> NoText, cached |-> FALSE, inputs |-> input]

Both == {Answer, Failure}
OnlyAnswers == {Answer}

OnePrompt == [k \in Keys |-> CHOOSE p \in Prompts : TRUE]
BothSlices == {overall, english}
SecondIsEnglish == [k \in Keys |-> IF k = 2 THEN BothSlices ELSE {overall}]
OnlyOverall == [k \in Keys |-> {overall}]
\* The second case carries no label to compare with.
SecondHasNoLabel == {<<2, classification>>}

InOrder == [k \in Keys |-> k - 1]

\* Metric names sort alphabetically, slices within a name.
Letter(m) == CASE m = assertions -> 1 [] m = classification -> 3 [] OTHER -> 13
ByName(m) == Cardinality({n \in Metrics : Letter(n) < Letter(m)})
SortedByName ==
    [a \in Slices \X Metrics |-> ByName(a[2]) * 2 + (IF a[1] = overall THEN 0 ELSE 1)]

\* Every job asks for the same metrics in the same order.
AllOfThem == [j \in Jobs |-> Metrics]
SameOrder == [j \in Jobs |-> [m \in Metrics |-> IF m = assertions THEN 2 ELSE ByName(m) - 1]]
=============================================================================
