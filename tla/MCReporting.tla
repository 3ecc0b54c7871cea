----------------------------- MODULE MCReporting -----------------------------
(* Values for the constants of Reporting.tla.                                *)
EXTENDS Reporting

CONSTANTS text, input, j1, j2, overall, first_version, second_version

Answer == [kind |-> "answer", text |-> text, cached |-> FALSE, inputs |-> input]
Failure == [kind |-> "harness_error", text |-> NoText, cached |-> FALSE, inputs |-> input]
Both == {Answer, Failure}

OnePrompt == [k \in Keys |-> CHOOSE p \in Prompts : TRUE]
OnlyOverall == [k \in Keys |-> {overall}]
InOrder == [k \in Keys |-> k - 1]
Alphabetical == [a \in Slices \X Metrics |-> IF a[2] = first_version THEN 0 ELSE 1]
OneName == [m \in Metrics |-> "primary"]

\* The second lists a configuration of its own, and the first one again.
Recalibrated == [j \in Jobs |-> IF j = j1 THEN {first_version} ELSE Metrics]
OwnPrimary == [e \in Evaluators |-> IF e = j1 THEN first_version ELSE second_version]

PrimaryFirst ==
    [j \in Jobs |-> [m \in Metrics |->
        IF (m = first_version) <=> (j = j1) THEN 0 ELSE 1]]
=============================================================================
