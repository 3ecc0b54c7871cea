----------------------------- MODULE MCExecutor -----------------------------
(* Values for the constants of Executor.tla: one case, whose repeats share a  *)
(* prompt.                                                                   *)
EXTENDS Executor, TLC

CONSTANT p1

OneCase == {1}
SharedPrompt == [c \in {1} |-> p1]
\* Processes, answers and inputs are interchangeable.
Alike == Permutations(Executors) \cup Permutations(Texts) \cup Permutations(Inputs)
=============================================================================
