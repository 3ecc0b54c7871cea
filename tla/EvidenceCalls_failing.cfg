SPECIFICATION FairSpec
CONSTANTS
    Workers = {w1, w2}
    Command = cmd
    NItems = 3
    KeyOf <- Filing
    Labels = {entailment, neutral}
    ErrorClasses = {"retryable_transient", "circuit_open"}
    MaxRetries = 1
    NoLabel = NoLabel
    NoFile = NoFile
INVARIANTS
    InductiveInvariant
    ArtifactIsWhole
    NothingRunsAfterClose
PROPERTIES
    CommandEnds
CHECK_DEADLOCK FALSE
