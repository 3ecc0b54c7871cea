SPECIFICATION FairSpec
CONSTANTS
    Jobs = {j1, j2}
    Keys = {1, 2}
    Metrics = {assertions, classification, meteor}
    Slices <- BothSlices
    SlicesOf <- SecondIsEnglish
    Generated <- Both
    Listed <- AllOfThem
    ListRank <- SameOrder
    KeyRank <- InOrder
    AggregateRank <- SortedByName
    CountsMissing = {assertions}
    Excluded <- SecondHasNoLabel
    NeedsData = {meteor}
    NoAggregate = NoAggregate
    PromptOf <- OnePrompt
    Prompts = {"prompt"}
    text = text
    Texts = {text}
    input = input
    Inputs = {input}
    NoRow = NoRow
    NoText = NoText
    NoInputs = NoInputs
    overall = overall
    english = english
    j1 = j1
    j2 = j2
    j3 = j3
    classification = classification
    assertions = assertions
    meteor = meteor
INVARIANTS
    CommittedJobsScored
    AggregatesAreBacked
    NoWaitCycle
PROPERTIES
    ScoringEnds
    AggregatesMatchScores
CHECK_DEADLOCK FALSE
