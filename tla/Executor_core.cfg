SPECIFICATION Spec
CONSTANTS
    Executors = {e1, e2}
    WorkerCount = 1
    Cases <- OneCase
    RepeatCount = 2
    p1 = p1
    Prompts = {p1}
    PromptOfCase <- SharedPrompt
    Texts = {t1, t2}
    Inputs = {i1, i2}
    CacheEnabled = TRUE
    MaxPasses = 2
    MaxFaults = 2
    MaxDeaths = 1
    NoRow = NoRow
    NoText = NoText
    NoInputs = NoInputs
    NoKey = NoKey
    Pill = Pill
SYMMETRY Alike
INVARIANTS
    InductiveInvariant
    CompletedMeansComplete
PROPERTIES
    LedgerSpec
CHECK_DEADLOCK FALSE
