SPECIFICATION Spec
CONSTANTS
    Executors = {e1}
    WorkerCount = 1
    Cases <- OneCase
    RepeatCount = 2
    p1 = p1
    Prompts = {p1}
    PromptOfCase <- SharedPrompt
    Texts = {t1, t2}
    Inputs = {i1}
    CacheEnabled = TRUE
    MaxPasses = 2
    MaxFaults = 0
    MaxDeaths = 0
    NoRow = NoRow
    NoText = NoText
    NoInputs = NoInputs
    NoKey = NoKey
    Pill = Pill
PROPERTIES
    ResumeRepairsHarnessFailures
CHECK_DEADLOCK FALSE
