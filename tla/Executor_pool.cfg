SPECIFICATION DrivenSpec
CONSTANTS
    Executors = {e1}
    WorkerCount = 1
    Cases <- OneCase
    RepeatCount = 4
    p1 = p1
    Prompts = {p1}
    PromptOfCase <- SharedPrompt
    Texts = {t1}
    Inputs = {i1}
    CacheEnabled = FALSE
    MaxPasses = 2
    MaxFaults = 2
    MaxDeaths = 1
    NoRow = NoRow
    NoText = NoText
    NoInputs = NoInputs
    NoKey = NoKey
    Pill = Pill
INVARIANTS
    NothingPlannedIsLost
PROPERTIES
    UnfinishedIsHonest
    PassEnds
    PoolFinishes
CHECK_DEADLOCK FALSE
