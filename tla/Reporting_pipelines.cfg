SPECIFICATION PipelineSpec
CONSTANTS
    Jobs = {j1, j2}
    Evaluators = {j1, j2}
    Keys = {1, 2}
    Metrics = {first_version, second_version}
    Listed <- Recalibrated
    Primary <- OwnPrimary
    NameOf <- OneName
    CountsMissing = {}
    Excluded = {}
    NeedsData = {}
    Slices = {overall}
    SlicesOf <- OnlyOverall
    Generated <- Both
    ListRank <- PrimaryFirst
    KeyRank <- InOrder
    AggregateRank <- Alphabetical
    PromptOf <- OnePrompt
    Prompts = {"prompt"}
    text = text
    Texts = {text}
    input = input
    Inputs = {input}
    j1 = j1
    j2 = j2
    overall = overall
    first_version = first_version
    second_version = second_version
    NoAggregate = NoAggregate
    NoPage = NoPage
    NoRow = NoRow
    NoText = NoText
    NoInputs = NoInputs
INVARIANTS
    CompletedListsEveryRow
    HeadlineIsComplete
CHECK_DEADLOCK FALSE
