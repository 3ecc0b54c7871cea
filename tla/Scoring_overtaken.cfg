SPECIFICATION Spec
CONSTANTS
    Jobs = {j1, j2}
    Keys = {1, 2}
    Metrics = {classification, assertions}
    Slices <- BothSlices
    SlicesOf <- SecondIsEnglish
    Generated <- Both
    Listed <- AllOfThem
    ListRank <- SameOrder
    KeyRank <- InOrder
    AggregateRank <- SortedByName
    CountsMissing = {assertions}
    Excluded = {}
    NeedsData = {}
    NoAggregate = NoAggregate
    PromptOf <- OnePrompt
    Prompts = {"prompt"}
    text = text
    Texts = {text}
    input = input
    Inputs = {input}
    NoRow = NoRow
    NoText = NoText
    NoInputs = NoInputs
    overall = overall
    english = english
    j1 = j1
    j2 = j2
    j3 = j3
    classification = classification
    assertions = assertions
    meteor = meteor
PROPERTIES
    AggregatesNeverGoStale
CHECK_DEADLOCK FALSE
