SPECIFICATION Spec
CONSTANTS
    Commands = {c1, c2}
    TasksOf <- ReleaseTasks
    Files <- Paths
    Inside <- BelowManifests
    InitialDisks <- TwoDisks
    Versions <- Replacements
    MaxStarts = 4
    MaxEdits = 1
    MaxDeaths = 1
    Folded <- FoldedFamilies
    Q <- OneInTwenty
    Angle <- SomeAngles
    PerMember = 1
    InTotal = 3
    Blank = Blank
    NoValue = NoValue
    gpt = gpt
    claude = claude
    anthropic = anthropic
    unnamed = unnamed
    config1 = config1
    config2 = config2
    template = template
    dataset = dataset
    c1 = c1
    c2 = c2
INVARIANTS
    InductiveInvariant
    GatesAreEarned
    EvidenceIsDistinct
    AttachedIsRecognised
    DigestNamesDecisions
    PagesFollowData
    ComparisonIsSymmetric
CHECK_DEADLOCK FALSE
