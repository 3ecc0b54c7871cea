SPECIFICATION Spec
CONSTANTS
    Materializers = {m1, m2}
    Evaluators = {e1}
    Outputs = {"shared", "fixtures"}
    InFixtures = {"fixtures"}
    Seeds = {0, 1}
    Rank <- ByHalves
    SizeBounds <- SmallBounds
    Carded = {"synthetic_qa"}
    Blank = {blank}
    Relative = {"dev-v1.1.json"}
    Snapshots <- ThreeSnapshots
    Pins <- SquadPins
    JobsOf <- PackJobs
    HandManifests <- TwoHandManifests
    HandCases <- TwoHandCases
    InitialShelves <- EmptyOrByHand
    Requests <- PackRequests
    MaxEdits = 1
    MaxDeaths = 1
    m1 = m1
    m2 = m2
    e1 = e1
    e2 = e2
    a = a
    b = b
    blank = blank
    old = old
    new = new
    hand = hand
    body1 = body1
    body2 = body2
    ModelIdentity = ModelIdentity
    Capabilities = Capabilities
    NoId = NoId
    NoValue = NoValue
    Nothing = Nothing
INVARIANTS
    InductiveInvariant
    RunsKeepTheirInputs
    VersionNamesCases
    RefusedForRecordsAlone
PROPERTIES
    PublishedStays
CHECK_DEADLOCK FALSE
