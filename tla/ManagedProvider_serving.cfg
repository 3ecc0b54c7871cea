SPECIFICATION ServingSpec
CONSTANTS
    Callers = {c1, c2}
    Estimates = {3, 4}
    Capacity <- SmallCapacity
    Rate <- MixedRate
    Concurrency = 1
    Threshold = 2
    Recovery = 2
    MaxWindow = 1
INVARIANTS
    InductiveInvariant
    RateKept
    PermitsAreConserved
PROPERTIES
    BreakerRecovers
    EveryoneIsServed
CHECK_DEADLOCK FALSE
