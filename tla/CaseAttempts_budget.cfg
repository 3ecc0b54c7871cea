SPECIFICATION TimedSpec
CONSTANTS
    Budget = 6
    RequestTimeout = 3
    MaxRetries = 2
    RetryBase = 1
    RetryCap = 2
    RetryAfters = {0, 3, 9}
    HeadStart = 7
    MaxLate = 2
INVARIANTS
    BudgetKept
    EndingMatchesLog
PROPERTIES
    CaseEnds
CHECK_DEADLOCK FALSE
