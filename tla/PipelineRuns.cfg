\* One application, two runs and starts, one cancellation, one crash.
SPECIFICATION FairSpec
CONSTANTS
    Apps = {a1}
    Runs = {r1, r2}
    Requests = {q1, q2}
    Cancels = {c1}
    NoApp = NoApp
    NoRun = NoRun
    MaxCrashes = 1
INVARIANTS
    TypeOK
    MutualExclusion
    LockMatchesOwners
    RunningRowsHaveCloser
    CancelFnsMatchRuns
PROPERTIES
    SuccessAndFailureAreFinal
    ImplementsExclusiveRuns
    RunsEnd
CHECK_DEADLOCK FALSE
