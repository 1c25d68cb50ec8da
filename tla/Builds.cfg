\* Two requests, two builds of one application, a page, a failed update, a restart.
SPECIFICATION FairSpec
CONSTANTS
    Apps = {a1}
    NoApp = NoApp
    MaxBuilds = 2
    Requests = {q1, q2}
    Pages = {p1}
    Keep = 1
    QueueSize = 2
    MaxFaults = 1
    MaxCrashes = 1
INVARIANTS
    TypeOK
    BuildingRowsHaveBuilder
    FinishedPagesShowTheWholeLog
PROPERTIES
    ImplementsExclusiveRuns
    SuccessHasBundle
    WatchersLearnTheEnd
CHECK_DEADLOCK FALSE
