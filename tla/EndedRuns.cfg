\* One application, one run, one start, one cancellation, no crash.
SPECIFICATION Spec
CONSTANTS
    Apps = {a1}
    Runs = {r1}
    Requests = {q1}
    Cancels = {c1}
    NoApp = NoApp
    NoRun = NoRun
    MaxCrashes = 0
PROPERTY
    EndedRunsStayEnded
CHECK_DEADLOCK FALSE
