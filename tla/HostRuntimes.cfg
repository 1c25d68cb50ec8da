\* One service under two names, two deployments, two requests; one fault, change and event.
CONSTANTS
    Names = {n1, n2}
    NoName = NoName
    Clients = {k1, k2}
    MaxDeploys = 2
    MaxFaults = 1
    MaxChanges = 1
    MaxEvents = 1
SPECIFICATION Spec
SYMMETRY Symmetry
INVARIANTS
    TypeOK
    StoppedMeansStopped
PROPERTIES
    AnsweredByTheNewProgram
CHECK_DEADLOCK FALSE
