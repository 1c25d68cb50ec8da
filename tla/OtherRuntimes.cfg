\* As HostRuntimes.cfg, with one request.
CONSTANTS
    Names = {n1, n2}
    NoName = NoName
    Clients = {k1}
    MaxDeploys = 2
    MaxFaults = 1
    MaxChanges = 1
    MaxEvents = 1
SPECIFICATION Spec
SYMMETRY Symmetry
INVARIANT OtherRuntimesAreStopped
CHECK_DEADLOCK FALSE
