\* One application and host, two services and bindings, two requests at a time but for
\* the first, one run.
CONSTANTS
    Apps = {a1}
    Hosts = {h1}
    NoRow = NoRow
    Codes = {default, c1}
    Default = default
    Clients = {k1, k2}
    MaxServices = 2
    MaxDeps = 2
    MaxCalls = 4
    MaxRuns = 1
SPECIFICATION Spec
SYMMETRY Symmetry
CONSTRAINT Bounds
INVARIANTS
    TypeOK
    BoundRowsHaveParents
    DeliveredProgramsAreBound
    AcceptedServicesAreDeployed
CHECK_DEADLOCK FALSE
