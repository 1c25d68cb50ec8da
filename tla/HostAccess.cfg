\* Two hosts, three requests at a time and in all; one failed connection, read or write, one host set up anew.
CONSTANTS
    Hosts = {h1, h2}
    Who = {k1, k2, k3}
    Concurrency = 1
    MaxCalls = 3
    MaxFaults = 1
    MaxRekeys = 1
SPECIFICATION Spec
SYMMETRY Symmetry
INVARIANTS
    TypeOK
    KnownKeyIsTheHosts
    OfflineMeansAFailure
PROPERTIES
    KeysAreKept
CHECK_DEADLOCK FALSE
