SPECIFICATION FairSpec
CONSTANTS
    h1 = h1  h2 = h2  c1 = c1  c2 = c2
    Exec = Exec  Trigger = Trigger
    Hosts <- TwoHosts
    Conns <- OneConn
    Stages = 1
    QueueSize = 2
    MaxFaults = 1
INVARIANTS
    TypeOK
    CaughtUp
PROPERTIES
    RecordedStay
    RunNotHeldUp
CHECK_DEADLOCK FALSE
