SPECIFICATION Spec
CONSTANTS
    h1 = h1  h2 = h2  c1 = c1  c2 = c2
    Exec = Exec  Trigger = Trigger
    Hosts <- TwoHosts
    Conns <- OneConn
    Stages = 1
    QueueSize = 1
    MaxFaults = 0
INVARIANT WatchingIsHarmless
CHECK_DEADLOCK FALSE
