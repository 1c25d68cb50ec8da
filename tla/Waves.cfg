\* Four deployments of two or three services, every kind of plan, one failed database write.
SPECIFICATION FairSpec
CONSTANTS
    s1 = s1
    s2 = s2
    s3 = s3
    Services <- Three
    Deps <- Four
    Plans <- AllPlans
    MaxMissed = 1
INVARIANTS
    TypeOK
    HostsWaitTheirTurn
    NothingIsForgotten
    SuccessMeansDeployed
    ChangedHostsAreReported
PROPERTY
    OnlyAHostHoldsTheRun
CHECK_DEADLOCK FALSE
