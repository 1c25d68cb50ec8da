\* The same, with required services only: the time of a run is up while a host does not answer.
SPECIFICATION FairSpec
CONSTANTS
    s1 = s1
    s2 = s2
    s3 = s3
    Services <- Three
    Deps <- Four
    Plans <- SmallPlans
    MaxMissed = 0
PROPERTY
    TimeoutEndsTheRun
CHECK_DEADLOCK FALSE
