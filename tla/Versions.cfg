\* Two deployments, two bundles and an artifact, two requests, three runs, one clean-up at a
\* time; not all of them at once (Bounds).
SPECIFICATION Spec
CONSTANTS
    Deps <- Two
    Requests = {q1, q2}
    Arts = {1}
    MaxBundle = 2
    MaxRuns = 3
    Keep = 1
    Cleaners = {k1}
SYMMETRY Symmetry
CONSTRAINT Bounds
INVARIANTS
    TypeOK
    ProtectedBundlesStay
    NoOrphanFiles
    RollbackGoesBack
    CurrentIsDeployed
