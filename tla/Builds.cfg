\* Fair acquirers and delete hooks, one credentials Secret written once; no symmetry.
CONSTANTS
    Keys = {k1}
    Acquirers = {p1, p2}
    Specs = {v1}
    NoSpec = NoSpec
    Secrets = {cred}
    CASecrets = {}
    TTL = 1
    MaxTime = 1
    MaxBuilds = 1
    MaxCounter = 2
    MaxWrites = 2
SPECIFICATION MCSpec
CHECK_DEADLOCK FALSE
INVARIANT BuildFollowsSpec
PROPERTIES RetiredIsClosed AcquireEnds
