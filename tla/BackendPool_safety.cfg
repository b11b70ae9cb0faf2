\* One sink, a credentials and a CA Secret, two acquirers; the clock passes the TTL once:
\* Secret changes, deletes, re-reads, pruned entries, aged-out generations.
CONSTANTS
    Keys = {k1}
    Acquirers = {p1, p2}
    Specs = {v1}
    NoSpec = NoSpec
    Secrets = {cred, ca}
    CASecrets = {ca}
    TTL = 0
    MaxTime = 2
    MaxBuilds = 2
    MaxCounter = 2
    MaxWrites = 2
SPECIFICATION Spec
SYMMETRY AcquirerSymmetry
CHECK_DEADLOCK FALSE
INVARIANTS TypeOK NoUseAfterClose NoLeak AcquiredIsFresh TombstoneBlocksPooling
PROPERTY StoreFence
