\* Fair passes; notifications are lost, exports fail and status writes conflict.
CONSTANTS
    Rows = {r1}
    Volatile = {r1}
    Sinks = {git, db}
    SnapshotSets = {{git}}
    ZeroInterval = {git}
    None = None
    FailureClasses = {"transient"}
    MaxMutations = 2
    MaxEdits = 0
    MaxFailures = 1
    MaxRestarts = 1
SPECIFICATION FairSpec
CHECK_DEADLOCK FALSE
PROPERTY SinksConverge
