\* A snapshot and a database sink, or two database sinks; one change of the store, edits, failed exports and status writes.
CONSTANTS
    Rows = {r1}
    Volatile = {r1}
    Sinks = {git, db}
    SnapshotSets = {{git}, {}}
    ZeroInterval = {git}
    None = None
    FailureClasses = {"transient", "terminal"}
    MaxMutations = 1
    MaxEdits = 1
    MaxFailures = 1
    MaxRestarts = 0
SPECIFICATION Spec
CHECK_DEADLOCK FALSE
INVARIANTS TypeOK SnapshotBaselineHolds BaselineIsRecorded AggregateIsHonest
