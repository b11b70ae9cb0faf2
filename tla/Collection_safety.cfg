\* Two workers, room for one job: an object changes while its target is registered,
\* changed and unregistered, and access to it is granted, denied or unknown.
CONSTANTS
    Targets = {t1}
    NoSpec = NoSpec
    Objects = {o1}
    Kinds = {k1}
    o1 = o1
    k1 = k1
    KindOf <- OneKind
    Workers = {w1, w2}
    QueueCap = 1
    AccessOutcomes = {"allowed", "denied", "error"}
    MaxVersion = 2
    MaxCalls = 3
SPECIFICATION Spec
SYMMETRY WorkerSymmetry
CHECK_DEADLOCK FALSE
INVARIANTS TypeOK NoOrphanRows Converged
