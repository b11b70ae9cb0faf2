\* Two workers, room for one job, fair goroutines: an object changes while its target
\* is registered, changed and unregistered.
CONSTANTS
    Targets = {t1}
    NoSpec = NoSpec
    Objects = {o1}
    Kinds = {k1}
    o1 = o1
    k1 = k1
    KindOf <- OneKind
    Workers = {w1, w2}
    QueueCap = 1
    AccessOutcomes = {"allowed"}
    MaxVersion = 2
    MaxCalls = 2
SPECIFICATION FairSpec
CHECK_DEADLOCK FALSE
PROPERTIES CallReturns ResyncHeals
