\* Fair goroutines and a periodic resync.
CONSTANTS
    Targets = {t1}
    NoSpec = NoSpec
    Objects = {o1}
    Kinds = {k1}
    o1 = o1
    k1 = k1
    KindOf <- OneKind
    Workers = {w1}
    QueueCap = 1
    AccessOutcomes = {"allowed"}
    MaxVersion = 1
    MaxCalls = 2
SPECIFICATION FairSpec
CHECK_DEADLOCK FALSE
PROPERTY ResyncIsBackstop
