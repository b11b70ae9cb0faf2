\* Deliveries of two writers to every kind of destination, with the other ways
\* to one as parts of their own; their bounds are in MCSinks.
CONSTANTS
    w1 = w1
    w2 = w2
    Writers = {w1, w2}
    Absent = Absent
    Deployments <- MCDeployments
    Snapshots <- MCSnapshots
    InlineCap = 2
    Bumps = {0}
    TripAt = 2
    BulkThreshold = 2
    MaxEdits = 2
    MaxFaults = 2
SPECIFICATION MCSpec
CHECK_DEADLOCK FALSE
INVARIANTS DeliveredIsVisible SetsAreWhole OwnersAnswer
PROPERTIES ReadersSeeSnapshots OthersAreSpared ExportsConverge
