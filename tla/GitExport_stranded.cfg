\* One edit and one failure.
CONSTANTS
    invA = invA
    invB = invB
    p = p
    q = q
    main = main
    fb = fb
    Inventories = {invA, invB}
    Paths = {p, q}
    Payloads = {{p}, {q}}
    Branches = {main, fb}
    Target = main
    PushBranch <- MCPushBranch
    Retain = {invB}
    Absent = Absent
    None = None
    Deleting = Deleting
    Gone = Gone
    MaxDeletions = 0
    Budget <- MCOneFailure
SPECIFICATION Spec
CHECK_DEADLOCK FALSE
INVARIANT FeatureReportedIsDelivered
