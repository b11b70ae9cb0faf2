\* Two inventories that may want the same path, one deletion (or a deletion
\* and a new creation), and two edits and one disturbance or two disturbances.
CONSTANTS
    invA = invA
    invB = invB
    p = p
    q = q
    main = main
    fb = fb
    Inventories = {invA, invB}
    Paths = {p, q}
    Payloads = {{p}, {q}}
    Branches = {main, fb}
    Target = main
    PushBranch <- MCPushBranch
    Retain = {invB}
    Absent = Absent
    None = None
    Deleting = Deleting
    Gone = Gone
    MaxDeletions = 1
    Budget <- MCBudget
SPECIFICATION Spec
CHECK_DEADLOCK FALSE
INVARIANTS TypeOK ReportedIsDelivered SkipIsRight SingleClaims NoOrphans
PROPERTIES ForeignUntouched ReleasedIsGone AppendOnly
