------------------------------- MODULE MCSinks -------------------------------
(***************************************************************************)
(* The ways to a destination, one at a time: a behaviour is one of         *)
(* SinkDelivery, of the backends' clients and provisioning                 *)
(* (SinkBackends), of the layouts of a git tree (LayoutExport), of git     *)
(* over file:// (GitFile) or of merge requests (GitLabMR).  part tells     *)
(* which; deliveries rest while another one runs.                          *)
(***************************************************************************)
EXTENDS SinkDelivery, TLC

CONSTANTS
    w1, w2

VARIABLES
    part,  \* the component
    dep, dest, pool, back, live, th, due, stall, wrote, mishaps, closes, changes, goal,
    tree, record, task, last, barred, cutShort, remote, policy, fp, lost, target, branch,
    mrs, mirror, gone

all == <<part, vars, dep, dest, pool, back, live, th, due, stall, wrote, mishaps, closes, changes,
         goal, tree, record, task, last, barred, cutShort, remote, policy, fp, lost, target,
         branch, mrs, mirror, gone>>

(* SinkDelivery: a destination of every kind. *)
Sink(k, f, c, n) == [kind |-> k, fleet |-> f, conflict |-> c, ceiling |-> n]
MCDeployments ==
    {Sink("postgres", TRUE, Absent, 1), Sink("mongodb", FALSE, Absent, 0),
     Sink("bigquery", TRUE, Absent, 0), Sink("emulator", TRUE, Absent, 0),
     Sink("object", FALSE, Absent, 1), Sink("local", FALSE, Absent, 0),
     Sink("git", FALSE, w1, 0), Sink("kafka", FALSE, Absent, 0), Sink("nats", FALSE, Absent, 0)}
MCSnapshots == {{}, {<<1, 1>>, <<2, 1>>}, {<<1, 2>>, <<3, 1>>}}
Rest == /\ env = Sink("nats", FALSE, Absent, 0)
        /\ want = [w \in Writers |-> [snap |-> {}, gen |-> 1]] /\ done = want
        /\ need = [w \in Writers |-> FALSE] /\ job = [w \in Writers |-> Absent]
        /\ refused = job /\ rows = {} /\ log = <<>>
        /\ br = [b \in Writers \cup {"shared"} |-> [state |-> "closed", fails |-> 0, trial |-> FALSE]]
        /\ edits = 0 /\ faults = 0

(* SinkBackends: two exporters of one sink or of two. *)
BackendsOf ==
    {[kind |-> k, mode |-> m, table |-> FALSE, sink |-> <<1, s>>, subject |-> <<"a", "a">>] :
        k \in {"postgres", "mongodb", "bigquery"}, m \in {"ensure", "existing"}, s \in {1, 2}}
    \cup {[kind |-> k, mode |-> "ensure", table |-> FALSE, sink |-> <<1, s>>, subject |-> <<"a", "a">>] :
             k \in {"nats", "kafka"}, s \in {1, 2}}

(* LayoutExport: resources 1 and 4 differ in a character a path cannot hold. *)
NameOf == <<"a-b", "c", "d", "a:b">>
SanitizedOf == [n \in {"a:b"} |-> "a-b"]
SizeOf == <<1, 1, 2, 1>>
Layout(m, c, n, f) == [mode |-> m, content |-> c, maxBytes |-> n, foreign |-> f]
LayoutsOf ==
    {Layout(m, "auto", n, {}) : m \in {"auto", "perResource", "split", "document"}, n \in {0, 1, 2}}
    \cup {Layout("perResource", "manifest", 1, {}),
          Layout("perResource", "auto", 1, {<<"manifest", <<0, 0>>>>}),
          Layout("perResource", "auto", 0, {<<"item", "c">>})}

(* GitFile: two processes with trees that may meet, with different or the same
   content, or a tree and a document. *)
File(p) == IF p = 1 THEN {"x" :> "a1", ("x" :> "a2") @@ ("y" :> "a1")} ELSE {"y" :> "b1", "z" :> "b2"}
Commit(p) == [force |-> FALSE, prune |-> TRUE, retain |-> FALSE, wants |-> File(p)]
Document == [force |-> FALSE, prune |-> FALSE, retain |-> FALSE, wants |-> {"z" :> "b1", "z" :> "b2"}]
PoliciesOf == {[p \in {1, 2} |-> Commit(p)],
               [p \in {1, 2} |-> [Commit(p) EXCEPT !.force = p = 1]],
               [p \in {1, 2} |-> [Commit(p) EXCEPT !.retain = p = 1]],
               [p \in {1, 2} |-> IF p = 1 THEN Commit(p) ELSE Document],
               [p \in {1, 2} |-> [Commit(p) EXCEPT !.wants = {"x" :> "a1", "x" :> IF p = 1 THEN "a2" ELSE "b1"}]]}

(* GitLabMR: two inventories of one namespace and name that differ in kind. *)
InvA == [kind |-> "KollectInventory", ns |-> "cluster", name |-> "x"]
InvB == [kind |-> "KollectClusterInventory", ns |-> "cluster", name |-> "x"]
ServersOf == {[mode |-> "merge_request", server |-> "gitlab"], [mode |-> "merge_request", server |-> "gitea"],
              [mode |-> "direct", server |-> "gitlab"]}

backendsVars == <<dep, dest, pool, back, live, th, due, stall, wrote, mishaps, closes, changes>>
layoutVars == <<dep, goal, tree, record, task, last, barred, cutShort, mishaps, changes>>
fileVars == <<remote, policy, fp, lost, goal, due, task, mishaps, changes>>
requestVars == <<dep, target, branch, mrs, mirror, fp, lost, goal, gone, due, task, mishaps, changes>>

B == INSTANCE SinkBackends WITH Threads <- {1, 2}, Sinks <- {1, 2}, Deployments <- BackendsOf,
         Subjects <- {"a", "b"}, Nobody <- 0, MaxBackends <- 4, MaxCloses <- 1, MaxEdits <- 1,
         need <- due, faults <- mishaps, edits <- changes
L == INSTANCE LayoutExport WITH Resources <- 1..4, Name <- NameOf, Sanitized <- SanitizedOf,
         Manifests <- {1, 2}, Size <- SizeOf, Deployments <- LayoutsOf,
         Worlds <- {{}, {1}, {1, 2}, {1, 2, 3}, {2, 4}, {1, 4}}, MaxFaults <- 1,
         env <- dep, want <- goal, job <- task, done <- last, refused <- barred,
         faults <- mishaps, edits <- changes
F == INSTANCE GitFile WITH Procs <- {1, 2}, Paths <- {"x", "y", "z"}, Policies <- PoliciesOf,
         None <- Absent, MaxFaults <- 1, want <- goal, job <- task, faults <- mishaps, edits <- changes
G == INSTANCE GitLabMR WITH Inventories <- {InvA, InvB}, PathTemplate <- "default",
         Retains <- {InvB}, Deployments <- ServersOf, Versions <- {1, 2}, MaxFaults <- 1,
         want <- goal, job <- task, faults <- mishaps, edits <- changes

(* The variables that are not of a component hold nothing while it runs. *)
not_backends == <<goal, tree, record, task, last, barred, cutShort, remote, policy, fp, lost, target,
    branch, mrs, mirror, gone>>
not_layout == <<dest, pool, back, live, th, due, stall, wrote, closes, remote, policy, fp, lost,
    target, branch, mrs, mirror, gone>>
not_file == <<dep, dest, pool, back, live, th, stall, wrote, closes, tree, record, last, barred,
    cutShort, target, branch, mrs, mirror, gone>>
not_request == <<dest, pool, back, live, th, stall, wrote, closes, tree, record, last, barred, cutShort,
    remote, policy>>
not_delivery == <<dep, dest, pool, back, live, th, due, stall, wrote, mishaps, closes, changes, goal,
    tree, record, task, last, barred, cutShort, remote, policy, fp, lost, target, branch, mrs,
    mirror, gone>>

Start ==
    \/ /\ part = "delivery" /\ Init
       /\ dep = 0 /\ dest = 0 /\ pool = 0 /\ back = 0 /\ live = 0 /\ th = 0 /\ due = 0
       /\ stall = 0 /\ wrote = 0 /\ mishaps = 0 /\ closes = 0 /\ changes = 0 /\ goal = 0
       /\ tree = 0 /\ record = 0 /\ task = 0 /\ last = 0 /\ barred = 0 /\ cutShort = 0
       /\ remote = 0 /\ policy = 0 /\ fp = 0 /\ lost = 0 /\ target = 0 /\ branch = 0
       /\ mrs = 0 /\ mirror = 0 /\ gone = 0
    \/ /\ part = "backends" /\ B!Init
       /\ goal = 0 /\ tree = 0 /\ record = 0 /\ task = 0 /\ last = 0 /\ barred = 0
       /\ cutShort = 0 /\ remote = 0 /\ policy = 0 /\ fp = 0 /\ lost = 0 /\ target = 0
       /\ branch = 0 /\ mrs = 0 /\ mirror = 0 /\ gone = 0
       /\ Rest
    \/ /\ part = "layout" /\ L!Init
       /\ dest = 0 /\ pool = 0 /\ back = 0 /\ live = 0 /\ th = 0 /\ due = 0 /\ stall = 0
       /\ wrote = 0 /\ closes = 0 /\ remote = 0 /\ policy = 0 /\ fp = 0 /\ lost = 0
       /\ target = 0 /\ branch = 0 /\ mrs = 0 /\ mirror = 0 /\ gone = 0
       /\ Rest
    \/ /\ part = "file" /\ F!Init
       /\ dep = 0 /\ dest = 0 /\ pool = 0 /\ back = 0 /\ live = 0 /\ th = 0 /\ stall = 0
       /\ wrote = 0 /\ closes = 0 /\ tree = 0 /\ record = 0 /\ last = 0 /\ barred = 0
       /\ cutShort = 0 /\ target = 0 /\ branch = 0 /\ mrs = 0 /\ mirror = 0 /\ gone = 0
       /\ Rest
    \/ /\ part = "request" /\ G!Init
       /\ dest = 0 /\ pool = 0 /\ back = 0 /\ live = 0 /\ th = 0 /\ stall = 0 /\ wrote = 0
       /\ closes = 0 /\ tree = 0 /\ record = 0 /\ last = 0 /\ barred = 0 /\ cutShort = 0
       /\ remote = 0 /\ policy = 0
       /\ Rest

(* Only the variables of the component change. *)
only_backends == UNCHANGED <<part, vars, not_backends>>
only_layout == UNCHANGED <<part, vars, not_layout>>
only_file == UNCHANGED <<part, vars, not_file>>
only_request == UNCHANGED <<part, vars, not_request>>

Step ==
    \/ part = "delivery" /\ Next /\ UNCHANGED <<part, not_delivery>>
    \/ part = "backends" /\ B!Next /\ only_backends
    \/ part = "layout" /\ L!Next /\ only_layout
    \/ part = "file" /\ F!Next /\ only_file
    \/ part = "request" /\ G!Next /\ only_request

MCFairness ==
    /\ Fairness
    /\ \A t \in {1, 2} : WF_backendsVars(part = "backends" /\ B!Work(t))
    /\ WF_backendsVars(part = "backends" /\ B!OwnerCreates)
    /\ WF_layoutVars(part = "layout" /\ L!Begin)
    /\ WF_layoutVars(part = "layout" /\ L!ExportPart)
    /\ \A p \in {1, 2} : WF_fileVars(part = "file" /\ F!Step(p))
    /\ \A i \in {InvA, InvB} : WF_requestVars(part = "request" /\ G!Step(i))

MCSpec == Start /\ [][Step]_all /\ MCFairness

-----------------------------------------------------------------------------
\* A finished multipart layout is a whole set.  The parts hold every item once,
\* in order, each within the ceiling (partitionItemGroups); pruning on one part
\* never takes a file that a sibling wrote (gitExportOpts), and the documents of
\* the parts are files of their own, against what a comment says; a foreign set
\* manifest is met before any part is committed (setManifestClaim); a consumer
\* that lists the files finds the set complete (appendSetManifest, VerifySet).
SetsAreWhole ==
    part = "layout" =>
        /\ L!TypeOK
        /\ L!PartitionIsExact
        /\ L!SetSurvivesItsPrune
        /\ L!ManifestConflictIsEarly
        /\ L!FinishedSetVerifies

\* What is open, claimed or proposed has one owner that answers for it, through
\* crashes, lost calls and races.  A breaker opens on failures of its sink, not
\* of one inventory.  A connection is the client of a backend that is not closed
\* or in the hands of a call that closes it, and no document is written to a
\* collection without its unique index (nats.Backend, ensureCollection).  Records
\* of a branch list a path twice only where two inventories give it the same
\* content (gitPullRebase).  A push branch carries one inventory's document; a
\* deletion the finalizer let pass is proposed while the document is there, and
\* with the default path template no open request undoes it, unless the push of
\* the deletion failed and the retry had no remote branch to fast-forward
\* (BranchNameForExport, fetchRemotePushBranch, deliverRemoteStrandedDeletion).
OwnersAnswer ==
    /\ TypeOK /\ BreakerOpensOnSinkFailures
    /\ part = "backends" => B!TypeOK /\ B!NothingOutlivesItsOwner /\ B!IndexComesFirst
    /\ part = "file" => F!TypeOK /\ F!ClaimsAreSingle
    /\ part = "request" =>
        /\ G!TypeOK
        /\ G!BranchIsOfOneInventory
        /\ G!DeletionIsProposed
        /\ G!DeletionIsNotUndone

\* No step of an exporter changes what is not its own: with provisioning existing
\* it creates no table, collection or index (provisionTable, verifyCollection),
\* and with pushPolicy Commit a push, rebased ones included, only adds to the
\* branch and leaves other owners' records and files as they are, except files
\* two inventories give the same content (ADR-0422; gitPushOriginWithRecovery).
OthersAreSpared ==
    [][/\ part = "backends" => B!ExistingStays
       /\ part = "file" => F!Appends /\ F!SparesForeign]_all

\* What can be exported is exported in the end, whatever failed on the way:
\* snapshots of every kind of sink past the breaker, two exporters that race to
\* create a destination (isDuplicateCreate), a multipart layout interrupted
\* between its parts, a branch two processes push to, and a merge request.  For
\* the last two a failed push is the exception as long as no later export repairs
\* it: the fingerprint or a clean mirror skips the retry (shouldSkip, exportRemote).
ExportsConverge ==
    /\ DeliveryConverges
    /\ <>[](/\ part = "backends" => B!Served
            /\ part = "layout" => L!TreeIsCurrent
            /\ part = "file" => F!Settled
            /\ part = "request" => G!Proposed)
=============================================================================
