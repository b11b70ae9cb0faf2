------------------------------- MODULE GitLabMR ------------------------------
(***************************************************************************)
(* GitLab sinks: in merge_request mode an export is pushed to the          *)
(* inventory's feature branch and a merge request into the target branch   *)
(* is found or opened over REST; the retraction of a deleted inventory     *)
(* takes the same way.  In direct mode both go to the target branch.       *)
(* People merge the requests.  What happens inside one clone-commit-push   *)
(* is modelled in GitExport; here a push is one step.  Every push of a     *)
(* GitLab sink is forced (Config.GitConfig).  The mirror keeps its local   *)
(* feature branches between operations, with what was not pushed.          *)
(*                                                                         *)
(* A tree maps every inventory to the version of its files, 0 when it has  *)
(* none.  A branch is its tip and the tree of its merge base with the      *)
(* target branch, so that merging it applies the difference.               *)
(***************************************************************************)
EXTENDS Integers, Sequences, FiniteSets

CONSTANTS
    Inventories,    \* records [kind, ns, name]
    PathTemplate,   \* "default", or "custom": a template of the sink that does
                    \* not end in {namespace}/{name}
    Retains,        \* inventories whose deletion policy is Retain, in a document
                    \* layout (which keeps no ownership record)
    Deployments,    \* [mode, server]: of the sink, and what answers the REST API,
                    \* GitLab or Gitea (which has no /api/v4)
    Versions,       \* versions of a document, positive
    Absent,
    MaxEdits,       \* bound on edits and deletions of inventories, with the faults
    MaxFaults       \* bound on failed calls and lost answers

VARIABLES
    dep,            \* the deployment
    target,         \* the tree of the target branch
    branch,         \* feature branches of the remote: base, tip, and merged, the
                    \* tip is part of the target branch
    mrs,            \* feature branches with an open merge request
    mirror,         \* feature branches of the mirror: base, tip, and ff, the tip of
                    \* the remote branch, if there is one, is an ancestor
    fp,             \* the recorded export fingerprints
    lost,           \* inventories with a failed push that its retry does not repair
    want,           \* version to export; 0 once the inventory is being deleted
    gone,           \* inventories whose finalizer has been removed
    due,            \* the reconcile of this inventory has something to do
    job,            \* how far its export or its cleanup is
    edits, faults

vars == <<dep, target, branch, mrs, mirror, fp, lost, want, gone, due, job, edits, faults>>

-----------------------------------------------------------------------------
(* Branch names. *)

\* The document path the layout renders.  A cluster inventory's path has the
\* namespace component "cluster".
DocumentPath(i) ==
    IF PathTemplate = "default" THEN <<"inventory", i.ns, i.name>>
    ELSE <<i.ns, "documents", i.name>>

\* The identity an object path is read back as: its last two components.
InventoryFromObjectPath(path) == [ns |-> path[Len(path) - 1], name |-> path[Len(path)]]

BranchNameForExport(kind, id) ==
    <<IF kind = "KollectClusterInventory" THEN "_cluster" ELSE id.ns, id.name>>

\* An export names its branch after the rendered document path, the cleanup
\* after the inventory.
CommitContextFromExport(i) == InventoryFromObjectPath(DocumentPath(i))

ExportBranch(i) == BranchNameForExport(i.kind, CommitContextFromExport(i))

CleanupBranch(i) == BranchNameForExport(i.kind, [ns |-> i.ns, name |-> i.name])

Branches == {ExportBranch(i) : i \in Inventories} \cup {CleanupBranch(i) : i \in Inventories}

JobBranch(i) == IF job[i].doing = 0 THEN CleanupBranch(i) ELSE ExportBranch(i)

-----------------------------------------------------------------------------
Init ==
    /\ dep \in Deployments
    /\ target = [i \in Inventories |-> 0]
    /\ branch = [b \in Branches |-> Absent]
    /\ mrs = {}
    /\ mirror = branch
    /\ fp = [i \in Inventories |-> 0]
    /\ lost = {}
    /\ want = [i \in Inventories |-> CHOOSE v \in Versions : TRUE]  \* versions are only names
    /\ gone = {}
    /\ due = [i \in Inventories |-> TRUE]
    /\ job = [i \in Inventories |-> [at |-> "idle", doing |-> 0]]
    /\ edits = 0 /\ faults = 0

At(i, step) == job' = [job EXCEPT ![i].at = step]

\* The reconcile comes back after an error and after an edit made meanwhile.
Ends(i, failed) ==
    /\ At(i, "idle")
    /\ due' = [due EXCEPT ![i] = failed \/ job[i].doing # want[i]]
    /\ gone' = IF ~failed /\ job[i].doing = 0 THEN gone \cup {i} ELSE gone

Begin(i) ==
    /\ job[i].at = "idle" /\ due[i] /\ i \notin gone
    /\ job' = [job EXCEPT ![i] = [at |-> "git", doing |-> want[i]]]
    /\ UNCHANGED <<dep, target, branch, mrs, mirror, fp, lost, want, gone, due, edits, faults>>

\* With a feature branch, its request comes next.
EnsureMergeRequest(i) ==
    IF dep.mode = "merge_request" THEN At(i, "list") /\ UNCHANGED <<due, gone>> ELSE Ends(i, FALSE)

Fault == faults < MaxFaults /\ edits + faults < MaxEdits /\ faults' = faults + 1

-----------------------------------------------------------------------------
(* The git half. *)

\* The local branch is checked out as it is, or created at the target branch.
checkoutMirrorBranch(b) ==
    IF mirror[b] # Absent THEN mirror[b]
    ELSE [base |-> target, tip |-> target, ff |-> branch[b] = Absent \/ branch[b].merged]

Local(b, c) == mirror' = [mirror EXCEPT ![b] = c]

\* The forced push lands, or fails and leaves the commit in the mirror.
Lands(b, c) ==
    /\ branch' = [branch EXCEPT ![b] = [base |-> c.base, tip |-> c.tip, merged |-> FALSE]]
    /\ Local(b, [c EXCEPT !.ff = TRUE])

Stays(b, c) == Local(b, c) /\ UNCHANGED branch

\* An export of the version the fingerprint names is skipped.
shouldSkip(i) == fp[i] = job[i].doing

record(i) == fp' = [fp EXCEPT ![i] = job[i].doing]

\* A failed push is repaired once the remote holds what i exports or retracts.
Held(i) ==
    LET c == branch'[JobBranch(i)] IN
    IF dep.mode = "merge_request" THEN c # Absent /\ c.tip[i] = job[i].doing
    ELSE target'[i] = job[i].doing

Repairs(i) == lost' = IF Held(i) THEN lost \ {i} ELSE lost

PushFails(i) == lost' = lost \cup {i} /\ Fault /\ Ends(i, TRUE)

\* A clean status ends the export without a push, whatever the remote holds.
exportRemote(i) ==
    LET b == ExportBranch(i)
        from == checkoutMirrorBranch(b)
        c == [from EXCEPT !.tip[i] = job[i].doing]
    IN \/ /\ IF c = from THEN Stays(b, c) ELSE Lands(b, c)
          /\ record(i) /\ Repairs(i) /\ EnsureMergeRequest(i) /\ UNCHANGED faults
       \/ c # from /\ (Stays(b, c) \/ Lands(b, c)) /\ PushFails(i) /\ UNCHANGED fp

\* In direct mode the fetch replaces the local branch, so that nothing stays.
exportDirect(i) ==
    /\ target' = [target EXCEPT ![i] = job[i].doing]
    /\ \/ record(i) /\ Repairs(i) /\ Ends(i, FALSE) /\ UNCHANGED faults
       \/ PushFails(i) /\ UNCHANGED fp

ExportFiles(i) ==
    /\ job[i].at = "git" /\ job[i].doing # 0
    /\ \/ /\ shouldSkip(i) /\ UNCHANGED <<target, branch, mirror, fp, faults>>
          /\ Repairs(i) /\ EnsureMergeRequest(i)
       \/ ~shouldSkip(i) /\ dep.mode = "merge_request" /\ exportRemote(i) /\ UNCHANGED target
       \/ ~shouldSkip(i) /\ dep.mode # "merge_request" /\ exportDirect(i) /\ UNCHANGED <<branch, mirror>>
    /\ UNCHANGED <<dep, mrs, want, edits>>

\* Mutant: the deletion starts from the target branch.
fetchRemotePushBranch_Target(b) == checkoutMirrorBranch(b)

\* The deletion starts from the local feature branch, and from the remote one
\* where the mirror does not hold it.
fetchRemotePushBranch(b) ==
    IF mirror[b] = Absent /\ branch[b] # Absent
    THEN [base |-> branch[b].base, tip |-> branch[b].tip, ff |-> TRUE]
    ELSE checkoutMirrorBranch(b)

\* With nothing to remove, a deletion stranded on a local branch that was there
\* before is pushed when the remote branch exists and it is a fast-forward.
deliverRemoteStrandedDeletion(b, from) ==
    IF mirror[b] # Absent /\ branch[b] # Absent /\ from.ff /\ from.tip # branch[b].tip
    THEN Lands(b, from)
    ELSE Stays(b, from)

\* A cleanup that removed nothing still has work where the branch exists: an
\* earlier attempt may have pushed its deletion and died before the request.
\* With the policy Retain nothing is removed from a document layout, and no
\* request is opened for it.
branchHasWork(i) == i \notin Retains /\ branch[CleanupBranch(i)] # Absent

deleteRemote(i) ==
    LET b == CleanupBranch(i)
        from == fetchRemotePushBranch(b)
        c == [from EXCEPT !.tip[i] = 0]
        removes == i \notin Retains /\ c # from
    IN \/ /\ ~removes /\ deliverRemoteStrandedDeletion(b, from) /\ Repairs(i)
          /\ IF branchHasWork(i) THEN EnsureMergeRequest(i) ELSE Ends(i, FALSE)
          /\ UNCHANGED faults
       \/ removes /\ Lands(b, c) /\ Repairs(i) /\ EnsureMergeRequest(i) /\ UNCHANGED faults
       \/ removes /\ (Stays(b, c) \/ Lands(b, c)) /\ PushFails(i)

deleteDirect(i) ==
    /\ target' = IF i \in Retains THEN target ELSE [target EXCEPT ![i] = 0]
    /\ \/ Ends(i, FALSE) /\ Repairs(i) /\ UNCHANGED faults
       \/ PushFails(i)

ReleaseExport(i) ==
    /\ job[i].at = "git" /\ job[i].doing = 0
    /\ \/ dep.mode = "merge_request" /\ deleteRemote(i) /\ UNCHANGED target
       \/ dep.mode # "merge_request" /\ deleteDirect(i) /\ UNCHANGED <<branch, mirror>>
    /\ UNCHANGED <<dep, mrs, fp, want, edits>>

-----------------------------------------------------------------------------
(* The REST API. *)

\* These statuses are taken for a server without the GitLab API.
isGitLabAPIUnsupported(status) == status \in {404, 405}

listGitLabMergeRequests(b) ==
    IF dep.server = "gitlab" THEN [status |-> 200, open |-> mrs \cap {b}] ELSE [status |-> 404, open |-> {}]

listGiteaPullRequests(b) == [status |-> 200, open |-> mrs \cap {b}]

listOpenMergeRequests(b) ==
    IF isGitLabAPIUnsupported(listGitLabMergeRequests(b).status) THEN listGiteaPullRequests(b)
    ELSE listGitLabMergeRequests(b)

\* A missing source branch and a request opened meanwhile are refused.
Creation(b) == IF branch[b] = Absent THEN 422 ELSE IF b \in mrs THEN 409 ELSE 201

createGitLabMergeRequest(b) == IF dep.server = "gitlab" THEN Creation(b) ELSE 404

createGiteaPullRequest(b) == Creation(b)

createMergeRequest(b) ==
    IF isGitLabAPIUnsupported(createGitLabMergeRequest(b)) THEN createGiteaPullRequest(b)
    ELSE createGitLabMergeRequest(b)

\* EnsureOpenMergeRequest: list, and create where nothing is open.
ListOpen(i) ==
    /\ job[i].at = "list"
    /\ IF listOpenMergeRequests(JobBranch(i)).open # {} THEN Ends(i, FALSE)
       ELSE At(i, "create") /\ UNCHANGED <<due, gone>>
    /\ UNCHANGED <<dep, target, branch, mrs, mirror, fp, lost, want, edits, faults>>

CreateMR(i) ==
    LET b == JobBranch(i) IN
    /\ job[i].at = "create"
    /\ IF createMergeRequest(b) >= 300
       THEN Ends(i, TRUE) /\ UNCHANGED mrs
       ELSE Ends(i, FALSE) /\ mrs' = mrs \cup {b}
    /\ UNCHANGED <<dep, target, branch, mirror, fp, lost, want, edits, faults>>

\* A call fails, before or after it took effect.
CallFails(i) ==
    /\ job[i].at # "idle" /\ Fault
    /\ \/ UNCHANGED mrs
       \/ job[i].at = "create" /\ branch[JobBranch(i)] # Absent /\ mrs' = mrs \cup {JobBranch(i)}
    /\ Ends(i, TRUE)
    /\ UNCHANGED <<dep, target, branch, mirror, fp, lost, want, edits>>

\* The process restarts, on a volume that keeps the mirror or loses it.
Restart ==
    /\ Fault
    /\ fp' = [i \in Inventories |-> 0]
    /\ \/ UNCHANGED mirror
       \/ mirror' = [b \in Branches |-> Absent]
    /\ job' = [i \in Inventories |-> [at |-> "idle", doing |-> 0]]
    /\ due' = [i \in Inventories |-> TRUE]
    /\ UNCHANGED <<dep, target, branch, mrs, lost, want, gone, edits>>

-----------------------------------------------------------------------------
(* Users and reviewers. *)

EditInventory(i) ==
    /\ edits + faults < MaxEdits /\ want[i] # 0
    /\ \E v \in (Versions \cup {0}) \ {want[i]} : want' = [want EXCEPT ![i] = v]
    /\ due' = [due EXCEPT ![i] = TRUE]
    /\ edits' = edits + 1
    /\ UNCHANGED <<dep, target, branch, mrs, mirror, fp, lost, gone, job, faults>>

\* Merging changes nothing that the target branch changed in another way.
Mergeable(c) == \A i \in Inventories : c.tip[i] = c.base[i] \/ target[i] \in {c.base[i], c.tip[i]}

\* A request that has commits is merged with a merge commit; the branch is kept or
\* removed.
Merge(b) ==
    LET c == branch[b] IN
    /\ b \in mrs /\ c # Absent /\ ~c.merged /\ Mergeable(c)
    /\ target' = [i \in Inventories |-> IF c.tip[i] # c.base[i] THEN c.tip[i] ELSE target[i]]
    /\ \/ branch' = [branch EXCEPT ![b] = [base |-> c.tip, tip |-> c.tip, merged |-> TRUE]]
       \/ branch' = [branch EXCEPT ![b] = Absent]
    /\ mirror' = IF mirror[b] # Absent /\ mirror[b].ff THEN [mirror EXCEPT ![b].base = c.tip] ELSE mirror
    /\ mrs' = mrs \ {b}
    /\ UNCHANGED <<dep, fp, lost, want, gone, due, job, edits, faults>>

Step(i) == Begin(i) \/ ExportFiles(i) \/ ReleaseExport(i) \/ ListOpen(i) \/ CreateMR(i)

Next ==
    \/ \E i \in Inventories : Step(i) \/ CallFails(i) \/ EditInventory(i)
    \/ \E b \in Branches : Merge(b)
    \/ Restart

Spec == Init /\ [][Next]_vars

\* Failed reconciles are queued again; calls end by their timeout.
FairSpec == Spec /\ \A i \in Inventories : WF_vars(Step(i))

-----------------------------------------------------------------------------
(* Properties *)

\* Types of the remote, the mirror and the requests.
TypeOK ==
    /\ target \in [Inventories -> Versions \cup {0}]
    /\ mrs \subseteq Branches
    /\ \A b \in Branches :
         /\ branch[b] = Absent \/ branch[b].tip \in [Inventories -> Versions \cup {0}]
         /\ mirror[b] = Absent \/ mirror[b].tip \in [Inventories -> Versions \cup {0}]
    /\ gone \subseteq {i \in Inventories : want[i] = 0}

\* A merge request from b changes the document of i.
Proposes(b, i) == b \in mrs /\ branch[b] # Absent /\ branch[b].tip[i] # branch[b].base[i]

\* A branch carries the document of one inventory only, so that merging its
\* request never lands what another inventory exported (BranchNameForExport).
BranchIsOfOneInventory ==
    \A b \in Branches : branch[b] # Absent => Cardinality({i \in Inventories : branch[b].tip[i] # branch[b].base[i]}) <= 1

\* When the finalizer lets a deleted inventory go and its document is still on
\* the target branch, a merge request that removes it is open: an attempt that
\* pushed the deletion and died is completed by the next one, and one that
\* committed it and could not push is delivered by the next one where the remote
\* branch is an ancestor (deliverRemoteStrandedDeletion).  The exception is in
\* `lost`: the remote branch is absent or diverged, and the retry returns nil.
DeletionIsProposed ==
    \A i \in gone \ (Retains \cup lost) :
        target[i] # 0 => \E b \in Branches : Proposes(b, i) /\ branch[b].tip[i] = 0

\* After the cleanup of an inventory no open request adds its document again,
\* with the same exception.
DeletionIsNotUndone ==
    \A i \in gone \ (Retains \cup lost) : \A b \in Branches : Proposes(b, i) => branch[b].tip[i] = 0

\* The last version of a live inventory ends up merged or proposed, and the
\* cleanup of a deleted one ends, through failed REST calls and restarts.  A
\* failed push of the last export is the exception: the retry finds a clean
\* mirror, or the fingerprint of an older export, and does not push.
Proposed ==
    \A i \in Inventories :
        IF want[i] = 0 THEN i \in gone
        ELSE \/ i \in lost \/ target[i] = want[i]
             \/ \E b \in Branches : Proposes(b, i) /\ branch[b].tip[i] = want[i]
ExportsAreProposed == <>[]Proposed
=============================================================================
