----------------------------- MODULE GitExport -----------------------------
(***************************************************************************)
(* The Git engine of the Git and GitLab sinks: one persistent mirror of one *)
(* repository, the exports and the releases of several inventories through *)
(* it, and the remote, to which people and merge requests push as well.    *)
(*                                                                         *)
(* A tree maps names to contents.  The name of a path holds the inventory  *)
(* that wrote the file last; the name of an inventory is its ownership     *)
(* record, and holds the set of paths it claims.  Commits are numbered in  *)
(* the order they are made; commit 0 stands for a branch that is absent.   *)
(*                                                                         *)
(* An inventory with PushBranch[i] = Target has a Git sink that pushes to  *)
(* the branch it clones (direct mode), with the policy Commit.  Any other  *)
(* one has a GitLab sink that pushes to a feature branch of its own        *)
(* (branchMR), and GitLab sinks always have ForcePush.  Layouts are trees  *)
(* with an owner (ADR-0422), and the remote has a first commit.            *)
(***************************************************************************)
EXTENDS Naturals, Sequences, FiniteSets

CONSTANTS
    Inventories, Paths,    \* model values, disjoint
    Payloads,              \* the sets of paths that an export may write
    Branches, Target,      \* the branch that every export clones
    PushBranch,            \* inventory -> branch
    Retain,                \* the inventories whose deletion keeps the files
    Absent, None,
    Deleting, Gone,        \* an inventory that is being deleted, and one that is
    MaxDeletions,
    Budget                 \* how many edits, and how many disturbances with them

ASSUME Names_Disjoint == Inventories \cap Paths = {} /\ Absent \notin Inventories \cup Paths
ASSUME Payloads_Assumption == Payloads \subseteq SUBSET Paths /\ Absent \notin Payloads
ASSUME Lifecycle_Assumption == Deleting # Gone
ASSUME Branch_Assumption == /\ Target \in Branches
                            /\ PushBranch \in [Inventories -> Branches]
                            /\ \A i, j \in Inventories :
                                  PushBranch[i] = PushBranch[j] /\ i # j => PushBranch[i] = Target

Names == Inventories \cup Paths
Direct == {i \in Inventories : PushBranch[i] = Target}

VARIABLES
    commits,   \* sequence of [tree, anc]; anc holds the commit itself
    remote,    \* branch -> tip
    mirror,    \* the working copy: [warm, refs, head, index, wt]
    fp,        \* fingerprintTracker: inventory -> the payload recorded last
    want,      \* inventory -> payload, Deleting or Gone
    reported,  \* inventory -> payload of the last export reported successful
    born,      \* inventory -> how often it was created
    op,        \* the operation that holds the repository lock
    used       \* how often the surroundings did what the bounds cap

vars == <<commits, remote, mirror, fp, want, reported, born, op, used>>

Free == [inv |-> None, kind |-> "none", pc |-> "idle", payload |-> {}, commit |-> 0]

Live(i) == want[i] \notin {Deleting, Gone}
Tree(c) == commits[c].tree
Anc(c) == IF c = 0 THEN {} ELSE commits[c].anc
Ancestors(S) == UNION {Anc(c) : c \in S}
NewCommit(tree, parents) ==
    Append(commits, [tree |-> tree, anc |-> Ancestors(parents) \cup {Len(commits) + 1}])

EmptyTree == [x \in Names |-> Absent]

Cold == [warm |-> FALSE, refs |-> [b \in Branches |-> 0], head |-> Target,
         index |-> EmptyTree, wt |-> EmptyTree]

Init ==
    /\ commits = <<[tree |-> EmptyTree, anc |-> {1}]>>
    /\ remote = [b \in Branches |-> IF b = Target THEN 1 ELSE 0]
    /\ mirror = Cold
    /\ fp = [i \in Inventories |-> None]
    /\ want \in [Inventories -> Payloads]
    /\ reported = [i \in Inventories |-> None]
    /\ born = [i \in Inventories |-> 1]
    /\ op = Free
    /\ used = [edits |-> 0, deletions |-> 0, outside |-> 0, failures |-> 0, lost |-> 0, dirty |-> 0]

----------------------------------------------------------------------------
(* Ends of an operation. *)

\* Mutant: the fingerprint is recorded whether the export succeeded or not.
Fail_Records ==
    /\ op' = Free
    /\ fp' = IF op.kind = "export" THEN [fp EXCEPT ![op.inv] = op.payload] ELSE fp
    /\ UNCHANGED <<reported, want>>

Fail == op' = Free /\ UNCHANGED <<fp, reported, want>>

Succeed ==
    /\ op' = Free
    /\ \/ /\ op.kind = "export"
          /\ fp' = [fp EXCEPT ![op.inv] = op.payload]
          /\ reported' = [reported EXCEPT ![op.inv] = op.payload]
          /\ UNCHANGED want
       \/ /\ op.kind = "release"
          /\ want' = [want EXCEPT ![op.inv] = Gone]
          /\ UNCHANGED <<fp, reported>>

Disturbances == used.failures + used.lost + used.dirty + used.outside

Disturbance(kind) ==
    /\ <<used.edits, Disturbances + 1>> \in Budget
    /\ used' = [used EXCEPT ![kind] = @ + 1]

----------------------------------------------------------------------------
(* The mirror. *)

\* openOrWarmMirror: clone, or force-fetch the clone branch; a warm mirror keeps
\* its index, its worktree and its other branches.
openOrWarmMirror ==
    IF mirror.warm
    THEN [mirror EXCEPT !.refs[Target] = remote[Target]]
    ELSE [warm |-> TRUE, refs |-> [Cold.refs EXCEPT ![Target] = remote[Target]], head |-> Target,
          index |-> Tree(remote[Target]), wt |-> Tree(remote[Target])]

\* A branch the mirror does not have starts at the clone branch.
Tip(m, b) == IF m.refs[b] # 0 THEN m.refs[b] ELSE m.refs[Target]

OnBranch(m, b) == [m EXCEPT !.refs[b] = Tip(m, b), !.head = b]

\* go-git's checkout refuses while a tracked file is modified; HEAD has moved.
Unstaged(m) == \E x \in Names : m.index[x] # Absent /\ m.wt[x] # m.index[x]

\* Otherwise it rewrites what differs between the index and the tree, and leaves
\* untracked files where they are.
checkoutMirrorBranch(m, b) ==
    LET t == Tree(Tip(m, b)) IN
    [OnBranch(m, b) EXCEPT !.index = t,
                           !.wt = [x \in Names |-> IF m.index[x] # t[x] THEN t[x] ELSE m.wt[x]]]

\* wt.Reset(HardReset) to HEAD: untracked files stay.
HardReset(m) ==
    LET t == Tree(m.refs[m.head]) IN
    [m EXCEPT !.index = t,
              !.wt = [x \in Names |-> IF m.index[x] = Absent /\ t[x] = Absent THEN m.wt[x] ELSE t[x]]]

----------------------------------------------------------------------------
(* Ownership records. *)

Claims(t, i) == IF t[i] = Absent THEN {} ELSE t[i]

\* loadPruneRecords refuses a directory that claims a path twice.
ClaimedTwice(t) ==
    \E i, j \in Inventories : i # j /\ Claims(t, i) \cap Claims(t, j) # {}

Foreign(t, i) == UNION {Claims(t, j) : j \in Inventories \ {i}}

\* Mutant: only the records as they are, not as the commit would leave them.
prepareOwnedPrune_LoadOnly(t, i, s) == ClaimedTwice(t)

\* prepareOwnedPrune: the records as they are, and as the commit would leave them.
prepareOwnedPrune_Refuses(t, i, s) == ClaimedTwice(t) \/ s \cap Foreign(t, i) # {}

\* checkMergeTargetClaims, against the clone branch just fetched.
checkMergeTargetClaims_Refuses(m, i, s) ==
    /\ PushBranch[i] # Target
    /\ prepareOwnedPrune_Refuses(Tree(m.refs[Target]), i, s)

\* Mutants: every other file is stale; nothing is.
Stale_AnyFile(t, i, s) == {p \in Paths : t[p] # Absent} \ s
Stale_Never(t, i, s) == {}

\* The paths of the previous record that the export no longer writes.
Stale(t, i, s) == Claims(t, i) \ s

\* Mutant: the record is written like any other file.
Written_RecordAsFile(t, i, s, files, removed, record) ==
    [x \in Names |-> IF x \in files \/ (x = i /\ record) THEN i
                     ELSE IF x \in removed THEN Absent ELSE t[x]]

\* writeBillyExportFiles: the files, then the removals, then the record.
Written(t, i, s, files, removed, record) ==
    [x \in Names |-> IF x = i /\ record THEN s
                     ELSE IF x \in files THEN i
                     ELSE IF x \in removed THEN Absent ELSE t[x]]

----------------------------------------------------------------------------
(* Export. *)

\* ExportFilesWithBranch takes the lock and consults the fingerprint inside it.
shouldSkip(i) ==
    /\ op = Free /\ Live(i) /\ fp[i] = want[i]
    /\ reported' = [reported EXCEPT ![i] = want[i]]
    /\ UNCHANGED <<commits, remote, mirror, fp, want, born, op, used>>

ExportFilesWithBranch(i) ==
    /\ op = Free /\ Live(i) /\ fp[i] # want[i]
    /\ op' = [inv |-> i, kind |-> "export", pc |-> "fetch", payload |-> want[i], commit |-> 0]
    /\ UNCHANGED <<commits, remote, mirror, fp, want, reported, born, used>>

\* The first step of exportRemoteInWorkdir and of deleteRemote.
Fetch ==
    /\ op.pc = "fetch"
    /\ mirror' = openOrWarmMirror
    /\ op' = [op EXCEPT !.pc = "local"]
    /\ UNCHANGED <<commits, remote, fp, want, reported, born, used>>

\* What exportRemoteInWorkdir does between the fetch and the push: it fails at the
\* checkout or on a claim, before anything is written, ...
CheckoutFails ==
    /\ op.pc = "local" /\ op.kind = "export"
    /\ Unstaged(mirror)
    /\ mirror' = OnBranch(mirror, PushBranch[op.inv])
    /\ Fail
    /\ UNCHANGED <<commits, remote, born, used>>

Refused(m) ==
    \/ checkMergeTargetClaims_Refuses(m, op.inv, op.payload)
    \/ prepareOwnedPrune_Refuses(m.wt, op.inv, op.payload)

ClaimRefused ==
    LET m == checkoutMirrorBranch(mirror, PushBranch[op.inv]) IN
    /\ op.pc = "local" /\ op.kind = "export" /\ ~Unstaged(mirror)
    /\ Refused(m)
    /\ mirror' = m
    /\ Fail
    /\ UNCHANGED <<commits, remote, born, used>>

\* ... or while the files are written, which leaves the mirror dirty, ...
WriteFails ==
    LET i == op.inv
        m == checkoutMirrorBranch(mirror, PushBranch[i])
        stale == Stale(m.wt, i, op.payload) IN
    /\ op.pc = "local" /\ op.kind = "export" /\ ~Unstaged(mirror) /\ ~Refused(m)
    /\ \E files \in SUBSET op.payload, removed \in SUBSET stale, record \in BOOLEAN :
          /\ removed # {} => files = op.payload
          /\ record => removed = stale /\ files = op.payload
          /\ mirror' = [m EXCEPT !.wt = Written(m.wt, i, op.payload, files, removed, record)]
    /\ Disturbance("dirty")
    /\ Fail
    /\ UNCHANGED <<commits, remote, born>>

\* ... or finds nothing to commit, which counts as delivered, or commits.
\* stageChanges(prune) stages whatever the worktree holds.
Snapshot(m) == Written(m.wt, op.inv, op.payload, op.payload, Stale(m.wt, op.inv, op.payload), TRUE)

StatusClean ==
    LET m == checkoutMirrorBranch(mirror, PushBranch[op.inv]) IN
    /\ op.pc = "local" /\ op.kind = "export" /\ ~Unstaged(mirror) /\ ~Refused(m)
    /\ Snapshot(m) = m.index
    /\ mirror' = [m EXCEPT !.wt = m.index]
    /\ Succeed
    /\ UNCHANGED <<commits, remote, born, used>>

\* wt.Commit on the checked-out branch b of m, then on to the push.
Commit(m, b, tree, wt) ==
    /\ commits' = NewCommit(tree, {m.refs[b]})
    /\ mirror' = [m EXCEPT !.index = tree, !.wt = wt, !.refs[b] = Len(commits')]
    /\ op' = [op EXCEPT !.pc = "push", !.commit = Len(commits')]
    /\ UNCHANGED <<fp, reported, want>>

exportRemoteInWorkdir ==
    LET b == PushBranch[op.inv]
        m == checkoutMirrorBranch(mirror, b) IN
    /\ op.pc = "local" /\ op.kind = "export" /\ ~Unstaged(mirror) /\ ~Refused(m)
    /\ Snapshot(m) # m.index
    /\ Commit(m, b, Snapshot(m), Snapshot(m))
    /\ UNCHANGED <<remote, born, used>>

----------------------------------------------------------------------------
(* Push: pushCommitted, for exports and releases. *)

PushTip == mirror.refs[PushBranch[op.inv]]
RemoteTip == remote[PushBranch[op.inv]]

\* Mutant: the refspec forces every push.
Accepted_Always == TRUE

\* pushRefSpec: without the "+" of ForcePush the remote takes descendants of its tip
\* only; with it, which is every push to a feature branch, it takes anything.
Accepted == op.inv \notin Direct \/ RemoteTip \in Anc(PushTip) \cup {0}

Landed == remote' = [remote EXCEPT ![PushBranch[op.inv]] = PushTip]

\* The push lands, or finds the remote up to date.
pushCommitted ==
    /\ op.pc = "push" /\ Accepted
    /\ Landed
    /\ Succeed
    /\ UNCHANGED <<commits, mirror, born, used>>

\* An attempt lands and its answer is lost; withTransportRetry tries again.
PushUnanswered ==
    /\ op.pc = "push" /\ Accepted /\ RemoteTip # PushTip
    /\ Landed
    /\ Disturbance("lost")
    /\ UNCHANGED <<commits, mirror, fp, want, reported, born, op>>

\* Mutant: the push that found the remote up to date counts as delivery.
verifySnapshotDelivered_Skipped(c) == TRUE

\* The remote moved, and the policy is Commit: syncRemoteBeforePush fetches its tip
\* over the branch, and verifySnapshotDelivered decides.
verifySnapshotDelivered(c) == op.commit \in Anc(c)

syncRemoteBeforePush ==
    /\ op.pc = "push" /\ ~Accepted
    /\ mirror' = [mirror EXCEPT !.refs[PushBranch[op.inv]] = RemoteTip]
    /\ IF verifySnapshotDelivered(RemoteTip) THEN Succeed ELSE Fail
    /\ UNCHANGED <<commits, remote, born, used>>

\* A call to the remote fails for good: no effect but the error.
RemoteFails ==
    /\ op.pc \in {"fetch", "push"} \/ (op.pc = "local" /\ op.kind = "release")
    /\ Disturbance("failures")
    /\ Fail
    /\ UNCHANGED <<commits, remote, mirror, born>>

----------------------------------------------------------------------------
(* Release: deleteRemote, called by the finalizer of a deleted inventory. *)

DeleteExportWithBranch(i) ==
    /\ op = Free /\ want[i] = Deleting
    /\ op' = [inv |-> i, kind |-> "release", pc |-> "fetch", payload |-> {}, commit |-> 0]
    /\ UNCHANGED <<commits, remote, mirror, fp, want, reported, born, used>>

\* fetchRemotePushBranch: a branch the mirror lacks is taken from the remote.
fetchRemotePushBranch(m, b) ==
    IF m.refs[b] = 0 THEN [m EXCEPT !.refs[b] = remote[b]] ELSE m

\* Mutant: the files go and the record stays.
planRelease_FilesOnly(t, i) == IF i \in Retain THEN {} ELSE Claims(t, i)

\* planRelease: the record and, unless the files are retained, the recorded files.
planRelease(t, i) ==
    IF t[i] = Absent THEN {} ELSE {i} \cup (IF i \in Retain THEN {} ELSE t[i])

Without(t, names) == [x \in Names |-> IF x \in names THEN Absent ELSE t[x]]

\* deliverRemoteStrandedDeletion: nothing to remove, but the mirror is ahead.
deliverRemoteStrandedDeletion(existed, head, b) ==
    existed /\ remote[b] # head /\ remote[b] \in Anc(head)

\* The mirror that deleteRemote plans on: reset, and on the push branch.
ReleaseBase(b) == checkoutMirrorBranch(fetchRemotePushBranch(HardReset(mirror), b), b)

ReleaseRefused ==
    LET m == ReleaseBase(PushBranch[op.inv]) IN
    /\ op.pc = "local" /\ op.kind = "release"
    /\ op.inv \notin Retain /\ ClaimedTwice(m.wt)
    /\ mirror' = m
    /\ Fail
    /\ UNCHANGED <<commits, remote, born, used>>

\* Removals of untracked files stage nothing and are not committed.
deleteRemote ==
    LET b == PushBranch[op.inv]
        m == ReleaseBase(b)
        plan == planRelease(m.wt, op.inv)
        tree == Without(m.index, plan) IN
    /\ op.pc = "local" /\ op.kind = "release"
    /\ op.inv \in Retain \/ ~ClaimedTwice(m.wt)
    /\ \/ /\ tree # m.index
          /\ Commit(m, b, tree, Without(m.wt, plan))
       \/ /\ tree = m.index
          /\ mirror' = [m EXCEPT !.wt = Without(m.wt, plan)]
          /\ UNCHANGED commits
          /\ IF deliverRemoteStrandedDeletion(mirror.refs[b] # 0, m.refs[b], b)
             THEN /\ op' = [op EXCEPT !.pc = "push", !.commit = m.refs[b]]
                  /\ UNCHANGED <<fp, reported, want>>
             ELSE Succeed
    /\ UNCHANGED <<remote, born, used>>

----------------------------------------------------------------------------
(* The surroundings. *)

\* The rows change, or the inventory is created again.
Edit(i) ==
    /\ <<used.edits + 1, Disturbances>> \in Budget /\ want[i] # Deleting
    /\ \E s \in Payloads \ {want[i]} : want' = [want EXCEPT ![i] = s]
    /\ used' = [used EXCEPT !.edits = @ + 1]
    /\ born' = [born EXCEPT ![i] = IF want[i] = Gone THEN @ + 1 ELSE @]
    /\ reported' = [reported EXCEPT ![i] = IF want[i] = Gone THEN None ELSE @]
    /\ UNCHANGED <<commits, remote, mirror, fp, op>>

Delete(i) ==
    /\ used.deletions < MaxDeletions /\ Live(i)
    /\ want' = [want EXCEPT ![i] = Deleting]
    /\ used' = [used EXCEPT !.deletions = @ + 1]
    /\ UNCHANGED <<commits, remote, mirror, fp, reported, born, op>>

\* The process restarts; the mirror survives on its volume or is gone with it.
Restart ==
    /\ Disturbance("failures")
    /\ fp' = [i \in Inventories |-> None]
    /\ op' = Free
    /\ mirror' \in {mirror, Cold}
    /\ UNCHANGED <<commits, remote, want, reported, born>>

\* Somebody pushes a commit that touches none of the names.
OutsidePush(b) ==
    /\ Disturbance("outside") /\ remote[b] # 0
    /\ commits' = NewCommit(Tree(remote[b]), {remote[b]})
    /\ remote' = [remote EXCEPT ![b] = Len(commits')]
    /\ UNCHANGED <<mirror, fp, want, reported, born, op>>

\* A merge request is merged, per name and against the last common commit, and its
\* source branch is deleted or kept.
MergeBase(c, d) == CHOOSE a \in Anc(c) \cap Anc(d) : \A e \in Anc(c) \cap Anc(d) : e <= a

Merge(b) ==
    LET ours == Tree(remote[Target])
        theirs == Tree(remote[b])
        base == Tree(MergeBase(remote[Target], remote[b])) IN
    /\ Disturbance("outside")
    /\ b # Target /\ remote[b] # 0 /\ remote[b] \notin Anc(remote[Target])
    /\ \A x \in Names : Cardinality({ours[x], theirs[x], base[x]}) < 3
    /\ \A x \in Names : ours[x] # base[x] => theirs[x] \in {base[x], ours[x]}
    /\ commits' = NewCommit([x \in Names |-> IF ours[x] = base[x] THEN theirs[x] ELSE ours[x]],
                            {remote[Target], remote[b]})
    /\ \E kept \in {remote[b], 0} :
          remote' = [remote EXCEPT ![Target] = Len(commits'), ![b] = kept]
    /\ UNCHANGED <<mirror, fp, want, reported, born, op>>

Operation ==
    \/ Fetch \/ CheckoutFails \/ ClaimRefused \/ WriteFails
    \/ StatusClean \/ exportRemoteInWorkdir
    \/ pushCommitted \/ PushUnanswered \/ syncRemoteBeforePush \/ RemoteFails
    \/ ReleaseRefused \/ deleteRemote

Next ==
    \/ \E i \in Inventories : \/ shouldSkip(i) \/ ExportFilesWithBranch(i)
                              \/ DeleteExportWithBranch(i) \/ Edit(i) \/ Delete(i)
    \/ Operation
    \/ Restart
    \/ \E b \in Branches : OutsidePush(b) \/ Merge(b)

Spec == Init /\ [][Next]_vars

----------------------------------------------------------------------------
(* Properties. *)

Tips == {remote[b] : b \in Branches} \ {0}
Holds(c, i, s) == Tree(c)[i] = s /\ \A p \in s : Tree(c)[p] = i

\* The commit an operation makes has one parent, the commit made last before it
\* on its branch.
Parent(c) == CHOOSE d \in Anc(c) \ {c} : \A e \in Anc(c) \ {c} : e <= d

\* Every tree names inventories at paths and payloads at records; refs point to
\* commits; a mirror that is warm has the clone branch.
TypeOK ==
    LET Ref == 0 .. Len(commits)
        IsTree(t) == /\ DOMAIN t = Names
                     /\ \A i \in Inventories : t[i] \in {Absent} \cup Payloads
                     /\ \A p \in Paths : t[p] \in {Absent} \cup Inventories IN
    /\ \A c \in 1 .. Len(commits) : IsTree(Tree(c)) /\ c \in Anc(c) /\ Anc(c) \subseteq 1 .. c
    /\ remote \in [Branches -> Ref] /\ remote[Target] # 0
    /\ mirror.refs \in [Branches -> Ref] /\ mirror.head \in Branches
    /\ IsTree(mirror.index) /\ IsTree(mirror.wt)
    /\ mirror.warm => mirror.refs[Target] # 0 /\ mirror.refs[mirror.head] # 0
    /\ \A i \in Inventories : /\ fp[i] \in {None} \cup Payloads
                             /\ reported[i] \in {None} \cup Payloads
                             /\ want[i] \in {Deleting, Gone} \cup Payloads
    /\ op.inv \in {None} \cup Inventories
    /\ op.pc \in {"idle", "fetch", "local", "push"}
    /\ op.pc = "push" => op.commit \in 1 .. Len(commits)

\* An export that was reported successful is in the history of the branch it was
\* pushed to: a push that failed, was overtaken or left its commit in the mirror is
\* not reported (REL-08).  Direct mode.
ReportedIsDelivered ==
    \A i \in Direct : reported[i] # None =>
        \E c \in Anc(remote[Target]) : Holds(c, i, reported[i])

\* The same in branchMR mode, in the history of any branch, while the feature branch
\* exists (without it no merge request can be opened, and the export fails after all).
\* A commit that the push left behind on the feature branch of the mirror is found
\* there by the next export, which has nothing to commit.
FeatureReportedIsDelivered ==
    \A i \in Inventories \ Direct : reported[i] # None /\ born[i] = 1 /\ remote[PushBranch[i]] # 0 =>
        \E c \in UNION {Anc(t) : t \in Tips} : Holds(c, i, reported[i])

\* The fingerprint skips an export only if the branch still holds that snapshot,
\* though people push, merge requests of others are merged and pushes fail.  It is
\* not so after a push that landed and was reported failed, nor after a merge request
\* carried what a failed export had left in the mirror.
SkipIsRight ==
    \A i \in Direct :
        /\ fp[i] # None /\ Live(i) /\ born[i] = 1 /\ op.inv # i
        /\ used.lost = 0 /\ used.dirty = 0
        => Holds(remote[Target], i, fp[i])

\* An inventory deleted and created again has a record once its export is reported
\* successful (IEI-8).
RecreatedStartsRecord ==
    \A i \in Direct : reported[i] # None /\ Live(i) /\ born[i] > 1 /\ op.inv # i =>
        Tree(remote[Target])[i] # Absent

\* The finalizer lets an inventory go only when its record has left the branch
\* (ROD-1), though earlier attempts died between commit and push.
ReleasedIsGone ==
    [][\A i \in Direct : want[i] = Deleting /\ want'[i] = Gone /\ used.dirty = 0 =>
            Tree(remote'[Target])[i] = Absent]_vars

\* Pushes with the policy Commit only append: no commit that was on the clone branch
\* leaves it (ADR-0407), though forced pushes of others replace their feature branches
\* in the same mirror and are merged.
AppendOnly == [][Anc(remote[Target]) \subseteq Anc(remote[Target])']_vars

\* No commit of an export or a release changes the record of another inventory or a
\* file it claims and has, not even with leftovers of a failed export in the mirror
\* (IEI-2, ROD-3).
ForeignUntouched ==
    [][op.pc = "local" /\ op'.pc = "push" /\ op'.commit > Len(commits) =>
            LET old == Tree(Parent(op.commit))'
                new == Tree(op.commit)' IN
            \A j \in Inventories \ {op.inv} : old[j] # Absent =>
                \A x \in {j} \cup old[j] : old[x] # Absent => new[x] = old[x]]_vars

\* No export and no release that takes files with it pushes a tree that claims a path
\* twice, also when merged feature branches claim it twice on the target (IEI-5).  A
\* release that keeps the files looks at its own record only.
SingleClaims ==
    op.pc = "push" /\ (op.kind = "export" \/ op.inv \notin Retain) => ~ClaimedTwice(Tree(PushTip))

\* Every exported file on a remote branch is in the record of its inventory, so
\* that a later export or release can remove it (IEI-3).
NoOrphans ==
    used.dirty = 0 =>
        \A c \in Tips : \A p \in Paths : LET i == Tree(c)[p] IN
            i \notin Retain \cup {Absent} => p \in Claims(Tree(c), i)
============================================================================
