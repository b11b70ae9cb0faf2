------------------------------- MODULE GitFile -------------------------------
(***************************************************************************)
(* Export to and retraction from a file:// repository.  Such a remote is   *)
(* written with the git command line in a work directory that is fresh for *)
(* every operation, so what one operation commits and fails to push is     *)
(* gone.  Operations of one process exclude each other (withRepoExportLock)*)
(* but several processes, the operators and pipelines of several clusters, *)
(* may push to one bare repository, and people may too.                    *)
(*                                                                         *)
(* A branch is the sequence of the trees of its commits.  A tree holds the *)
(* content of every path and, per owner, the paths its ownership record    *)
(* (ADR-0422) lists.                                                       *)
(***************************************************************************)
EXTENDS Integers, Sequences, FiniteSets, SequencesExt

CONSTANTS
    Procs,          \* processes, each exporting one inventory
    Paths,
    Policies,       \* [Procs -> [force, prune, retain, wants]]: pushPolicy ForcePush,
                    \* a tree that is pruned rather than one document, deletion
                    \* policy Retain, and the snapshots the inventory may have
    None,           \* no content, and no snapshot: the inventory is deleted
    MaxEdits,       \* bound on changes of inventories and commits of people, with the faults
    MaxFaults       \* bound on failed commands

VARIABLES
    remote,         \* the branch in the bare repository, <<>> when unborn
    policy,
    want,           \* p's snapshot, or None once its inventory is deleted
    due,            \* p has something to export or to retract
    fp,             \* the export fingerprint p recorded last, None after a restart
    lost,           \* processes whose last push landed and was reported as failed
    job,            \* the operation p is in
    edits, faults

vars == <<remote, policy, want, due, fp, lost, job, edits, faults>>

Empty == [file |-> [x \in Paths |-> None], own |-> [p \in Procs |-> {}]]

Tip(branch) == IF branch = <<>> THEN Empty ELSE Last(branch)

Idle == [at |-> "idle", base |-> <<>>, head |-> <<>>, snap |-> None]

Init ==
    /\ remote = <<>>
    /\ policy \in Policies
    /\ want \in {w \in [Procs -> UNION {policy[p].wants : p \in Procs}] :
                   \A p \in Procs : w[p] \in policy[p].wants}
    /\ due = [p \in Procs |-> TRUE]
    /\ fp = [p \in Procs |-> None]
    /\ lost = {}
    /\ job = [p \in Procs |-> Idle]
    /\ edits = 0 /\ faults = 0

-----------------------------------------------------------------------------
(* What an operation does to a work directory. *)

\* Paths a record of another owner lists.
Foreign(p, t) == UNION {t.own[q] : q \in Procs \ {p}}

\* Two records that list one path make every operation fail.
loadPruneRecords(t) == \A p, q \in Procs : p # q => t.own[p] \cap t.own[q] = {}

\* An export is refused where it would write a path another owner records.
\* The clone is fresh, so that the records of the target branch
\* (checkCLIMergeTargetClaims) are these too.
prepareOwnedPrune(p, t, snap) == loadPruneRecords(t) /\ (DOMAIN snap) \cap Foreign(p, t) = {}

writeObjects(t, snap) == [t EXCEPT !.file = snap @@ t.file]

\* What the record lists and the snapshot does not hold is removed, and the
\* record is replaced.  A document has no record.
apply(p, t, snap) ==
    IF ~policy[p].prune THEN t
    ELSE [file |-> [x \in Paths |-> IF x \in t.own[p] \ DOMAIN snap THEN None ELSE t.file[x]],
          own |-> [t.own EXCEPT ![p] = DOMAIN snap]]

\* The index is what HEAD holds until something is added.
gitAddAll(index, wt) == wt

gitAddPath(index, wt, x) == [index EXCEPT !.file[x] = wt.file[x]]

gitAddPaths(index, wt, p, removed) ==
    [file |-> [x \in Paths |-> IF x \in removed THEN wt.file[x] ELSE index.file[x]],
     own |-> [index.own EXCEPT ![p] = wt.own[p]]]

stageCLIChanges(p, index, wt, snap) ==
    IF policy[p].prune THEN gitAddAll(index, wt)
    ELSE FoldSet(LAMBDA x, ix : gitAddPath(ix, wt, x), index, DOMAIN snap)

\* The paths a cleanup names: the inventory's document.  The files of a tree are
\* known from its record only.
validateDeletePaths(p) ==
    IF policy[p].prune THEN {} ELSE UNION {DOMAIN w : w \in policy[p].wants}

\* The candidates, except what another owner records, and what the record lists.
\* Retain gives up the record and keeps the files.
planRelease(p, t) ==
    IF policy[p].retain THEN {}
    ELSE (validateDeletePaths(p) \ Foreign(p, t)) \cup t.own[p]

removeDiskCandidates(p, t) == {x \in planRelease(p, t) : t.file[x] # None}

releaseOnDisk(p, t) ==
    [file |-> [x \in Paths |-> IF x \in removeDiskCandidates(p, t) THEN None ELSE t.file[x]],
     own |-> [t.own EXCEPT ![p] = {}]]

-----------------------------------------------------------------------------
(* git *)

\* Replaying the commit that turned `base` into `mine` onto `theirs`: each file,
\* the record files included, takes the side that changed it.
Merge3(b0, mine, theirs) == IF mine = b0 THEN theirs ELSE mine

Conflict(b0, mine, theirs) == mine # b0 /\ theirs # b0 /\ mine # theirs

RebaseConflicts(bt, mt, tt) ==
    \/ \E x \in Paths : Conflict(bt.file[x], mt.file[x], tt.file[x])
    \/ \E p \in Procs : Conflict(bt.own[p], mt.own[p], tt.own[p])

RebasedTree(bt, mt, tt) ==
    [file |-> [x \in Paths |-> Merge3(bt.file[x], mt.file[x], tt.file[x])],
     own |-> [p \in Procs |-> Merge3(bt.own[p], mt.own[p], tt.own[p])]]

\* gitPullRebase leaves the local commit on top of what was fetched; a commit
\* that changes nothing there is dropped.
Rebased(j, onto) ==
    IF j.head = j.base THEN onto
    ELSE LET t == RebasedTree(Tip(j.base), Tip(j.head), Tip(onto))
         IN IF t = Tip(onto) THEN onto ELSE Append(onto, t)

-----------------------------------------------------------------------------
(* The operation of one process. *)

\* The reconcile comes back after an error, and after an edit made meanwhile.
Requeues(p, failed) ==
    /\ job' = [job EXCEPT ![p] = Idle]
    /\ due' = [due EXCEPT ![p] = failed \/ want[p] # job[p].snap]

Failed(p) == Requeues(p, TRUE) /\ UNCHANGED <<fp, lost>>

\* An export that returned nil leaves its fingerprint (exportFingerprintTracker).
record(p) == fp' = IF job[p].snap = None THEN fp ELSE [fp EXCEPT ![p] = job[p].snap]

Succeeds(p) == Requeues(p, FALSE) /\ record(p) /\ lost' = lost \ {p}

\* The clone of a repository without the branch fails; no other answer of git is
\* taken for that (isCLIEmptyRemote).
gitClone == [cloned |-> remote # <<>>, branch |-> remote]

\* git init, an unborn branch and the remote.
gitInit == <<>>

cloneOrInitCLI == IF gitClone.cloned THEN gitClone.branch ELSE gitInit

\* Every operation gets a temporary directory, so that no mirror is ever warm
\* and there is no local branch before the clone.
prepareMirrorWorkdir(p) == job[p].at = "idle" /\ due[p]

\* An export whose fingerprint is recorded is skipped, under the lock.
shouldSkip(p) == want[p] # None /\ fp[p] = want[p]

Skip(p) ==
    /\ prepareMirrorWorkdir(p) /\ shouldSkip(p)
    /\ due' = [due EXCEPT ![p] = FALSE]
    /\ UNCHANGED <<remote, policy, want, fp, lost, job, edits, faults>>

Prepare(p) ==
    /\ prepareMirrorWorkdir(p) /\ ~shouldSkip(p)
    /\ job' = [job EXCEPT ![p] = [at |-> "cloned", base |-> cloneOrInitCLI,
                                  head |-> cloneOrInitCLI, snap |-> want[p]]]
    /\ UNCHANGED <<remote, policy, want, due, fp, lost, edits, faults>>

gitStatusClean(t, index) == index = t

gitCommitScoped(head, index) == Append(head, index)

\* syncCLIWorkdirScoped up to the push.
syncCLIWorkdirScoped(p, index) ==
    LET j == job[p] IN
    job' = [job EXCEPT ![p] =
        IF gitStatusClean(Tip(j.head), index) THEN [j EXCEPT !.at = "clean"]
        ELSE [j EXCEPT !.at = "push", !.head = gitCommitScoped(j.head, index)]]

exportViaCLIInWorkdir(p) ==
    LET j == job[p]
        t == Tip(j.head)
        wt == apply(p, writeObjects(t, j.snap), j.snap)
    IN /\ j.at = "cloned" /\ j.snap # None
       /\ \/ ~prepareOwnedPrune(p, t, j.snap) /\ Failed(p)
          \/ /\ prepareOwnedPrune(p, t, j.snap)
             /\ syncCLIWorkdirScoped(p, stageCLIChanges(p, t, wt, j.snap))
             /\ UNCHANGED <<due, fp, lost>>
       /\ UNCHANGED <<remote, policy, want, edits, faults>>

\* Only a push branch that was there before the checkout may hold a deletion
\* that an earlier attempt did not push.
cliStrandedDeliveryDue(existed) == existed

\* A release that only keeps the files does not read the records of others.
deleteViaCLI(p) ==
    LET j == job[p]
        t == Tip(j.head)
        wt == releaseOnDisk(p, t)
        readable == policy[p].retain \/ loadPruneRecords(t)
    IN /\ j.at = "cloned" /\ j.snap = None
       /\ \/ ~readable /\ Failed(p)
          \/ readable /\ wt = t /\ ~cliStrandedDeliveryDue(FALSE) /\ Succeeds(p)
          \/ /\ readable /\ wt # t
             /\ syncCLIWorkdirScoped(p, gitAddPaths(t, wt, p, removeDiskCandidates(p, t)))
             /\ UNCHANGED <<due, fp, lost>>
       /\ UNCHANGED <<remote, policy, want, edits, faults>>

\* remoteHasLocalHead asks the remote for the branch's commit.
remoteHasLocalHead(p) == remote = job[p].head

syncClean(p) ==
    /\ job[p].at = "clean"
    /\ IF remoteHasLocalHead(p) THEN Succeeds(p)
       ELSE job' = [job EXCEPT ![p].at = "push"] /\ UNCHANGED <<due, fp, lost>>
    /\ UNCHANGED <<remote, policy, want, edits, faults>>

FastForwards(p) == IsPrefix(remote, job[p].head)

\* What the branch is after `git push`: a push that is not forced moves it only
\* along its own history.
gitPushOrigin(p) ==
    IF policy[p].force \/ FastForwards(p) THEN job[p].head ELSE remote

\* gitPushOriginWithRecovery: one rejected push is answered by a rebase and a
\* second push, a second rejection fails the export.
Push(p) ==
    LET j == job[p] IN
    /\ j.at \in {"push", "repush"}
    /\ remote' = gitPushOrigin(p)
    /\ \/ remote' = j.head /\ Succeeds(p)
       \/ remote' # j.head /\ j.at = "repush" /\ Failed(p)
       \/ /\ remote' # j.head /\ j.at = "push" /\ job' = [job EXCEPT ![p].at = "rebase"]
          /\ UNCHANGED <<due, fp, lost>>
    /\ UNCHANGED <<policy, want, edits, faults>>

\* Mutant: the rebase keeps the whole local tree.
gitPullRebase_Ours(p) ==
    LET j == job[p] IN
    IF j.head = j.base THEN remote ELSE Append(remote, Tip(j.head))

\* The branch after `git pull --rebase`.
gitPullRebase(p) == Rebased(job[p], remote)

PullRebase(p) ==
    LET j == job[p] IN
    /\ j.at = "rebase"
    /\ IF RebaseConflicts(Tip(j.base), Tip(j.head), Tip(remote))
       THEN Failed(p)
       ELSE /\ job' = [job EXCEPT ![p] = [j EXCEPT !.at = "repush", !.base = remote, !.head = gitPullRebase(p)]]
            /\ UNCHANGED <<due, fp, lost>>
    /\ UNCHANGED <<remote, policy, want, edits, faults>>

\* A command fails, or the process dies: the work directory is discarded.
CommandFails(p) ==
    /\ job[p].at # "idle" /\ faults < MaxFaults /\ edits + faults < MaxEdits
    /\ faults' = faults + 1
    /\ Requeues(p, TRUE)
    /\ \/ UNCHANGED fp
       \/ fp' = [fp EXCEPT ![p] = None]
    /\ UNCHANGED <<remote, policy, want, lost, edits>>

\* The push lands and its answer, or the HEAD update behind it (ensureBareHEAD),
\* fails.
PushUnanswered(p) ==
    /\ job[p].at \in {"push", "repush"} /\ faults < MaxFaults /\ edits + faults < MaxEdits
    /\ gitPushOrigin(p) = job[p].head
    /\ remote' = job[p].head
    /\ faults' = faults + 1
    /\ Requeues(p, TRUE) /\ lost' = lost \cup {p}
    /\ UNCHANGED <<policy, want, fp, edits>>

-----------------------------------------------------------------------------
(* The inventories and the people. *)

EditInventory(p) ==
    /\ edits + faults < MaxEdits /\ want[p] # None
    /\ \E w \in (policy[p].wants \cup {None}) \ {want[p]} : want' = [want EXCEPT ![p] = w]
    /\ due' = [due EXCEPT ![p] = TRUE]
    /\ edits' = edits + 1
    /\ UNCHANGED <<remote, policy, fp, lost, job, faults>>

Documents == UNION {validateDeletePaths(p) : p \in Procs}

\* People leave alone the files an ownership record lists, and documents.
PersonCommits ==
    /\ edits + faults < MaxEdits /\ remote # <<>>
    /\ \E x \in Paths \ Documents :
         /\ \A p \in Procs : x \notin Tip(remote).own[p]
         /\ Tip(remote).file[x] # "readme"
         /\ remote' = Append(remote, [Tip(remote) EXCEPT !.file[x] = "readme"])
    /\ edits' = edits + 1
    /\ UNCHANGED <<policy, want, due, fp, lost, job, faults>>

Step(p) == Skip(p) \/ Prepare(p) \/ exportViaCLIInWorkdir(p) \/ deleteViaCLI(p) \/ syncClean(p) \/ Push(p) \/ PullRebase(p)

Next ==
    \/ \E p \in Procs : Step(p) \/ CommandFails(p) \/ PushUnanswered(p) \/ EditInventory(p)
    \/ PersonCommits

Spec == Init /\ [][Next]_vars

\* Every operation runs under a timeout and a failed one is reconciled again.
FairSpec == Spec /\ \A p \in Procs : WF_vars(Step(p))

-----------------------------------------------------------------------------
(* Properties *)

Commits == {p \in Procs : ~policy[p].force}

Contents == {None, "readme"} \cup UNION {UNION {{w[x] : x \in DOMAIN w} : w \in policy[p].wants} : p \in Procs}

Trees == [file : [Paths -> Contents], own : [Procs -> SUBSET Paths]]

\* Every variable has the shape the code gives it.
TypeOK ==
    /\ \A i \in DOMAIN remote : remote[i] \in Trees
    /\ due \in [Procs -> BOOLEAN]
    /\ \A p \in Procs : job[p].at \in {"idle", "cloned", "clean", "push", "rebase", "repush"}

\* With pushPolicy Commit the export adds to the branch and never takes away
\* what another process or a person pushed, whatever it does to recover from a
\* rejected push (gitPushOriginWithRecovery).
Appends == Commits = Procs => IsPrefix(remote, remote')
HistoryIsKept == [][Appends]_vars

\* Paths that two inventories give the same content.  git merges equal additions,
\* so that neither a rebase nor a record stops a second claim of such a path.
Alike == {x \in Paths : \E p, q \in Procs : p # q /\
             \E v \in policy[p].wants, w \in policy[q].wants : x \in DOMAIN v \cap DOMAIN w /\ v[x] = w[x]}

\* No commit that lands on the branch, rebased ones included, changes another
\* owner's record (ADR-0422) or a file another owner records, unless both give it
\* the same content.
ForeignKept(p) ==
    LET o == Tip(remote) n == Tip(remote') IN
    /\ \A q \in Procs \ {p} : n.own[q] = o.own[q]
    /\ \A x \in Foreign(p, o) \ Alike : n.file[x] = o.file[x]

SparesForeign == Commits = Procs => \A p \in Procs : (job'[p] # job[p] => ForeignKept(p))
OthersFilesAreKept == [][SparesForeign]_vars

\* Two ownership records of the branch list one path only where both processes
\* give it the same content, also when they claimed it from clones that did not
\* show the other's claim: anything else is a conflict (gitPullRebase).
ClaimsAreSingle ==
    Commits = Procs => \A p, q \in Procs : p # q => Tip(remote).own[p] \cap Tip(remote).own[q] \subseteq Alike

Delivered(p) ==
    LET t == Tip(remote) IN
    IF want[p] = None THEN t.own[p] = {} /\ (policy[p].prune \/ policy[p].retain \/
                                \A x \in validateDeletePaths(p) : x \in Foreign(p, t) \/ t.file[x] = None)
    ELSE /\ t.own[p] = (IF policy[p].prune THEN DOMAIN want[p] ELSE {})
         /\ \A x \in DOMAIN want[p] : t.file[x] = want[p][x]

\* Whatever fails and whoever pushes in between, the branch ends up holding
\* the last snapshot of every inventory, or nothing of a deleted one, unless
\* another owner's record claims one of its paths or gives one the same content.
\* A push that landed and was reported as failed is the other exception: the
\* fingerprint is still that of the export before it, and an inventory that goes
\* back to that snapshot is skipped.
Settled ==
    Commits = Procs => \A p \in Procs :
        \/ Delivered(p) \/ p \in lost \/ ~loadPruneRecords(Tip(remote))
        \/ want[p] # None /\ (DOMAIN want[p] \cap Alike # {} \/ ~prepareOwnedPrune(p, Tip(remote), want[p]))
BranchConverges == <>[]Settled
=============================================================================
