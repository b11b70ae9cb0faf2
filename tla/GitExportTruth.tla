-------------------------- MODULE GitExportTruth ---------------------------
(***************************************************************************)
(* What the ownership records and the fingerprints of GitExport say is so: *)
(* every file is in the record of its inventory, a skipped export is on    *)
(* the branch, and a release that is reported done took its record away.   *)
(* Builds on the invariant of GitExportProofs.                             *)
(***************************************************************************)
EXTENDS GitExportProofs, WellFoundedInduction

(* Records that tell the truth.  An export that dies while it writes may leave what no *)
(* record names in the mirror; until one does, a record names the files there are, and *)
(* what is not pushed to the clone branch leaves the records of direct mode alone.      *)

Files(t, i) == {p \in Paths : t[p] = i}

\* The files that inventory i wrote last are those it claims.
Exact(t, i) == Files(t, i) = Claims(t, i)

\* An inventory that never went; one that did not, or takes its files along when it goes.
Unbroken(i) == Live(i) /\ born[i] = 1
Kept(i) == i \notin Retain \/ Unbroken(i)

Exacts == \A i \in Inventories : Kept(i) => \A c \in 1..Len(commits) : Exact(Tree(c), i)

\* Since commit c left the clone branch nobody wrote the record of i.
Rooted(c, i) ==
    \E r \in Anc(c) \cap Anc(remote[Target]) : \A d \in Anc(c) : d >= r => Tree(d)[i] = Tree(c)[i]

Roots(i) ==
    \A b \in Branches \ {Target}, c \in Refs \ {0} :
        remote[b] = c \/ mirror.refs[b] = c => Rooted(c, i)

\* The record of i that the operation under way found, or is about to push.
Fetched(i) == op.pc = "local" => Tree(mirror.refs[Target])[i] = Tree(remote[Target])[i]

Pending(i) ==
    op.pc = "push" /\ op.inv \in Direct =>
        /\ op.inv # i \/ op.commit \in Anc(remote[Target]) => Tree(op.commit)[i] = Tree(remote[Target])[i]
        /\ op.inv = i /\ op.kind = "release" => Tree(op.commit)[i] = Absent

\* A fingerprint is the record of an inventory that never went.
Remembered(i) ==
    fp[i] # None /\ Unbroken(i) /\ used.lost = 0 => Tree(remote[Target])[i] = fp[i]

\* What an operation commits on the clone branch gets to others by way of that branch.
Private == op.pc = "push" /\ op.inv \in Direct =>
               \A b \in Branches : op.commit \in Anc(remote[b]) => op.commit \in Anc(remote[Target])

Counts == [edits : Nat, deletions : Nat, outside : Nat, failures : Nat, lost : Nat, dirty : Nat]

\* An inventory that is released is being deleted.
Accounted ==
    /\ born \in [Inventories -> Nat \ {0}]
    /\ op.kind = "release" => want[op.inv] = Deleting

Accounts == used \in Counts /\ Accounted

\* What holds until an export dies while it writes.
Truth ==
    /\ mirror.wt = mirror.index /\ Exacts /\ Private
    /\ \A i \in Direct : Roots(i) /\ Fetched(i) /\ Pending(i) /\ Remembered(i)

TInv == IInv /\ Accounts /\ (used.dirty = 0 => Truth)

\* A set of numbers that is bounded has a largest one.
LEMMA LargestOf ==
    ASSUME NEW n \in Nat, NEW S \in SUBSET (0..n), S # {}
    PROVE  \E m \in S : \A e \in S : e <= m
<1> DEFINE T == {n - x : x \in S}
           R == OpToRel(<, Nat)
<1>1. T \subseteq Nat /\ T # {}
  <2>1. \A x \in S : n - x \in Nat
    OBVIOUS
  <2> QED
    BY <2>1, Zenon
<1>2. \A x, y \in Nat : x < y => <<x, y>> \in R
  BY Zenon DEF OpToRel
<1>3. PICK x \in T : \A y \in T : <<y, x>> \notin R
  <2> HIDE DEF T, R
  <2>1. IsWellFoundedOn(R, Nat)
    BY NatLessThanWellFounded, Zenon DEF R
  <2> QED
    BY <1>1, <2>1, WFMin, Zenon
<1>4. PICK m \in S : x = n - m
  BY <1>3, Zenon
<1>5. \A e \in S : ~(n - e < n - m)
  <2> TAKE e \in S
  <2>1. n - e \in T /\ n - e \in Nat /\ n - m \in Nat
    BY <1>1, Zenon
  <2> HIDE DEF R, T
  <2> QED
    BY <1>2, <1>3, <1>4, <2>1, Zenon
<1> QED
  BY <1>5

\* The base of a merge is a commit of both branches, and the last one.
LEMMA MergeBaseFacts ==
    ASSUME IInv, NEW c \in 1..Len(commits), NEW d \in 1..Len(commits),
           NEW a, a = MergeBase(c, d)
    PROVE  a \in Anc(c) /\ a \in Anc(d) /\ a \in 1..Len(commits) /\ \A e \in Anc(c) \cap Anc(d) : e <= a
<1> DEFINE S == Anc(c) \cap Anc(d)
<1>1. Len(commits) \in Nat /\ c \in Nat /\ Anc(c) \subseteq 1..c /\ 1 \in Anc(c) /\ 1 \in Anc(d)
  BY DEF IInv, History
<1>2. S \in SUBSET (0..c) /\ 1 \in S
  BY <1>1
<1>3. \E m \in S : \A e \in S : e <= m
  <2> HIDE DEF S
  <2> QED
    BY <1>1, <1>2, LargestOf, Zenon
<1>4. a \in S /\ \A e \in S : e <= a
  BY <1>3, Zenon DEF MergeBase
<1> QED
  BY <1>1, <1>4

\* What a merge per name leaves of inventory i: a record that one side alone changed, and
\* with the record the files.
LEMMA MergedFacts ==
    ASSUME NEW ours \in Trees, NEW theirs \in Trees, NEW base \in Trees, NEW i \in Inventories,
           \A x \in Names : ours[x] # base[x] => theirs[x] \in {base[x], ours[x]},
           NEW t, t = [x \in Names |-> IF ours[x] = base[x] THEN theirs[x] ELSE ours[x]]
    PROVE  /\ theirs[i] = base[i] => t[i] = ours[i]
           /\ Exact(ours, i) /\ Exact(theirs, i) /\ Exact(base, i) => Exact(t, i)
<1>1. \A x \in Names : t[x] = IF ours[x] = base[x] THEN theirs[x] ELSE ours[x]
  BY Zenon
<1>2. i \in Names /\ Paths \subseteq Names
  BY Zenon DEF Names
<1>3. theirs[i] = base[i] => t[i] = ours[i]
  BY <1>1, <1>2, Zenon
<1>4. ASSUME Exact(ours, i), Exact(theirs, i), Exact(base, i) PROVE Exact(t, i)
  <2>1. \A p \in Paths : /\ ours[p] = i <=> p \in Claims(ours, i)
                         /\ theirs[p] = i <=> p \in Claims(theirs, i)
                         /\ base[p] = i <=> p \in Claims(base, i)
    BY <1>4, Zenon DEF Exact, Files
  <2>2. Claims(t, i) \subseteq Paths
    <3>1. t[i] \in {ours[i], theirs[i]}
      BY <1>1, <1>2, Zenon
    <3> QED
      BY <3>1, ClaimsFacts, Zenon DEF Claims
  <2>3. CASE ours[i] = base[i]
    <3>1. Claims(t, i) = Claims(theirs, i) /\ Claims(ours, i) = Claims(base, i)
      BY <1>1, <1>2, <2>3, Zenon DEF Claims
    <3>2. \A p \in Paths : t[p] = i <=> theirs[p] = i
      <4> TAKE p \in Paths
      <4>1. CASE ours[p] = base[p]
        BY <1>1, <1>2, <4>1, Zenon
      <4>2. CASE ours[p] # base[p]
        <5>1. ours[p] # i /\ base[p] # i
          BY <2>1, <3>1, <4>2, Zenon
        <5>2. theirs[p] # i /\ t[p] = ours[p]
          BY <1>1, <1>2, <4>2, <5>1, Zenon
        <5> QED
          BY <5>1, <5>2, Zenon
      <4> QED
        BY <4>1, <4>2, Zenon
    <3> QED
      BY <2>1, <2>2, <3>1, <3>2, Zenon DEF Exact, Files
  <2>4. CASE ours[i] # base[i]
    <3>1. Claims(t, i) = Claims(ours, i)
      BY <1>1, <1>2, <2>4, Zenon DEF Claims
    <3>2. Claims(theirs, i) = Claims(base, i) \/ Claims(theirs, i) = Claims(ours, i)
      BY <1>2, <2>4, Zenon DEF Claims
    <3>3. \A p \in Paths : t[p] = i <=> ours[p] = i
      <4> TAKE p \in Paths
      <4>1. CASE ours[p] = base[p]
        <5>1. t[p] = theirs[p]
          BY <1>1, <1>2, <4>1, Zenon
        <5>2. ours[p] = i <=> theirs[p] = i
          BY <2>1, <3>2, <4>1, Zenon
        <5> QED
          BY <5>1, <5>2, Zenon
      <4>2. CASE ours[p] # base[p]
        BY <1>1, <1>2, <4>2, Zenon
      <4> QED
        BY <4>1, <4>2, Zenon
    <3> QED
      BY <2>1, <2>2, <3>1, <3>3, Zenon DEF Exact, Files
  <2> QED
    BY <2>3, <2>4, Zenon
<1> QED
  BY <1>3, <1>4, Zenon

\* An export leaves the records of others alone, and keeps those exact that are.
StayExact(t, i, new) ==
    \A k \in Inventories : (k # i => new[k] = t[k]) /\ (Exact(t, k) => Exact(new, k))

LEMMA ExportedExact ==
    ASSUME NEW t \in Trees, NEW i \in Inventories, NEW s \in Payloads,
           ~prepareOwnedPrune_Refuses(t, i, s)
    PROVE  StayExact(t, i, Written(t, i, s, s, Stale(t, i, s), TRUE))
<1>1. PICK new : new = Written(t, i, s, s, Stale(t, i, s), TRUE)
  BY Zenon
<1> SUFFICES ASSUME NEW k \in Inventories
             PROVE  (k # i => new[k] = t[k]) /\ (Exact(t, k) => Exact(new, k))
  BY <1>1, Zenon DEF StayExact
<1>2. Fair(t, i, s, new)
  BY <1>1, SnapshotFacts, Zenon
<1>3. /\ new[i] = s /\ \A q \in s : new[q] = i
      /\ \A j \in Inventories \ {i} : t[j] # Absent => \A x \in {j} \cup t[j] : new[x] = t[x]
  BY <1>2, Zenon DEF Fair
<1>4. \A x \in Names : new[x] = IF x = i THEN s ELSE IF x \in s THEN i
                               ELSE IF x \in Stale(t, i, s) THEN Absent ELSE t[x]
  BY <1>1, Zenon DEF Written
<1>5. s \subseteq Paths /\ s # Absent /\ Stale(t, i, s) \subseteq Paths
  BY ClaimsFacts, Payloads_Assumption, Zenon
<1>6. i \notin Paths /\ k \notin Paths /\ Paths \subseteq Names /\ k \in Names /\ Absent # k /\ Absent # i
  BY Names_Disjoint, Zenon DEF Names
<1>7. ASSUME k # i PROVE new[k] = t[k]
  BY <1>4, <1>5, <1>6, <1>7, Zenon
<1>8. ASSUME k = i, Exact(t, i) PROVE Exact(new, i)
  <2>1. Claims(new, i) = s
    BY <1>3, <1>5, Zenon DEF Claims
  <2>2. \A p \in Paths : t[p] = i <=> p \in Claims(t, i)
    BY <1>8, Zenon DEF Exact, Files
  <2>3. \A p \in Paths \ s : new[p] # i
    BY <1>4, <1>6, <2>2, Zenon DEF Stale
  <2> QED
    BY <1>3, <1>5, <2>1, <2>3, Zenon DEF Exact, Files
<1>9. ASSUME k # i, Exact(t, k) PROVE Exact(new, k)
  <2>1. Claims(new, k) = Claims(t, k) /\ Claims(t, k) \subseteq Paths
    BY <1>7, <1>9, ClaimsFacts, Zenon DEF Claims
  <2>2. \A p \in Paths : t[p] = k <=> p \in Claims(t, k)
    BY <1>9, Zenon DEF Exact, Files
  <2>3. \A p \in Claims(t, k) : new[p] = t[p]
    BY <1>3, <1>9, Zenon DEF Claims
  <2>4. \A p \in Paths : new[p] = k => t[p] = k
    BY <1>4, <1>6, <1>9, Zenon
  <2> QED
    BY <2>1, <2>2, <2>3, <2>4, Zenon DEF Exact, Files
<1> QED
  BY <1>7, <1>8, <1>9, Zenon

\* So does a release, which takes its own record, and the files unless they are retained.
LEMMA ReleasedExact ==
    ASSUME NEW t \in Trees, NEW i \in Inventories, i \in Retain \/ ~ClaimedTwice(t),
           NEW new, new = Without(t, planRelease(t, i)),
           NEW k \in Inventories
    PROVE  /\ new[i] = Absent /\ (k # i => new[k] = t[k])
           /\ Exact(t, k) /\ (k # i \/ i \notin Retain) => Exact(new, k)
<1>1. \A j \in Inventories \ {i} : t[j] # Absent => \A x \in {j} \cup t[j] : new[x] = t[x]
  <2>1. \A x \in Names : t[x] # Absent => t[x] = t[x]
    BY Zenon
  <2> QED
    BY <2>1, ReleasedFacts, SMT
<1>2. \A x \in Names : new[x] = IF x \in planRelease(t, i) THEN Absent ELSE t[x]
  BY Zenon DEF Without
<1>3. planRelease(t, i) \subseteq {i} \cup Claims(t, i) /\ Claims(t, i) \subseteq Paths
  BY ClaimsFacts, Zenon DEF planRelease, Claims
<1>4. i \notin Paths /\ k \notin Paths /\ Paths \subseteq Names /\ k \in Names /\ i \in Names /\ Absent # k /\ Absent # i
  BY Names_Disjoint, Zenon DEF Names
<1>5. new[i] = Absent
  BY <1>2, <1>4, Zenon DEF planRelease
<1>6. ASSUME k # i PROVE new[k] = t[k]
  BY <1>2, <1>3, <1>4, <1>6, Zenon
<1>7. ASSUME k = i, i \notin Retain, Exact(t, i) PROVE Exact(new, i)
  <2>1. Claims(new, i) = {}
    BY <1>5, Zenon DEF Claims
  <2>2. \A p \in Paths : t[p] = i <=> p \in Claims(t, i)
    BY <1>7, Zenon DEF Exact, Files
  <2>3. Claims(t, i) \subseteq planRelease(t, i)
    BY <1>7, Zenon DEF planRelease, Claims
  <2>4. \A p \in Paths : new[p] # i
    BY <1>2, <1>4, <2>2, <2>3, Zenon
  <2> QED
    BY <2>1, <2>4, Zenon DEF Exact, Files
<1>8. ASSUME k # i, Exact(t, k) PROVE Exact(new, k)
  <2>1. Claims(new, k) = Claims(t, k) /\ Claims(t, k) \subseteq Paths
    BY <1>6, <1>8, ClaimsFacts, Zenon DEF Claims
  <2>2. \A p \in Paths : t[p] = k <=> p \in Claims(t, k)
    BY <1>8, Zenon DEF Exact, Files
  <2>3. \A p \in Claims(t, k) : new[p] = t[p]
    BY <1>1, <1>8, Zenon DEF Claims
  <2>4. \A p \in Paths : new[p] = k => t[p] = k
    BY <1>2, <1>4, Zenon
  <2> QED
    BY <2>1, <2>2, <2>3, <2>4, Zenon DEF Exact, Files
<1> QED
  BY <1>5, <1>6, <1>7, <1>8, Zenon

----------------------------------------------------------------------------
(* What every step keeps. *)

\* The counts only grow: the surroundings never undo a lost answer or a dirty mirror.
LEMMA CountsGrow ==
    ASSUME used \in Counts, [Next]_vars
    PROVE  /\ used' \in Counts
           /\ used'.dirty = 0 => used.dirty = 0 /\ ~WriteFails
           /\ used'.lost = 0 => used.lost = 0 /\ ~PushUnanswered
<1> DEFINE Grown == /\ used' \in Counts
                    /\ used'.dirty = 0 => used.dirty = 0
                    /\ used'.lost = 0 => used.lost = 0
<1>1. UNCHANGED used => Grown
  BY Zenon
<1>2. used' = [used EXCEPT !.edits = @ + 1] => Grown
  BY DEF Counts
<1>3. used' = [used EXCEPT !.deletions = @ + 1] => Grown
  BY DEF Counts
<1>4. used' = [used EXCEPT !["outside"] = @ + 1] => Grown
  BY DEF Counts
<1>5. used' = [used EXCEPT !["failures"] = @ + 1] => Grown
  BY DEF Counts
<1>6. used' = [used EXCEPT !["lost"] = @ + 1] => Grown /\ used'.lost # 0
  BY DEF Counts
<1>7. used' = [used EXCEPT !["dirty"] = @ + 1] => Grown /\ used'.dirty # 0
  BY DEF Counts
<1> HIDE DEF Grown
<1>8. WriteFails => Grown /\ used'.dirty # 0
  BY <1>7, Zenon DEF WriteFails, Disturbance
<1>9. PushUnanswered => Grown /\ used'.lost # 0
  BY <1>6, Zenon DEF PushUnanswered, Disturbance
<1>10. ASSUME NEW i \in Inventories, \/ shouldSkip(i) \/ ExportFilesWithBranch(i)
                                      \/ DeleteExportWithBranch(i) \/ Edit(i) \/ Delete(i)
       PROVE  Grown
  BY <1>1, <1>2, <1>3, <1>10, Zenon DEF shouldSkip, ExportFilesWithBranch, DeleteExportWithBranch, Edit, Delete
<1>11. ASSUME \/ Fetch \/ CheckoutFails \/ ClaimRefused \/ StatusClean \/ exportRemoteInWorkdir
              \/ pushCommitted \/ syncRemoteBeforePush \/ ReleaseRefused \/ deleteRemote \/ UNCHANGED vars
       PROVE  Grown
  BY <1>1, <1>11, Zenon DEF Fetch, CheckoutFails, ClaimRefused, StatusClean, exportRemoteInWorkdir,
     pushCommitted, syncRemoteBeforePush, ReleaseRefused, deleteRemote, vars
<1>12. ASSUME RemoteFails \/ Restart PROVE Grown
  BY <1>5, <1>12, Zenon DEF RemoteFails, Restart, Disturbance
<1>13. ASSUME NEW b \in Branches, OutsidePush(b) \/ Merge(b) PROVE Grown
  BY <1>4, <1>13, Zenon DEF OutsidePush, Merge, Disturbance
<1>14. Grown
  BY <1>8, <1>9, <1>10, <1>11, <1>12, <1>13, Zenon DEF Next, Operation
<1> QED
  BY <1>8, <1>9, <1>14, Zenon DEF Grown

\* An operation that succeeds lets an inventory go, if it is a release.
LEMMA SucceedWants ==
    ASSUME IInv, Accounts, op # Free, Succeed, UNCHANGED born
    PROVE  Accounted' /\ \A i \in Inventories : Unbroken(i)' => Unbroken(i)
<1>1. op' = Free /\ op.inv \in Inventories /\ want \in [Inventories -> {Deleting, Gone} \cup Payloads]
  BY Zenon DEF Succeed, IInv, UnderWay, Operations, State
<1>2. Accounted'
  BY <1>1, Zenon DEF Accounts, Accounted, Free
<1>3. UNCHANGED want \/ want' = [want EXCEPT ![op.inv] = Gone]
  BY Zenon DEF Succeed
<1>4. \A i \in Inventories : want'[i] = want[i] \/ want'[i] = Gone
  BY <1>1, <1>3, Zenon
<1> QED
  BY <1>2, <1>4, Zenon DEF Unbroken, Live

\* A release is of an inventory that is being deleted, and none that went comes back
\* without being counted.
LEMMA WantsStep ==
    ASSUME IInv, Accounts, [Next]_vars
    PROVE  Accounted' /\ \A i \in Inventories : Unbroken(i)' => Unbroken(i)
<1>1. /\ want \in [Inventories -> {Deleting, Gone} \cup Payloads]
      /\ born \in [Inventories -> Nat \ {0}]
      /\ op.kind = "release" => want[op.inv] = Deleting
  BY Zenon DEF IInv, State, Accounts, Accounted
<1>2. op.kind = "release" => op.inv \in Inventories
  <2>1. op.kind = "release" => op # Free
    BY DEF Free
  <2> QED
    BY <2>1, Zenon DEF IInv, UnderWay, Operations
<1>3. ASSUME UNCHANGED <<want, born>>, op'.kind = "release" => op.kind = "release" /\ op'.inv = op.inv
      PROVE  Accounted' /\ \A i \in Inventories : Unbroken(i)' => Unbroken(i)
  BY <1>1, <1>3, Zenon DEF Accounted, Unbroken, Live
<1>4. ASSUME Fail, UNCHANGED born
      PROVE  Accounted' /\ \A i \in Inventories : Unbroken(i)' => Unbroken(i)
  <2>1. op'.kind # "release" /\ UNCHANGED want
    BY <1>4, Zenon DEF Fail, Free
  <2> QED
    BY <1>3, <1>4, <2>1, Zenon
<1>5. ASSUME op' = [op EXCEPT !.pc = "local"] \/ \E c : op' = [op EXCEPT !.pc = "push", !.commit = c],
             op # Free, UNCHANGED <<want, born>>
      PROVE  Accounted' /\ \A i \in Inventories : Unbroken(i)' => Unbroken(i)
  <2>1. op \in Operations
    BY <1>5, Zenon DEF IInv, UnderWay
  <2>2. op'.kind = op.kind /\ op'.inv = op.inv
    BY <1>5, <2>1, Zenon DEF Operations
  <2> QED
    BY <1>3, <1>5, <2>2, Zenon
<1>6. CASE \E i \in Inventories : shouldSkip(i) \/ ExportFilesWithBranch(i)
  <2>1. op'.kind = "release" => op.kind = "release" /\ op'.inv = op.inv
    BY <1>6 DEF shouldSkip, ExportFilesWithBranch
  <2>2. UNCHANGED <<want, born>>
    BY <1>6, Zenon DEF shouldSkip, ExportFilesWithBranch
  <2> QED
    BY <1>3, <2>1, <2>2, Zenon
<1>7. CASE \E i \in Inventories : DeleteExportWithBranch(i)
  <2>1. PICK i \in Inventories : DeleteExportWithBranch(i)
    BY <1>7, Zenon
  <2>2. op'.inv = i /\ want[i] = Deleting /\ UNCHANGED <<want, born>>
    BY <2>1, Zenon DEF DeleteExportWithBranch
  <2> QED
    BY <1>1, <2>2, Zenon DEF Accounted, Unbroken, Live
<1>8. CASE \E i \in Inventories : Edit(i)
  <2>1. PICK i \in Inventories : Edit(i)
    BY <1>8, Zenon
  <2>2. PICK s : want' = [want EXCEPT ![i] = s]
    BY <2>1, Zenon DEF Edit
  <2>3. /\ want[i] # Deleting /\ UNCHANGED op
        /\ born' = [born EXCEPT ![i] = IF want[i] = Gone THEN @ + 1 ELSE @]
    BY <2>1, Zenon DEF Edit
  <2>4. born' \in [Inventories -> Nat \ {0}] /\ (want[i] = Gone => born'[i] # 1)
        /\ \A j \in Inventories : born'[j] = born[j] \/ (j = i /\ want[i] = Gone)
    BY <1>1, <2>3
  <2>5. op.kind = "release" => op.inv # i
    BY <1>1, <2>3, Zenon
  <2>6. op'.kind = "release" => want'[op'.inv] = Deleting
    BY <1>2, <1>1, <2>2, <2>3, <2>5, Zenon
  <2>7. \A j \in Inventories : Unbroken(j)' => Unbroken(j)
    <3> TAKE j \in Inventories
    <3>1. CASE j = i
      BY <2>3, <2>4, <3>1, Zenon DEF Unbroken, Live
    <3>2. CASE j # i
      <4>1. want'[j] = want[j] /\ born'[j] = born[j]
        BY <1>1, <2>2, <2>4, <3>2, Zenon
      <4> QED
        BY <4>1, Zenon DEF Unbroken, Live
    <3> QED
      BY <3>1, <3>2, Zenon
  <2> QED
    BY <2>4, <2>6, <2>7, Zenon DEF Accounted
<1>9. CASE \E i \in Inventories : Delete(i)
  <2>1. PICK i \in Inventories : Delete(i)
    BY <1>9, Zenon
  <2>2. want' = [want EXCEPT ![i] = Deleting] /\ UNCHANGED <<born, op>>
    BY <2>1, Zenon DEF Delete
  <2>3. \A j \in Inventories : want'[j] = want[j] \/ want'[j] = Deleting
    BY <1>1, <2>2, Zenon
  <2> QED
    BY <1>2, <1>1, <2>2, <2>3, Zenon DEF Accounted, Unbroken, Live
<1>10. CASE \/ CheckoutFails \/ ClaimRefused \/ WriteFails \/ RemoteFails \/ ReleaseRefused
  BY <1>4, <1>10, Zenon DEF CheckoutFails, ClaimRefused, WriteFails, RemoteFails, ReleaseRefused
<1>11. CASE Fetch \/ exportRemoteInWorkdir
  <2>1. op # Free
    BY <1>11 DEF Fetch, exportRemoteInWorkdir, Free
  <2> QED
    BY <1>5, <1>11, <2>1, Zenon DEF Fetch, exportRemoteInWorkdir, Commit
<1>12. CASE pushCommitted \/ StatusClean
  <2>1. op # Free
    BY <1>12 DEF pushCommitted, StatusClean, Free
  <2> QED
    BY <1>12, <2>1, SucceedWants, Zenon DEF pushCommitted, StatusClean
<1>13. CASE syncRemoteBeforePush
  <2>1. op # Free
    BY <1>13 DEF syncRemoteBeforePush, Free
  <2>2. (Succeed \/ Fail) /\ UNCHANGED born
    BY <1>13, Zenon DEF syncRemoteBeforePush
  <2> QED
    BY <1>4, <2>1, <2>2, SucceedWants, Zenon
<1>14. CASE deleteRemote
  <2>1. op # Free
    BY <1>14 DEF deleteRemote, Free
  <2>2. UNCHANGED born /\ (Succeed \/ (UNCHANGED want /\ \E c : op' = [op EXCEPT !.pc = "push", !.commit = c]))
    BY <1>14, Zenon DEF deleteRemote, Commit
  <2> QED
    BY <1>5, <2>1, <2>2, SucceedWants, Zenon
<1>15. CASE PushUnanswered \/ UNCHANGED vars \/ \E b \in Branches : OutsidePush(b) \/ Merge(b)
  <2>1. UNCHANGED <<want, born, op>>
    BY <1>15, Zenon DEF PushUnanswered, vars, OutsidePush, Merge
  <2> QED
    BY <1>3, <2>1, Zenon
<1>16. CASE Restart
  <2>1. op'.kind # "release" /\ UNCHANGED <<want, born>>
    BY <1>16, Zenon DEF Restart, Free
  <2> QED
    BY <1>3, <2>1, Zenon
<1> QED
  BY <1>6, <1>7, <1>8, <1>9, <1>10, <1>11, <1>12, <1>13, <1>14, <1>15, <1>16, Zenon DEF Next, Operation

----------------------------------------------------------------------------
(* Roots. *)

\* A commit of the clone branch is rooted in itself.
LEMMA RootedSelf ==
    ASSUME History, NEW c \in 1..Len(commits), c \in Anc(remote[Target]), NEW i
    PROVE  Rooted(c, i)
<1>1. c \in Anc(c) /\ \A d \in Anc(c) : d >= c => d = c
  BY DEF History
<1> QED
  BY <1>1, Zenon DEF Rooted

\* The ancestors of a commit are commits, and stay what they are.
LEMMA AncestorFacts ==
    ASSUME History, History', Extended, NEW c \in Refs \ {0}
    PROVE  Anc(c)' = Anc(c) /\ Tree(c)' = Tree(c) /\ \A d \in Anc(c) : d \in Refs \ {0} /\ Tree(d)' = Tree(d)
<1>1. Len(commits) \in Nat /\ c \in 1..Len(commits)
  BY DEF History, Refs
<1>2. \A d \in Anc(c) : d \in Refs \ {0}
  BY <1>1 DEF History, Refs
<1> QED
  BY <1>2, ExtendedFacts, Zenon

\* Roots stay while the clone branch only grows.
LEMMA RootedStays ==
    ASSUME History, History', Extended, Anc(remote[Target]) \subseteq Anc(remote[Target])',
           NEW c \in Refs \ {0}, NEW i, Rooted(c, i)
    PROVE  Rooted(c, i)'
<1>1. Anc(c)' = Anc(c) /\ Tree(c)' = Tree(c) /\ \A d \in Anc(c) : Tree(d)' = Tree(d)
  BY AncestorFacts, Zenon
<1>2. PICK r \in Anc(c) \cap Anc(remote[Target]) : \A d \in Anc(c) : d >= r => Tree(d)[i] = Tree(c)[i]
  BY Zenon DEF Rooted
<1>3. r \in Anc(c)' \cap Anc(remote[Target])' /\ \A d \in Anc(c)' : d >= r => Tree(d)'[i] = Tree(c)'[i]
  BY <1>1, <1>2, Zenon
<1> QED
  BY <1>3, Zenon DEF Rooted

\* They pass on to a commit that leaves the record alone.
LEMMA RootedGrows ==
    ASSUME History, History', Extended, Anc(remote[Target]) \subseteq Anc(remote[Target])',
           NEW c \in Refs \ {0}, NEW i, Rooted(c, i),
           NEW n, Anc(n)' = Anc(c) \cup {n}, Tree(n)'[i] = Tree(c)[i]
    PROVE  Rooted(n, i)'
<1>1. \A d \in Anc(c) : Tree(d)' = Tree(d)
  BY AncestorFacts, Zenon
<1>2. PICK r \in Anc(c) \cap Anc(remote[Target]) : \A d \in Anc(c) : d >= r => Tree(d)[i] = Tree(c)[i]
  BY Zenon DEF Rooted
<1>3. r \in Anc(n)' \cap Anc(remote[Target])' /\ \A d \in Anc(n)' : d >= r => Tree(d)'[i] = Tree(n)'[i]
  BY <1>1, <1>2, Zenon
<1> QED
  BY <1>3, Zenon DEF Rooted

----------------------------------------------------------------------------
(* Steps that write no history. *)

\* A fingerprint stays true while the record does.
LEMMA RememberedStays ==
    ASSUME Truth, NEW i \in Direct, fp'[i] = fp[i], Unbroken(i)' => Unbroken(i),
           used'.lost = 0 => used.lost = 0, Tree(remote[Target])'[i] = Tree(remote[Target])[i]
    PROVE  Remembered(i)'
BY Zenon DEF Truth, Remembered

\* What a step has to show that leaves the history and the remote as they are.
LEMMA QuietTruth ==
    ASSUME Truth, UNCHANGED <<commits, remote>>, mirror'.wt = mirror'.index,
           \A i \in Inventories : Unbroken(i)' => Unbroken(i),
           \A i \in Direct, b \in Branches \ {Target}, c \in Refs \ {0} : mirror'.refs[b] = c => Rooted(c, i),
           Private', \A i \in Direct : Fetched(i)' /\ Pending(i)' /\ Remembered(i)'
    PROVE  Truth'
<1>1. \A c, i : Rooted(c, i)' = Rooted(c, i)
  BY Zenon DEF Rooted, Anc, Tree
<1>2. Refs' = Refs
  BY Zenon DEF Refs
<1>3. \A i \in Direct : Roots(i)'
  <2> SUFFICES ASSUME NEW i \in Direct, NEW b \in Branches \ {Target}, NEW c \in Refs' \ {0},
                      remote'[b] = c \/ mirror'.refs[b] = c
               PROVE  Rooted(c, i)'
    BY Zenon DEF Roots, Direct
  <2> QED
    BY <1>1, <1>2, Zenon DEF Truth, Roots
<1>4. Exacts'
  <2>1. \A c : Tree(c)' = Tree(c)
    BY Zenon DEF Tree
  <2> QED
    BY <2>1, Zenon DEF Truth, Exacts, Kept, Exact, Files, Claims
<1> QED
  BY <1>3, <1>4, Zenon DEF Truth, Direct

\* An operation ends.
LEMMA EndTruth ==
    ASSUME Truth, UNCHANGED <<commits, remote>>, op' = Free, mirror'.wt = mirror'.index,
           \A i \in Inventories : Unbroken(i)' => Unbroken(i),
           \A i \in Direct, b \in Branches \ {Target}, c \in Refs \ {0} : mirror'.refs[b] = c => Rooted(c, i),
           \A i \in Direct : Remembered(i)'
    PROVE  Truth'
<1>1. op'.pc = "idle"
  BY Zenon DEF Free
<1>2. Private' /\ \A i \in Direct : Fetched(i)' /\ Pending(i)'
  BY <1>1, Zenon DEF Private, Fetched, Pending
<1> QED
  BY <1>2, QuietTruth, Zenon

\* The mirror that an export or a release works on: clean, on the push branch, and as far
\* as the records of direct mode go like the clone branch.
Workable(m, b) ==
    /\ m \in Mirrors /\ m.warm /\ m.head = b /\ m.refs[b] # 0
    /\ m.refs[Target] = mirror.refs[Target] /\ m.refs[Target] # 0
    /\ m.index = Tree(m.refs[b]) /\ m.wt = m.index
    /\ \A i \in Direct, d \in Branches \ {Target}, c \in Refs \ {0} : m.refs[d] = c => Rooted(c, i)

LEMMA Planned ==
    ASSUME IInv, Truth, op.pc = "local", NEW b, b = PushBranch[op.inv],
           NEW m, m = checkoutMirrorBranch(mirror, b) \/ m = ReleaseBase(b)
    PROVE  op # Free /\ op \in Operations /\ op.inv \in Inventories /\ b \in Branches /\ Workable(m, b)
<1>1. op # Free
  BY DEF Free
<1>2. op \in Operations /\ op.inv \in Inventories /\ mirror.warm /\ mirror.refs[Target] \in Anc(remote[Target])
  BY <1>1, Zenon DEF IInv, UnderWay, Operations
<1>3. b \in Branches /\ mirror \in Mirrors /\ mirror.refs[Target] # 0 /\ History
  BY <1>2, Branch_Assumption, Zenon DEF IInv, State
<1>4. mirror.wt = mirror.index
  BY Zenon DEF Truth
<1>5. /\ m \in Mirrors /\ m.warm /\ m.head = b /\ m.refs[b] # 0
      /\ m.refs[Target] = mirror.refs[Target]
      /\ m.refs[b] \in {mirror.refs[b], remote[b], mirror.refs[Target]}
      /\ \A d \in Branches \ {b} : m.refs[d] = mirror.refs[d]
      /\ m.index = Tree(m.refs[b]) /\ m.wt = m.index
  <2>1. CASE m = checkoutMirrorBranch(mirror, b)
    <3>1. /\ m \in Mirrors /\ m.warm /\ m.head = b /\ m.refs[b] # 0
          /\ m.refs[Target] = mirror.refs[Target] /\ m.refs[b] = Tip(mirror, b)
          /\ \A d \in Branches \ {b} : m.refs[d] = mirror.refs[d]
          /\ m.index = Tree(m.refs[b]) /\ m.wt = m.index
      <4>1. CheckedOut(mirror, b, m)
        BY <1>3, <2>1, CheckoutFacts, Zenon
      <4> QED
        BY <1>2, <1>4, <4>1, Zenon DEF CheckedOut
    <3>2. m.refs[b] \in {mirror.refs[b], mirror.refs[Target]}
      BY <3>1, Zenon DEF Tip
    <3> QED
      BY <3>1, <3>2, Zenon
  <2>2. CASE m = ReleaseBase(b)
    BY <1>2, <1>3, <1>4, <2>2, ReleaseBaseFacts, SMT
  <2> QED
    BY <2>1, <2>2, Zenon
<1>6. ASSUME NEW i \in Direct, NEW d \in Branches \ {Target}, NEW c \in Refs \ {0}, m.refs[d] = c
      PROVE  Rooted(c, i)
  <2>1. CASE c = mirror.refs[d] \/ c = remote[d]
    BY <2>1, Zenon DEF Truth, Roots
  <2>2. CASE c = mirror.refs[Target]
    <3>1. c \in 1..Len(commits)
      BY <1>3 DEF Refs, History
    <3> QED
      BY <1>2, <1>3, <2>2, <3>1, RootedSelf, Zenon
  <2> QED
    BY <1>5, <1>6, <2>1, <2>2, Zenon
<1> QED
  BY <1>1, <1>2, <1>3, <1>5, <1>6, Zenon DEF Workable

\* An export that is refused, or finds nothing to commit, and a release that is refused.
LEMMA LocalEndTruth ==
    ASSUME IInv, Truth, CheckoutFails \/ ClaimRefused \/ StatusClean \/ ReleaseRefused,
           \A i \in Inventories : Unbroken(i)' => Unbroken(i), used'.lost = 0 => used.lost = 0
    PROVE  Truth'
<1>1. PICK b, j, s : b = PushBranch[op.inv] /\ j = op.inv /\ s = op.payload
  BY Zenon
<1>2. op.pc = "local" /\ UNCHANGED <<commits, remote>> /\ (Fail \/ Succeed)
  BY Zenon DEF CheckoutFails, ClaimRefused, StatusClean, ReleaseRefused
<1>3. op' = Free
  BY <1>2, Zenon DEF Fail, Succeed
<1>4. ~CheckoutFails
  BY Zenon DEF CheckoutFails, Unstaged, Truth
<1>5. PICK m : /\ m = checkoutMirrorBranch(mirror, b) \/ m = ReleaseBase(b)
               /\ mirror' = m \/ mirror' = [m EXCEPT !.wt = m.index]
               /\ StatusClean => m = checkoutMirrorBranch(mirror, b)
  <2>1. CASE ClaimRefused
    <3>1. ~StatusClean
      BY <2>1, Zenon DEF ClaimRefused, StatusClean
    <3> QED
      BY <1>1, <2>1, <3>1, Zenon DEF ClaimRefused
  <2>2. CASE StatusClean
    BY <1>1, <2>2, Zenon DEF StatusClean
  <2>3. CASE ReleaseRefused
    <3>1. ~StatusClean
      BY <2>3, Zenon DEF ReleaseRefused, StatusClean
    <3> QED
      BY <1>1, <2>3, <3>1, Zenon DEF ReleaseRefused
  <2> QED
    BY <1>4, <2>1, <2>2, <2>3, Zenon
<1>6. /\ op # Free /\ op.inv \in Inventories /\ b \in Branches /\ m \in Mirrors
      /\ m.refs[Target] = mirror.refs[Target] /\ m.index = Tree(m.refs[b]) /\ m.wt = m.index
      /\ \A i \in Direct, d \in Branches \ {Target}, c \in Refs \ {0} : m.refs[d] = c => Rooted(c, i)
  <2>1. op # Free /\ op \in Operations /\ op.inv \in Inventories /\ b \in Branches /\ Workable(m, b)
    BY <1>1, <1>2, <1>5, Planned, Zenon
  <2> QED
    BY <1>1, <2>1, Zenon DEF Workable
<1>7. mirror'.wt = mirror'.index /\ mirror'.refs = m.refs
  BY <1>5, <1>6, Zenon DEF Mirrors
<1>8. Tree(remote[Target])' = Tree(remote[Target])
  BY <1>2, Zenon DEF Tree
<1>9. ASSUME NEW i \in Direct PROVE Remembered(i)'
  <2>1. i \in Inventories /\ fp \in [Inventories -> {None} \cup Payloads]
    BY Zenon DEF Direct, IInv, State
  <2>2. CASE StatusClean /\ i = j
    <3>1. /\ op.kind = "export" /\ ~Refused(m) /\ Snapshot(m) = m.index /\ Succeed
      BY <1>1, <1>5, <2>2, Zenon DEF StatusClean
    <3>2. fp' = [fp EXCEPT ![j] = s]
      BY <1>1, <3>1, Zenon DEF Succeed
    <3>3. b = Target
      BY <1>1, <2>2, Zenon DEF Direct
    <3>4. m.index[i] = s
      BY <1>1, <2>1, <2>2, <3>1, Zenon DEF Snapshot, Written, Names
    <3>5. Tree(mirror.refs[Target])[i] = Tree(remote[Target])[i]
      BY <1>2, Zenon DEF Truth, Fetched
    <3>6. Tree(remote[Target])[i] = s /\ fp'[i] = s
      BY <1>6, <2>1, <2>2, <3>2, <3>3, <3>4, <3>5, Zenon
    <3> QED
      BY <1>8, <3>6, Zenon DEF Remembered
  <2>3. CASE ~(StatusClean /\ i = j)
    <3>1. fp'[i] = fp[i]
      <4>1. CASE Fail
        BY <4>1, Zenon DEF Fail
      <4>2. CASE Succeed
        <5>1. ~Fail \/ UNCHANGED fp
          BY Zenon DEF Fail
        <5>2. StatusClean \/ UNCHANGED fp
          BY <1>4, <5>1, Zenon DEF ClaimRefused, ReleaseRefused
        <5>3. UNCHANGED fp \/ fp' = [fp EXCEPT ![j] = s]
          BY <1>1, <4>2, Zenon DEF Succeed
        <5> QED
          BY <2>1, <2>3, <5>2, <5>3, Zenon
      <4> QED
        BY <1>2, <4>1, <4>2, Zenon
    <3> QED
      BY <1>8, <2>1, <3>1, RememberedStays, Zenon
  <2> QED
    BY <2>2, <2>3, Zenon
<1> QED
  BY <1>2, <1>3, <1>6, <1>7, <1>9, EndTruth, Zenon

----------------------------------------------------------------------------
(* Steps that write history. *)

\* The commits there are keep exact trees, and a new one has one.
LEMMA ExactsStay ==
    ASSUME History, History', Exacts, Extended, NEW n, n = Len(commits) + 1, Len(commits') = n,
           \A i \in Inventories : Unbroken(i)' => Unbroken(i),
           NEW tree, Tree(n)' = tree, \A i \in Inventories : Kept(i)' => Exact(tree, i)
    PROVE  Exacts'
<1>1. Len(commits) \in Nat
  BY DEF History
<1> SUFFICES ASSUME NEW i \in Inventories, Kept(i)', NEW c \in 1..Len(commits') PROVE Exact(Tree(c), i)'
  BY Zenon DEF Exacts
<1>2. CASE c = n
  BY <1>2, Zenon DEF Exact, Files, Claims
<1>3. CASE c # n
  <2>1. c \in 1..Len(commits) /\ c \in Refs /\ c # 0
    BY <1>1, <1>3 DEF Refs
  <2>2. Tree(c)' = Tree(c)
    BY <2>1, ExtendedFacts, Zenon
  <2>3. Exact(Tree(c), i)
    BY <2>1, Zenon DEF Exacts, Kept
  <2> QED
    BY <2>2, <2>3, Zenon DEF Exact, Files, Claims
<1> QED
  BY <1>2, <1>3, Zenon

\* A commit on the push branch that leaves the records of others alone.
LEMMA CommitTruth ==
    ASSUME IInv, Truth, op.pc = "local", NEW b, b = PushBranch[op.inv],
           NEW m, m = checkoutMirrorBranch(mirror, b) \/ m = ReleaseBase(b),
           NEW tree, Commit(m, b, tree, tree), UNCHANGED remote,
           NEW n, n = Len(commits) + 1, IInv', Extended, Len(commits') = n,
           Tree(n)' = tree, Anc(n)' = Anc(m.refs[b]) \cup {n},
           \A i \in Inventories : Unbroken(i)' => Unbroken(i), used'.lost = 0 => used.lost = 0,
           \A i \in Inventories : Kept(i)' => Exact(tree, i),
           \A i \in Inventories \ {op.inv} : tree[i] = m.index[i],
           op.kind = "release" => tree[op.inv] = Absent
    PROVE  Truth'
<1>1. /\ op # Free /\ op \in Operations /\ op.inv \in Inventories /\ b \in Branches
      /\ m \in Mirrors /\ m.refs[b] # 0 /\ m.refs[Target] = mirror.refs[Target]
      /\ m.index = Tree(m.refs[b])
      /\ \A i \in Direct, d \in Branches \ {Target}, c \in Refs \ {0} : m.refs[d] = c => Rooted(c, i)
  <2>1. op # Free /\ op \in Operations /\ op.inv \in Inventories /\ b \in Branches /\ Workable(m, b)
    BY Planned, Zenon
  <2> QED
    BY <2>1, Zenon DEF Workable
<1>2. /\ mirror' = [m EXCEPT !.index = tree, !.wt = tree, !.refs[b] = n]
      /\ op' = [op EXCEPT !.pc = "push", !.commit = n] /\ UNCHANGED <<fp, want>>
  BY Zenon DEF Commit
<1>3. mirror'.wt = mirror'.index /\ mirror'.refs = [m.refs EXCEPT ![b] = n]
  <2>1. m = [warm |-> m.warm, refs |-> m.refs, head |-> m.head, index |-> m.index, wt |-> m.wt]
    BY <1>1, Zenon DEF Mirrors
  <2>2. mirror' = [warm |-> m.warm, refs |-> [m.refs EXCEPT ![b] = n], head |-> m.head,
                   index |-> tree, wt |-> tree]
    BY <1>2, <2>1, Zenon
  <2> QED
    BY <2>2, Zenon
<1>4. op'.pc = "push" /\ op'.commit = n /\ op'.inv = op.inv /\ op'.kind = op.kind
  BY <1>1, <1>2, Zenon DEF Operations
<1>5. History /\ History' /\ Len(commits) \in Nat /\ n \in Nat
  BY DEF IInv, History
<1>6. \A c \in Refs \ {0} : Anc(c)' = Anc(c) /\ Tree(c)' = Tree(c) /\ n \notin Anc(c)
  <2> TAKE c \in Refs \ {0}
  <2>1. n \notin Anc(c)
    BY <1>5 DEF Refs, History
  <2> QED
    BY <1>5, <2>1, AncestorFacts, Zenon
<1>7. PICK rt \in Refs \ {0} : rt = remote[Target]
  BY Branch_Assumption, Zenon DEF IInv, State
<1>8. Tree(remote[Target])' = Tree(remote[Target]) /\ Anc(remote[Target])' = Anc(remote[Target])
  <2>1. Tree(rt)' = Tree(remote[Target])' /\ Anc(rt)' = Anc(remote[Target])'
    BY <1>7, Zenon DEF Tree, Anc
  <2> QED
    BY <1>6, <1>7, <2>1, Zenon
<1>9. \A d \in Branches : n \notin Anc(remote[d])'
  <2> TAKE d \in Branches
  <2>1. PICK c \in Refs : c = remote[d]
    BY Zenon DEF IInv, State
  <2>2. Anc(c)' = Anc(remote[d])'
    BY <2>1, Zenon DEF Anc
  <2>3. CASE c = 0
    BY <2>2, <2>3, Zenon DEF Anc
  <2>4. CASE c # 0
    <3>1. Anc(c)' = Anc(c) /\ n \notin Anc(c)
      BY <1>6, <2>1, <2>4, Zenon
    <3> QED
      BY <2>2, <3>1, Zenon
  <2> QED
    BY <2>3, <2>4, Zenon
<1>10. PICK r \in Refs \ {0} : r = m.refs[b]
  BY <1>1, Zenon DEF Mirrors
<1>11. ASSUME NEW i \in Direct PROVE Roots(i)'
  <2> SUFFICES ASSUME NEW d \in Branches \ {Target}, NEW c \in Refs' \ {0},
                      remote'[d] = c \/ mirror'.refs[d] = c
               PROVE  Rooted(c, i)'
    BY Zenon DEF Roots
  <2>1. \A e \in Refs \ {0} : Rooted(e, i) => Rooted(e, i)'
    BY <1>5, <1>8, RootedStays, Zenon
  <2>2. CASE mirror'.refs[d] = c /\ d = b
    <3>1. c = n
      BY <1>1, <1>3, <2>2, Zenon DEF Mirrors
    <3>2. op.inv # i /\ i \in Inventories
      BY <2>2, Zenon DEF Direct
    <3>3. Tree(n)'[i] = Tree(r)[i] /\ Rooted(r, i) /\ Anc(n)' = Anc(r) \cup {n}
      BY <1>1, <1>10, <2>2, <3>2, Zenon
    <3> QED
      BY <1>5, <1>8, <3>1, <3>3, RootedGrows, Zenon
  <2>3. CASE mirror'.refs[d] = c /\ d # b
    <3>1. m.refs[d] = c /\ c \in Refs
      BY <1>1, <1>3, <2>3, Zenon DEF Mirrors
    <3> QED
      BY <1>1, <2>1, <3>1, Zenon
  <2>4. CASE remote'[d] = c
    <3>1. remote[d] = c /\ c \in Refs
      BY <2>4, Zenon DEF IInv, State
    <3> QED
      BY <2>1, <3>1, Zenon DEF Truth, Roots
  <2> QED
    BY <2>2, <2>3, <2>4, Zenon
<1>12. ASSUME NEW i \in Direct PROVE Pending(i)'
  <2> SUFFICES ASSUME op.inv \in Direct
               PROVE  /\ op.inv # i => Tree(n)'[i] = Tree(remote[Target])'[i]
                      /\ op.inv = i /\ op.kind = "release" => Tree(n)'[i] = Absent
    <3>1. n \notin Anc(remote[Target])'
      BY <1>9, Branch_Assumption, Zenon
    <3> QED
      BY <1>4, <3>1, Zenon DEF Pending, Tree, Direct
  <2>1. b = Target /\ i \in Inventories
    BY Zenon DEF Direct
  <2>2. Tree(mirror.refs[Target])[i] = Tree(remote[Target])[i]
    BY Zenon DEF Truth, Fetched
  <2> QED
    BY <1>1, <1>8, <2>1, <2>2, Zenon
<1>13. \A i \in Direct : Fetched(i)'
  BY <1>4, Zenon DEF Fetched
<1>14. \A i \in Direct : Remembered(i)'
  BY <1>2, <1>8, RememberedStays, Zenon DEF Direct
<1>15. Private'
  BY <1>4, <1>9, Zenon DEF Private
<1>16. Exacts'
  BY <1>5, ExactsStay, Zenon DEF Truth
<1> QED
  BY <1>3, <1>11, <1>12, <1>13, <1>14, <1>15, <1>16, Zenon DEF Truth, Direct

\* The commit of an export.
LEMMA ExportTruth ==
    ASSUME IInv, Truth, exportRemoteInWorkdir,
           \A i \in Inventories : Unbroken(i)' => Unbroken(i), used'.lost = 0 => used.lost = 0
    PROVE  Truth'
<1>1. PICK b, j, s, n : b = PushBranch[op.inv] /\ j = op.inv /\ s = op.payload /\ n = Len(commits) + 1
  BY Zenon
<1>2. PICK m : m = checkoutMirrorBranch(mirror, b)
  BY Zenon
<1>3. PICK t, new : t = m.index /\ new = Written(t, j, s, s, Stale(t, j, s), TRUE)
  BY Zenon
<1>4. op.pc = "local" /\ op.kind = "export"
  BY Zenon DEF exportRemoteInWorkdir
<1>5. /\ op # Free /\ j \in Inventories /\ b \in Branches
      /\ m \in Mirrors /\ m.warm /\ m.head = b /\ m.refs[b] # 0 /\ m.refs[Target] # 0
      /\ m.index = Tree(m.refs[b]) /\ m.wt = m.index
  <2>1. op # Free /\ op \in Operations /\ op.inv \in Inventories /\ b \in Branches /\ Workable(m, b)
    BY <1>1, <1>2, <1>4, Planned, Zenon
  <2> QED
    BY <1>1, <2>1, Zenon DEF Workable
<1>6. Snapshot(m) = new /\ ~Refused(m) /\ Commit(m, b, new, new) /\ UNCHANGED remote
  BY <1>1, <1>2, <1>3, <1>5, Zenon DEF exportRemoteInWorkdir, Snapshot
<1>7. s \in Payloads
  BY <1>1, <1>4, <1>5, Zenon DEF IInv, UnderWay
<1>8. t \in Trees /\ ~prepareOwnedPrune_Refuses(t, j, s)
  BY <1>1, <1>3, <1>5, <1>6, Zenon DEF Refused, Mirrors
<1>9. Fair(t, j, s, new)
  BY <1>3, <1>5, <1>7, <1>8, SnapshotFacts, Zenon
<1>10. /\ IInv' /\ Extended /\ Len(commits') = n
       /\ Tree(n)' = new /\ Anc(n)' = Anc(m.refs[b]) \cup {n}
  <2>1. /\ new \in Trees
        /\ op.kind = "export" => new[op.inv] = op.payload /\ \A q \in op.payload : new[q] = op.inv
        /\ op.kind = "export" \/ op.inv \notin Retain => ~ClaimedTwice(new)
    BY <1>1, <1>9, Zenon DEF Fair
  <2> QED
    BY <1>1, <1>4, <1>5, <1>6, <2>1, CommitStep
<1>11. PICK r \in 1..Len(commits) : r = m.refs[b]
  BY <1>5 DEF Mirrors, Refs, IInv, History
<1>12. StayExact(t, j, new)
  BY <1>3, <1>5, <1>7, <1>8, ExportedExact, Zenon
<1>13. \A i \in Inventories : Kept(i)' => Exact(new, i)
  <2> SUFFICES ASSUME NEW i \in Inventories, Kept(i)' PROVE Exact(new, i)
    BY Zenon
  <2>1. Exact(t, i)
    BY <1>3, <1>5, <1>11, Zenon DEF Truth, Exacts, Kept
  <2> QED
    BY <1>12, <2>1, Zenon DEF StayExact
<1>14. \A i \in Inventories \ {j} : new[i] = m.index[i]
  BY <1>3, <1>12, Zenon DEF StayExact
<1> QED
  BY <1>1, <1>2, <1>4, <1>6, <1>10, <1>13, <1>14, CommitTruth

\* A release commits, pushes what it finds committed, or is done.
LEMMA ReleaseTruth ==
    ASSUME IInv, Accounts, Truth, deleteRemote,
           \A i \in Inventories : Unbroken(i)' => Unbroken(i), used'.lost = 0 => used.lost = 0
    PROVE  Truth' /\ (op.inv \in Direct /\ Succeed => Tree(remote[Target])[op.inv] = Absent)
<1>1. PICK b, j, n : b = PushBranch[op.inv] /\ j = op.inv /\ n = Len(commits) + 1
  BY Zenon
<1>2. PICK m : m = ReleaseBase(b)
  BY Zenon
<1>3. PICK t, tree : t = m.index /\ tree = Without(t, planRelease(t, j))
  BY Zenon
<1>4. op.pc = "local" /\ op.kind = "release" /\ UNCHANGED remote
  BY Zenon DEF deleteRemote
<1>5. /\ op # Free /\ op \in Operations /\ j \in Inventories /\ b \in Branches
      /\ m \in Mirrors /\ m.warm /\ m.head = b /\ m.refs[b] # 0 /\ m.refs[Target] # 0
      /\ m.refs[Target] = mirror.refs[Target]
      /\ m.index = Tree(m.refs[b]) /\ m.wt = m.index
      /\ \A i \in Direct, d \in Branches \ {Target}, c \in Refs \ {0} : m.refs[d] = c => Rooted(c, i)
  <2>1. op # Free /\ op \in Operations /\ op.inv \in Inventories /\ b \in Branches /\ Workable(m, b)
    BY <1>1, <1>2, <1>4, Planned, Zenon
  <2> QED
    BY <1>1, <2>1, Zenon DEF Workable
<1>6. /\ j \in Retain \/ ~ClaimedTwice(t)
      /\ \/ tree # t /\ Commit(m, b, tree, tree)
         \/ /\ tree = t
            /\ mirror' = [m EXCEPT !.wt = tree]
            /\ UNCHANGED commits
            /\ \/ /\ remote[b] # m.refs[b] /\ remote[b] \in Anc(m.refs[b])
                  /\ op' = [op EXCEPT !.pc = "push", !.commit = m.refs[b]]
                  /\ UNCHANGED <<fp, reported, want>>
               \/ Succeed
  BY <1>1, <1>2, <1>3, <1>5, Zenon DEF deleteRemote, deliverRemoteStrandedDeletion
<1>7. t \in Trees
  BY <1>3, <1>5, Zenon DEF Mirrors
<1>8. \A k \in Inventories : /\ tree[j] = Absent /\ (k # j => tree[k] = t[k])
                             /\ Exact(t, k) /\ (k # j \/ j \notin Retain) => Exact(tree, k)
  BY <1>3, <1>5, <1>6, <1>7, ReleasedExact, SMT
<1>9. PICK r \in 1..Len(commits) : r = m.refs[b]
  BY <1>5 DEF Mirrors, Refs, IInv, History
<1>10. CASE tree # t /\ Commit(m, b, tree, tree)
  <2>1. tree \in Trees /\ (j \notin Retain => ~ClaimedTwice(tree))
    BY <1>3, <1>5, <1>6, <1>7, ReleasedFacts, Zenon
  <2>2. /\ IInv' /\ Extended /\ Len(commits') = n
        /\ Tree(n)' = tree /\ Anc(n)' = Anc(m.refs[b]) \cup {n}
    BY <1>1, <1>4, <1>5, <1>10, <2>1, CommitStep, Zenon
  <2>3. ASSUME NEW i \in Inventories, Kept(i)' PROVE Exact(tree, i)
    <3>1. Exact(t, i)
      BY <1>3, <1>5, <1>9, <2>3, Zenon DEF Truth, Exacts, Kept
    <3>2. i # j \/ j \notin Retain
      BY <1>1, <1>4, <2>3, Zenon DEF Kept, Unbroken, Live, Accounts, Accounted
    <3> QED
      BY <1>8, <3>1, <3>2, Zenon
  <2>4. \A i \in Inventories \ {j} : tree[i] = m.index[i]
    BY <1>3, <1>8, Zenon
  <2>5. Truth'
    BY <1>1, <1>2, <1>4, <1>5, <1>8, <1>10, <2>2, <2>3, <2>4, CommitTruth
  <2>6. ~Succeed
    BY <1>10, Zenon DEF Commit, Succeed, Free
  <2> QED
    BY <2>5, <2>6, Zenon
<1>11. ASSUME tree = t, mirror' = [m EXCEPT !.wt = tree], UNCHANGED commits
       PROVE  mirror'.wt = mirror'.index /\ mirror'.refs = m.refs /\ Tree(remote[Target])' = Tree(remote[Target])
  BY <1>3, <1>4, <1>5, <1>11, Zenon DEF Mirrors, Tree
<1>12. CASE /\ tree = t /\ mirror' = [m EXCEPT !.wt = tree] /\ UNCHANGED commits
            /\ remote[b] # m.refs[b] /\ remote[b] \in Anc(m.refs[b])
            /\ op' = [op EXCEPT !.pc = "push", !.commit = m.refs[b]]
            /\ UNCHANGED <<fp, reported, want>>
  <2>1. op'.pc = "push" /\ op'.inv = j
    BY <1>1, <1>5, <1>12, Zenon DEF Operations
  <2>2. j \notin Direct
    <3>1. PICK old : old = remote[Target]
      BY Zenon
    <3>2. old \in 1..Len(commits) /\ Len(commits) \in Nat
      BY <3>1, Branch_Assumption DEF IInv, State, Refs, History
    <3>3. m.refs[Target] \in Anc(old)
      BY <1>4, <1>5, <3>1, Zenon DEF IInv, UnderWay
    <3> SUFFICES ASSUME b = Target PROVE FALSE
      BY <1>1, Zenon DEF Direct
    <3>4. old # r /\ old \in Anc(r) /\ r \in Anc(old)
      BY <1>9, <1>12, <3>1, <3>3, Zenon
    <3> QED
      BY <3>2, <3>4 DEF IInv, History
  <2>3. Private' /\ \A i \in Direct : Fetched(i)' /\ Pending(i)'
    <3>1. op'.inv \notin Direct /\ op'.pc # "local"
      BY <2>1, <2>2, Zenon
    <3> QED
      BY <3>1, Zenon DEF Private, Fetched, Pending, Direct
  <2>4. \A i \in Direct : Remembered(i)'
    BY <1>11, <1>12, RememberedStays, Zenon DEF Direct
  <2>5. Truth'
    BY <1>4, <1>5, <1>11, <1>12, <2>3, <2>4, QuietTruth, Zenon
  <2> QED
    BY <1>1, <2>2, <2>5, Zenon
<1>13. CASE tree = t /\ mirror' = [m EXCEPT !.wt = tree] /\ UNCHANGED commits /\ Succeed
  <2>1. op' = Free /\ UNCHANGED fp
    BY <1>4, <1>13, Zenon DEF Succeed
  <2>2. \A i \in Direct : Remembered(i)'
    BY <1>11, <1>13, <2>1, RememberedStays, Zenon DEF Direct
  <2>3. Truth'
    BY <1>4, <1>5, <1>11, <1>13, <2>1, <2>2, EndTruth, Zenon
  <2>4. ASSUME j \in Direct PROVE Tree(remote[Target])[j] = Absent
    <3>1. b = Target
      BY <1>1, <2>4, Zenon DEF Direct
    <3>2. Tree(mirror.refs[Target])[j] = Tree(remote[Target])[j]
      BY <1>4, <2>4, Zenon DEF Truth, Fetched
    <3> QED
      BY <1>3, <1>5, <1>8, <1>13, <3>1, <3>2, Zenon
  <2> QED
    BY <1>1, <2>3, <2>4, Zenon
<1> QED
  BY <1>6, <1>10, <1>12, <1>13, Zenon

\* A push lands.
LEMMA LandedTruth ==
    ASSUME IInv, Truth, pushCommitted \/ PushUnanswered, IInv',
           \A i \in Inventories : Unbroken(i)' => Unbroken(i),
           used'.lost = 0 => used.lost = 0 /\ ~PushUnanswered
    PROVE  Truth'
<1>1. PICK b, j, c : b = PushBranch[op.inv] /\ j = op.inv /\ c = op.commit
  BY Zenon
<1>2. op.pc = "push" /\ Accepted /\ Landed /\ UNCHANGED <<commits, mirror>>
  BY Zenon DEF pushCommitted, PushUnanswered
<1>3. /\ b \in Branches /\ c \in 1..Len(commits) /\ c \in Refs /\ c \in Anc(c)
      /\ op # Free /\ Pushable /\ j \in Inventories
      /\ remote' \in [Branches -> Refs] /\ remote'[b] = c /\ remote'[Target] # 0
      /\ Anc(remote[Target]) \subseteq Anc(remote[Target])'
  BY <1>1, <1>2, LandedFacts, Zenon
<1>4. /\ remote' = [remote EXCEPT ![b] = c] /\ mirror.refs[b] = c /\ c # 0
      /\ remote \in [Branches -> Refs] /\ Len(commits) \in Nat
  BY <1>1, <1>2, <1>3 DEF Landed, Pushable, PushTip, IInv, State, History
<1>5. \A d \in Branches \ {b} : remote'[d] = remote[d]
  BY <1>3, <1>4, Zenon
<1>6. History /\ History' /\ Extended /\ Refs' = Refs /\ \A d : Tree(d)' = Tree(d) /\ Anc(d)' = Anc(d)
  <2>1. Extended
    BY <1>2, <1>4 DEF Extended
  <2> QED
    BY <1>2, <2>1, Zenon DEF IInv, Refs, Tree, Anc
<1>7. Target \in Branches /\ Anc(remote[Target]) \subseteq Anc(remote[Target])'
  BY <1>3, Branch_Assumption, Zenon
<1>8. b # Target => Tree(remote[Target])' = Tree(remote[Target])
  BY <1>5, <1>6, <1>7, Zenon DEF Tree
<1>9. b = Target => Tree(remote[Target])' = Tree(c)
  BY <1>2, <1>3, Zenon DEF Tree
<1>10. b = Target <=> j \in Direct
  BY <1>1, <1>3, Zenon DEF Direct
<1>11. ASSUME NEW i \in Direct PROVE Roots(i)'
  <2> SUFFICES ASSUME NEW d \in Branches \ {Target}, NEW e \in Refs \ {0},
                      remote'[d] = e \/ mirror'.refs[d] = e
               PROVE  Rooted(e, i)'
    BY <1>6, Zenon DEF Roots
  <2>1. remote[d] = e \/ mirror.refs[d] = e
    BY <1>2, <1>3, <1>4, <1>5, Zenon
  <2>2. Rooted(e, i)
    BY <2>1, Zenon DEF Truth, Roots
  <2> QED
    BY <1>6, <1>7, <2>2, RootedStays, Zenon
<1>12. ASSUME NEW i \in Direct, i # j PROVE Tree(remote[Target])'[i] = Tree(remote[Target])[i]
  <2>1. CASE b # Target
    BY <1>8, <2>1, Zenon
  <2>2. CASE b = Target
    <3>1. Tree(c)[i] = Tree(remote[Target])[i]
      BY <1>1, <1>2, <1>10, <1>12, <2>2, Zenon DEF Truth, Pending
    <3> QED
      BY <1>9, <2>2, <3>1, Zenon
  <2> QED
    BY <2>1, <2>2, Zenon
<1>13. ASSUME NEW i \in Direct PROVE Remembered(i)'
  <2>1. fp \in [Inventories -> {None} \cup Payloads] /\ i \in Inventories
    BY Zenon DEF IInv, State, Direct
  <2>2. CASE PushUnanswered
    BY <2>2, Zenon DEF Remembered
  <2>3. CASE pushCommitted /\ i # j
    <3>1. UNCHANGED fp \/ fp' = [fp EXCEPT ![j] = op.payload]
      BY <1>1, <2>3, Zenon DEF pushCommitted, Succeed
    <3>2. fp'[i] = fp[i]
      BY <2>1, <2>3, <3>1, Zenon
    <3> QED
      BY <1>12, <2>1, <2>3, <3>2, RememberedStays, Zenon
  <2>4. CASE pushCommitted /\ i = j /\ op.kind = "export"
    <3>1. fp' = [fp EXCEPT ![i] = op.payload]
      BY <1>1, <2>4, Zenon DEF pushCommitted, Succeed
    <3>2. Tree(c)[i] = op.payload
      BY <1>1, <1>3, <2>4, Zenon DEF Pushable, Holds
    <3>3. Tree(remote[Target])'[i] = fp'[i]
      BY <1>9, <1>10, <2>1, <2>4, <3>1, <3>2, Zenon
    <3> QED
      BY <3>3, Zenon DEF Remembered
  <2>5. CASE pushCommitted /\ i = j /\ op.kind # "export"
    <3>1. want' = [want EXCEPT ![i] = Gone]
      BY <1>1, <2>5, Zenon DEF pushCommitted, Succeed
    <3>2. want'[i] = Gone
      BY <2>1, <3>1, Zenon DEF IInv, State
    <3> QED
      BY <3>2, Zenon DEF Remembered, Unbroken, Live
  <2> QED
    BY <2>2, <2>3, <2>4, <2>5, Zenon
<1>14. Private' /\ \A i \in Direct : Fetched(i)' /\ Pending(i)'
  <2>1. CASE pushCommitted
    <3>1. op'.pc = "idle"
      BY <2>1, Zenon DEF pushCommitted, Succeed, Free
    <3> QED
      BY <3>1, Zenon DEF Private, Fetched, Pending
  <2>2. CASE PushUnanswered
    <3>1. op' = op
      BY <2>2, Zenon DEF PushUnanswered
    <3>2. CASE j \in Direct
      <4>1. Tree(op.commit)' = Tree(remote[Target])' /\ op.commit \in Anc(remote[Target])'
        <5>1. op' = op /\ remote'[Target] = c /\ c = op.commit
          BY <1>1, <1>3, <1>10, <3>1, <3>2, Zenon
        <5>2. Anc(remote[Target])' = Anc(c)' /\ Tree(op.commit)' = Tree(remote[Target])'
          BY <5>1, Zenon DEF Tree, Anc
        <5>3. c \in Anc(remote[Target])'
          BY <1>3, <1>6, <5>2, Zenon
        <5> QED
          BY <5>1, <5>2, <5>3, Zenon
      <4>2. \A i \in Direct : op.inv = i /\ op.kind = "release" => Tree(op.commit)'[i] = Absent
        BY <1>1, <1>2, <1>6, <3>1, <3>2, Zenon DEF Truth, Pending
      <4> QED
        BY <1>2, <3>1, <4>1, <4>2, Zenon DEF Private, Fetched, Pending, Direct
    <3>3. CASE j \notin Direct
      BY <1>1, <1>2, <3>1, <3>3, Zenon DEF Private, Fetched, Pending, Direct
    <3> QED
      BY <3>2, <3>3, Zenon
  <2> QED
    BY <2>1, <2>2, Zenon
<1>15. Exacts'
  BY <1>2, <1>6, Zenon DEF Truth, Exacts, Kept, Exact, Files, Claims
<1> QED
  BY <1>2, <1>11, <1>13, <1>14, <1>15, Zenon DEF Truth, Direct

\* A push that was overtaken.
LEMMA SyncTruth ==
    ASSUME IInv, Accounts, Truth, syncRemoteBeforePush,
           \A i \in Inventories : Unbroken(i)' => Unbroken(i), used'.lost = 0 => used.lost = 0
    PROVE  Truth' /\ (op.inv \in Direct /\ op.kind = "release" /\ Succeed
                        => Tree(remote[Target])[op.inv] = Absent)
<1>1. PICK b, j, c, s : b = PushBranch[op.inv] /\ j = op.inv /\ c = op.commit /\ s = op.payload
  BY Zenon
<1>2. /\ op.pc = "push" /\ UNCHANGED <<commits, remote>>
      /\ mirror' = [mirror EXCEPT !.refs[b] = remote[b]]
      /\ Fail \/ (Succeed /\ c \in Anc(remote[b]))
  BY <1>1, Zenon DEF syncRemoteBeforePush, RemoteTip, verifySnapshotDelivered
<1>3. op # Free
  BY <1>2 DEF Free
<1>4. /\ j \in Inventories /\ b \in Branches /\ Pushable /\ mirror \in Mirrors
      /\ fp \in [Inventories -> {None} \cup Payloads]
  BY <1>1, <1>2, <1>3, Branch_Assumption, Zenon DEF IInv, UnderWay, Operations, State
<1>5. mirror'.refs = [mirror.refs EXCEPT ![b] = remote[b]] /\ mirror'.wt = mirror.wt
      /\ mirror'.index = mirror.index /\ op' = Free
  BY <1>2, <1>4, Zenon DEF Mirrors, Fail, Succeed
<1>6. \A i \in Direct, d \in Branches \ {Target}, e \in Refs \ {0} : mirror'.refs[d] = e => Rooted(e, i)
  <2> SUFFICES ASSUME NEW i \in Direct, NEW d \in Branches \ {Target}, NEW e \in Refs \ {0},
                      mirror'.refs[d] = e
               PROVE  Rooted(e, i)
    BY Zenon
  <2>1. remote[d] = e \/ mirror.refs[d] = e
    BY <1>4, <1>5, Zenon DEF Mirrors
  <2> QED
    BY <2>1, Zenon DEF Truth, Roots
<1>7. ASSUME j \in Direct, Succeed, ~Fail PROVE Tree(c)[j] = Tree(remote[Target])[j]
  <2>1. b = Target
    BY <1>1, <1>7, Zenon DEF Direct
  <2> QED
    BY <1>1, <1>2, <1>7, <2>1, Zenon DEF Truth, Pending
<1>8. Tree(remote[Target])' = Tree(remote[Target])
  BY <1>2, Zenon DEF Tree
<1>9. ASSUME NEW i \in Direct PROVE Remembered(i)'
  <2>1. i \in Inventories
    BY Zenon DEF Direct
  <2>2. CASE Succeed /\ ~Fail /\ i = j /\ op.kind = "export"
    <3>1. fp'[i] = s
      BY <1>1, <1>4, <2>2, Zenon DEF Succeed
    <3>2. Tree(c)[i] = s
      BY <1>1, <1>4, <2>2, Zenon DEF Pushable, Holds
    <3> QED
      BY <1>7, <1>8, <2>2, <3>1, <3>2, Zenon DEF Remembered
  <2>3. CASE ~(Succeed /\ ~Fail /\ i = j /\ op.kind = "export")
    <3>1. fp'[i] = fp[i]
      <4>1. CASE Fail
        BY <4>1, Zenon DEF Fail
      <4>2. CASE Succeed /\ ~Fail
        BY <1>1, <1>4, <2>1, <2>3, <4>2, Zenon DEF Succeed
      <4> QED
        BY <1>2, <4>1, <4>2, Zenon
    <3> QED
      BY <1>8, <2>1, <3>1, RememberedStays, Zenon
  <2> QED
    BY <2>2, <2>3, Zenon
<1>10. mirror'.wt = mirror'.index
  BY <1>5, Zenon DEF Truth
<1>11. Truth'
  BY <1>2, <1>5, <1>6, <1>9, <1>10, EndTruth, Zenon
<1>12. ASSUME j \in Direct, op.kind = "release", Succeed PROVE Tree(remote[Target])[j] = Absent
  <2>1. Tree(c)[j] = Absent
    BY <1>1, <1>2, <1>12, Zenon DEF Truth, Pending
  <2>2. b = Target
    BY <1>1, <1>12, Zenon DEF Direct
  <2>3. CASE c \in Anc(remote[b])
    BY <1>1, <1>2, <1>12, <2>1, <2>2, <2>3, Zenon DEF Truth, Pending
  <2>4. CASE Fail
    <3>1. want' = want /\ want' = [want EXCEPT ![j] = Gone]
      BY <1>1, <1>12, <2>4, Zenon DEF Fail, Succeed
    <3>2. want[j] = Gone /\ want[j] = Deleting
      BY <1>1, <1>4, <1>12, <3>1, Zenon DEF IInv, State, Accounts, Accounted
    <3> QED
      BY <3>2, Lifecycle_Assumption, Zenon
  <2> QED
    BY <1>2, <2>3, <2>4, Zenon
<1> QED
  BY <1>1, <1>11, <1>12, Zenon

\* The fetch takes the records of the clone branch.
LEMMA FetchTruth ==
    ASSUME IInv, Truth, Fetch,
           \A i \in Inventories : Unbroken(i)' => Unbroken(i), used'.lost = 0 => used.lost = 0
    PROVE  Truth'
<1>1. /\ op.pc = "fetch" /\ mirror' = openOrWarmMirror /\ op' = [op EXCEPT !.pc = "local"]
      /\ UNCHANGED <<commits, remote, fp>>
  BY Zenon DEF Fetch
<1>2. op # Free
  BY <1>1 DEF Free
<1>3. op'.pc = "local"
  BY <1>1, <1>2, Zenon DEF IInv, UnderWay, Operations
<1>4. mirror \in Mirrors /\ Target \in Branches
  BY Branch_Assumption, Zenon DEF IInv, State
<1>5. /\ mirror'.wt = mirror'.index /\ mirror'.refs[Target] = remote[Target]
      /\ \A d \in Branches \ {Target} : mirror'.refs[d] \in {mirror.refs[d], 0}
  <2>1. CASE mirror.warm
    <3>1. mirror' = [mirror EXCEPT !.refs[Target] = remote[Target]]
      BY <1>1, <2>1, Zenon DEF openOrWarmMirror
    <3>2. /\ mirror'.refs = [mirror.refs EXCEPT ![Target] = remote[Target]]
          /\ mirror'.wt = mirror.wt /\ mirror'.index = mirror.index
      BY <1>4, <3>1, Zenon DEF Mirrors
    <3> QED
      BY <1>4, <3>2, Zenon DEF Mirrors, Truth
  <2>2. CASE ~mirror.warm
    <3>1. mirror' = [warm |-> TRUE, refs |-> [Cold.refs EXCEPT ![Target] = remote[Target]], head |-> Target,
                     index |-> Tree(remote[Target]), wt |-> Tree(remote[Target])]
      BY <1>1, <2>2, Zenon DEF openOrWarmMirror
    <3>2. Cold.refs = [b \in Branches |-> 0]
      BY Zenon DEF Cold
    <3> QED
      BY <1>4, <3>1, <3>2, Zenon
  <2> QED
    BY <2>1, <2>2, Zenon
<1>6. \A i \in Direct, d \in Branches \ {Target}, c \in Refs \ {0} : mirror'.refs[d] = c => Rooted(c, i)
  BY <1>5, Zenon DEF Truth, Roots
<1>7. \A i \in Direct : Fetched(i)' /\ Pending(i)' /\ Remembered(i)'
  <2> SUFFICES ASSUME NEW i \in Direct PROVE Fetched(i)' /\ Pending(i)' /\ Remembered(i)'
    BY Zenon
  <2>1. Tree(remote[Target])' = Tree(remote[Target]) /\ i \in Inventories
    BY <1>1, Zenon DEF Tree, Direct
  <2>2. Fetched(i)'
    BY <1>1, <1>5, Zenon DEF Fetched, Tree
  <2>3. Pending(i)'
    BY <1>3, Zenon DEF Pending
  <2>4. Remembered(i)'
    BY <1>1, <2>1, RememberedStays, Zenon
  <2> QED
    BY <2>2, <2>3, <2>4, Zenon
<1>8. Private'
  BY <1>3, Zenon DEF Private
<1> QED
  BY <1>1, <1>5, <1>6, <1>7, <1>8, QuietTruth, Zenon

\* The step leaves the repository alone and at most starts or ends an operation.
LEMMA StandingTruth ==
    ASSUME IInv, Truth, UNCHANGED <<commits, remote, mirror, fp>>,
           op' = op \/ op'.pc \in {"idle", "fetch"},
           \A i \in Inventories : Unbroken(i)' => Unbroken(i), used'.lost = 0 => used.lost = 0
    PROVE  Truth'
<1>1. \A i \in Direct : Remembered(i)'
  <2>1. Tree(remote[Target])' = Tree(remote[Target])
    BY Zenon DEF Tree
  <2> QED
    BY <2>1, RememberedStays, Zenon DEF Direct
<1>2. Private' /\ \A i \in Direct : Fetched(i)' /\ Pending(i)'
  <2>1. CASE op' = op
    BY <2>1, Zenon DEF Truth, Private, Fetched, Pending, Tree, Anc
  <2>2. CASE op'.pc \in {"idle", "fetch"}
    BY <2>2, Zenon DEF Private, Fetched, Pending
  <2> QED
    BY <2>1, <2>2, Zenon
<1>3. \A i \in Direct, d \in Branches \ {Target}, c \in Refs \ {0} : mirror'.refs[d] = c => Rooted(c, i)
  BY Zenon DEF Truth, Roots
<1>4. mirror'.wt = mirror'.index
  BY Zenon DEF Truth
<1> QED
  BY <1>1, <1>2, <1>3, <1>4, QuietTruth, Zenon

\* A restart forgets the fingerprints and maybe the mirror.
LEMMA RestartTruth ==
    ASSUME IInv, Truth, Restart, \A i \in Inventories : Unbroken(i)' => Unbroken(i)
    PROVE  Truth'
<1>1. /\ fp' = [i \in Inventories |-> None] /\ op' = Free /\ mirror' \in {mirror, Cold}
      /\ UNCHANGED <<commits, remote>>
  BY Zenon DEF Restart
<1>2. Cold.wt = Cold.index /\ \A b \in Branches : Cold.refs[b] = 0
  BY Zenon DEF Cold
<1>3. mirror'.wt = mirror'.index
  BY <1>1, <1>2, Zenon DEF Truth
<1>4. \A i \in Direct, d \in Branches \ {Target}, c \in Refs \ {0} : mirror'.refs[d] = c => Rooted(c, i)
  BY <1>1, <1>2, Zenon DEF Truth, Roots
<1>5. \A i \in Direct : Remembered(i)'
  BY <1>1, Zenon DEF Remembered, Direct
<1> QED
  BY <1>1, <1>3, <1>4, <1>5, EndTruth, Zenon

----------------------------------------------------------------------------
(* What others push. *)

\* The clone branch keeps the records of direct mode, and every other branch its roots.
LEMMA OthersTruth ==
    ASSUME IInv, IInv', Truth, Extended, NEW n, n = Len(commits) + 1, Len(commits') = n,
           UNCHANGED <<mirror, fp, want, born, op>>, used'.lost = 0 => used.lost = 0,
           NEW tree, Tree(n)' = tree, \A i \in Inventories : Kept(i) => Exact(tree, i),
           Anc(remote[Target]) \subseteq Anc(remote[Target])',
           \A i \in Direct : Tree(remote[Target])'[i] = Tree(remote[Target])[i],
           \A d \in Branches : \A x \in Anc(remote[d])' : x = n \/ \E e \in Branches : x \in Anc(remote[e]),
           \A i \in Direct, d \in Branches \ {Target} :
              remote'[d] \in {0, remote[d]} \/ (remote'[d] = n /\ Rooted(n, i)')
    PROVE  Truth'
<1>1. \A i \in Inventories : (Unbroken(i)' => Unbroken(i)) /\ (Kept(i)' => Kept(i))
  BY Zenon DEF Kept, Unbroken, Live
<1>2. History /\ History' /\ Len(commits) \in Nat /\ n \notin Refs
  BY DEF IInv, History, Refs
<1>3. mirror \in Mirrors /\ remote \in [Branches -> Refs] /\ Target \in Branches
  BY Branch_Assumption, Zenon DEF IInv, State
<1>4. Exacts'
  BY <1>1, <1>2, ExactsStay, Zenon DEF Truth
<1>5. ASSUME NEW i \in Direct PROVE Roots(i)'
  <2> SUFFICES ASSUME NEW d \in Branches \ {Target}, NEW c \in Refs' \ {0},
                      remote'[d] = c \/ mirror'.refs[d] = c
               PROVE  Rooted(c, i)'
    BY Zenon DEF Roots
  <2>1. \/ c = n /\ Rooted(n, i)'
        \/ c \in Refs \ {0} /\ (remote[d] = c \/ mirror.refs[d] = c)
    <3>1. CASE mirror'.refs[d] = c
      BY <1>3, <3>1, Zenon DEF Mirrors
    <3>2. CASE remote'[d] = c
      <4>1. remote'[d] \in {0, remote[d]} \/ (remote'[d] = n /\ Rooted(n, i)')
        BY Zenon
      <4>2. remote[d] \in Refs
        BY <1>3, Zenon
      <4> QED
        BY <3>2, <4>1, <4>2, Zenon
    <3> QED
      BY <3>1, <3>2, Zenon
  <2>2. CASE c = n /\ Rooted(n, i)'
    BY <2>2, Zenon
  <2>3. CASE c \in Refs \ {0} /\ (remote[d] = c \/ mirror.refs[d] = c)
    <3>1. Rooted(c, i)
      BY <2>3, Zenon DEF Truth, Roots
    <3> QED
      BY <1>2, <2>3, <3>1, RootedStays, Zenon
  <2> QED
    BY <2>1, <2>2, <2>3, Zenon
<1>6. ASSUME NEW i \in Direct PROVE Fetched(i)'
  <2> SUFFICES ASSUME op.pc = "local" PROVE Tree(mirror.refs[Target])'[i] = Tree(remote[Target])'[i]
    BY Zenon DEF Fetched
  <2>1. op # Free
    BY DEF Free
  <2>2. PICK c \in Refs \ {0} : c = mirror.refs[Target]
    BY <1>3, <2>1, Zenon DEF Mirrors, IInv, UnderWay, State
  <2>3. Tree(c)' = Tree(mirror.refs[Target])'
    BY <2>2, Zenon DEF Tree
  <2>4. Tree(c)' = Tree(c) /\ Tree(c)[i] = Tree(remote[Target])[i]
    BY <1>2, <2>2, ExtendedFacts, Zenon DEF Truth, Fetched
  <2> QED
    BY <2>3, <2>4, Zenon
<1>7. ASSUME op.pc = "push", op.inv \in Direct, NEW d \in Branches, op.commit \in Anc(remote[d])'
      PROVE  op.commit \in Anc(remote[Target])
  <2>1. op # Free
    BY <1>7 DEF Free
  <2>2. op.commit \in Refs
    BY <1>2, <1>7, <2>1 DEF IInv, UnderWay, Pushable, Refs
  <2>3. \E e \in Branches : op.commit \in Anc(remote[e])
    BY <1>2, <1>7, <2>2, Zenon
  <2> QED
    BY <1>7, <2>3, Zenon DEF Truth, Private
<1>8. Private'
  BY <1>7, Zenon DEF Private, Direct
<1>9. ASSUME NEW i \in Direct PROVE Pending(i)'
  <2> SUFFICES ASSUME op.pc = "push", op.inv \in Direct
               PROVE  /\ op.inv # i \/ op.commit \in Anc(remote[Target])' =>
                            Tree(op.commit)'[i] = Tree(remote[Target])'[i]
                      /\ op.inv = i /\ op.kind = "release" => Tree(op.commit)'[i] = Absent
    BY Zenon DEF Pending, Direct
  <2>1. op # Free
    BY DEF Free
  <2>2. PICK c \in Refs \ {0} : c = op.commit
    BY <1>2, <2>1 DEF IInv, UnderWay, Pushable, Refs
  <2>3. Tree(c)' = Tree(c) /\ Tree(c)' = Tree(op.commit)'
    BY <1>2, <2>2, ExtendedFacts, Zenon DEF Tree
  <2>4. /\ op.inv # i \/ c \in Anc(remote[Target]) => Tree(c)[i] = Tree(remote[Target])[i]
        /\ op.inv = i /\ op.kind = "release" => Tree(c)[i] = Absent
    BY <2>2, Zenon DEF Truth, Pending
  <2> QED
    BY <1>3, <1>7, <2>2, <2>3, <2>4, Zenon
<1>10. \A i \in Direct : Remembered(i)'
  BY <1>1, RememberedStays, Zenon DEF Direct
<1> QED
  BY <1>4, <1>5, <1>6, <1>8, <1>9, <1>10, Zenon DEF Truth, Direct

\* A push by others that touches no name.
LEMMA OutsidePushTruth ==
    ASSUME IInv, IInv', Truth, NEW b \in Branches, OutsidePush(b), used'.lost = 0 => used.lost = 0
    PROVE  Truth'
<1>1. PICK n, c, t, P : n = Len(commits) + 1 /\ c = remote[b] /\ t = Tree(c) /\ P = {c}
  BY Zenon
<1>2. /\ remote \in [Branches -> Refs] /\ remote[Target] # 0 /\ Target \in Branches /\ History
      /\ UNCHANGED <<mirror, fp, want, born, op>>
  BY Branch_Assumption, Zenon DEF IInv, State, OutsidePush
<1>3. c \in Refs \ {0} /\ c \in 1..Len(commits) /\ 0 \in Refs
  BY <1>1, <1>2 DEF OutsidePush, Refs, History
<1>4. t \in Trees
  BY <1>1, <1>3, TreeFacts, Zenon DEF IInv
<1>5. P \in SUBSET Refs /\ P \ {0} # {} /\ commits' = NewCommit(t, P)
  BY <1>1, <1>3, Zenon DEF OutsidePush
<1>6. /\ History' /\ Extended /\ Len(commits') = n /\ Tree(n)' = t /\ Anc(n)' = Ancestors(P) \cup {n}
  BY <1>1, <1>2, <1>4, <1>5, NewCommitFacts, Zenon
<1>7. Anc(n)' = Anc(c) \cup {n}
  BY <1>1, <1>6, Zenon DEF Ancestors
<1>8. remote' = [remote EXCEPT ![b] = n]
  BY <1>6, Zenon DEF OutsidePush
<1>9. \A e \in Refs : Anc(e)' = Anc(e) /\ (e # 0 => Tree(e)' = Tree(e))
  BY <1>2, <1>6, ExtendedFacts, Zenon
<1>10. ASSUME NEW d \in Branches
       PROVE  \/ d = b /\ remote'[d] = n /\ Anc(remote[d])' = Anc(remote[d]) \cup {n}
                 /\ Tree(remote[d])' = Tree(remote[d])
              \/ d # b /\ remote'[d] = remote[d] /\ Anc(remote[d])' = Anc(remote[d])
                 /\ (remote[d] # 0 => Tree(remote[d])' = Tree(remote[d]))
  <2>1. CASE d = b
    <3>1. remote'[d] = n
      BY <1>2, <1>8, <2>1, Zenon
    <3>2. Anc(n)' = Anc(remote[d])' /\ Tree(n)' = Tree(remote[d])'
      BY <3>1, Zenon DEF Anc, Tree
    <3> QED
      BY <1>1, <1>6, <1>7, <2>1, <3>1, <3>2, Zenon
  <2>2. CASE d # b
    <3>1. PICK e \in Refs : e = remote[d]
      BY <1>2, Zenon
    <3>2. remote'[d] = e
      BY <1>2, <1>8, <2>2, <3>1, Zenon
    <3>3. Anc(e)' = Anc(remote[d])' /\ Tree(e)' = Tree(remote[d])'
      BY <3>2, Zenon DEF Anc, Tree
    <3> QED
      BY <1>9, <2>2, <3>1, <3>2, <3>3, Zenon
  <2> QED
    BY <2>1, <2>2, Zenon
<1>11. \A i \in Inventories : Kept(i) => Exact(t, i)
  BY <1>1, <1>3, Zenon DEF Truth, Exacts
<1>12. Anc(remote[Target]) \subseteq Anc(remote[Target])' /\ Tree(remote[Target])' = Tree(remote[Target])
  BY <1>2, <1>10, Zenon
<1>13. \A d \in Branches : \A x \in Anc(remote[d])' : x = n \/ \E e \in Branches : x \in Anc(remote[e])
  <2> SUFFICES ASSUME NEW d \in Branches, NEW x \in Anc(remote[d])'
               PROVE  x = n \/ \E e \in Branches : x \in Anc(remote[e])
    BY Zenon
  <2>1. Anc(remote[d])' \subseteq Anc(remote[d]) \cup {n}
    BY <1>10, Zenon
  <2> QED
    BY <2>1, Zenon
<1>14. ASSUME NEW i \in Direct, NEW d \in Branches \ {Target}
       PROVE  remote'[d] \in {0, remote[d]} \/ (remote'[d] = n /\ Rooted(n, i)')
  <2>1. CASE d # b
    BY <1>10, <2>1, Zenon
  <2>2. CASE d = b
    <3>1. Rooted(c, i)
      BY <1>1, <1>3, <2>2, Zenon DEF Truth, Roots
    <3>2. Tree(n)'[i] = Tree(c)[i]
      BY <1>1, <1>6, Zenon
    <3>3. Rooted(n, i)'
      BY <1>2, <1>3, <1>6, <1>7, <1>12, <3>1, <3>2, RootedGrows, Zenon
    <3> QED
      BY <1>10, <2>2, <3>3, Zenon
  <2> QED
    BY <2>1, <2>2, Zenon
<1> QED
  BY <1>1, <1>2, <1>6, <1>11, <1>12, <1>13, <1>14, OthersTruth, Zenon

\* A merge request that is merged: its branch left the records of direct mode as it found
\* them, so the clone branch keeps its own.
LEMMA MergeTruth ==
    ASSUME IInv, IInv', Truth, NEW b \in Branches, Merge(b), used'.lost = 0 => used.lost = 0
    PROVE  Truth'
<1>1. PICK n, o, c, a : n = Len(commits) + 1 /\ o = remote[Target] /\ c = remote[b] /\ a = MergeBase(o, c)
  BY Zenon
<1>2. PICK ours, theirs, base, P : /\ ours = Tree(o) /\ theirs = Tree(c) /\ base = Tree(a)
                                   /\ P = {o, c}
  BY Zenon
<1>3. PICK t : t = [x \in Names |-> IF ours[x] = base[x] THEN theirs[x] ELSE ours[x]]
  BY Zenon
<1>4. /\ remote \in [Branches -> Refs] /\ Target \in Branches /\ History
      /\ UNCHANGED <<mirror, fp, want, born, op>> /\ b # Target
  BY Branch_Assumption, Zenon DEF IInv, State, Merge
<1>5. /\ o \in Refs \ {0} /\ o \in 1..Len(commits) /\ c \in Refs \ {0} /\ c \in 1..Len(commits)
      /\ Len(commits) \in Nat
  <2>1. o \in Refs /\ o # 0 /\ c \in Refs /\ c # 0
    BY <1>1, <1>4, Zenon DEF Merge, IInv, State
  <2>2. Len(commits) \in Nat
    BY <1>4 DEF History
  <2> QED
    BY <2>1, <2>2 DEF Refs
<1>6. a \in Anc(o) /\ a \in Anc(c) /\ a \in 1..Len(commits) /\ \A e \in Anc(o) \cap Anc(c) : e <= a
  BY <1>1, <1>5, MergeBaseFacts, Zenon
<1>7. ours \in Trees /\ theirs \in Trees /\ base \in Trees
  BY <1>2, <1>5, <1>6, TreeFacts, Zenon DEF IInv
<1>8. /\ \A x \in Names : ours[x] # base[x] => theirs[x] \in {base[x], ours[x]}
      /\ commits' = NewCommit(t, P)
  BY <1>1, <1>2, <1>3, Zenon DEF Merge
<1>9. PICK kept \in {c, 0} : remote' = [remote EXCEPT ![Target] = Len(commits'), ![b] = kept]
  BY <1>1, Zenon DEF Merge
<1>10. t \in Trees /\ P \in SUBSET Refs /\ P \ {0} # {}
  BY <1>2, <1>3, <1>5, <1>7, Zenon DEF Trees, Names
<1>11. /\ History' /\ Extended /\ Len(commits') = n /\ Tree(n)' = t /\ Anc(n)' = Ancestors(P) \cup {n}
  BY <1>1, <1>4, <1>8, <1>10, NewCommitFacts, Zenon
<1>12. Anc(n)' = (Anc(o) \cup Anc(c)) \cup {n}
  BY <1>2, <1>11, Zenon DEF Ancestors
<1>13. /\ remote'[Target] = n /\ remote'[b] \in {c, 0}
       /\ \A d \in Branches \ {Target, b} : remote'[d] = remote[d]
  BY <1>4, <1>9, <1>11, Zenon
<1>14. Anc(remote[Target])' = Anc(n)' /\ Tree(remote[Target])' = Tree(n)'
  BY <1>13, Zenon DEF Anc, Tree
<1>15. ASSUME NEW i \in Inventories
       PROVE  /\ theirs[i] = base[i] => t[i] = ours[i]
              /\ Exact(ours, i) /\ Exact(theirs, i) /\ Exact(base, i) => Exact(t, i)
  BY <1>3, <1>7, <1>8, MergedFacts, SMT
<1>16. \A i \in Inventories : Kept(i) => Exact(t, i)
  BY <1>2, <1>5, <1>6, <1>15, Zenon DEF Truth, Exacts
<1>17. Anc(remote[Target]) \subseteq Anc(remote[Target])'
  BY <1>1, <1>12, <1>14, Zenon
<1>18. ASSUME NEW i \in Direct PROVE Tree(remote[Target])'[i] = Tree(remote[Target])[i]
  <2>1. Rooted(c, i)
    BY <1>1, <1>4, <1>5, Zenon DEF Truth, Roots
  <2>2. PICK r \in Anc(c) \cap Anc(o) : \A d \in Anc(c) : d >= r => Tree(d)[i] = Tree(c)[i]
    BY <1>1, <2>1, Zenon DEF Rooted
  <2>3. r <= a
    BY <1>6, <2>2, Zenon
  <2>4. a >= r
    <3>1. r \in Nat /\ a \in Nat
      BY <1>4, <1>5, <1>6, <2>2 DEF History
    <3> QED
      BY <2>3, <3>1, Zenon
  <2>5. Tree(a)[i] = Tree(c)[i]
    BY <1>6, <2>2, <2>4, Zenon
  <2> QED
    BY <1>1, <1>2, <1>11, <1>14, <1>15, <2>5, Zenon DEF Direct
<1>19. ASSUME NEW d \in Branches, NEW x \in Anc(remote[d])'
       PROVE  x = n \/ \E e \in Branches : x \in Anc(remote[e])
  <2>1. CASE d = Target
    BY <1>1, <1>4, <1>12, <1>14, <1>19, <2>1, Zenon
  <2>2. CASE d # Target
    <3>1. PICK e : e = remote'[d]
      BY Zenon
    <3>2. e = 0 \/ (e = remote[d] /\ e \in Refs)
      BY <1>1, <1>4, <1>13, <2>2, <3>1, Zenon
    <3>3. Anc(e)' = Anc(remote[d])'
      BY <3>1, Zenon DEF Anc
    <3>4. CASE e = 0
      BY <1>19, <3>3, <3>4, Zenon DEF Anc
    <3>5. CASE e = remote[d] /\ e \in Refs
      <4>1. Anc(e)' = Anc(e)
        BY <1>4, <1>11, <3>5, ExtendedFacts, Zenon
      <4> QED
        BY <1>19, <3>3, <3>5, <4>1, Zenon
    <3> QED
      BY <3>2, <3>4, <3>5, Zenon
  <2> QED
    BY <2>1, <2>2, Zenon
<1>20. \A i \in Direct, d \in Branches \ {Target} :
          remote'[d] \in {0, remote[d]} \/ (remote'[d] = n /\ Rooted(n, i)')
  BY <1>1, <1>13, Zenon
<1> QED
  BY <1>1, <1>4, <1>11, <1>16, <1>17, <1>18, <1>19, <1>20, OthersTruth, Zenon

----------------------------------------------------------------------------
(* The truth of the records, as an invariant. *)

\* At the start the one tree is empty.
LEMMA InitTInv ==
    ASSUME Init
    PROVE  TInv
<1>1. IInv /\ Target \in Branches
  BY InitIInv, Branch_Assumption, Zenon
<1>2. /\ commits = <<[tree |-> EmptyTree, anc |-> {1}]>> /\ mirror = Cold /\ op = Free
      /\ remote = [b \in Branches |-> IF b = Target THEN 1 ELSE 0]
      /\ fp = [i \in Inventories |-> None] /\ born = [i \in Inventories |-> 1]
      /\ used = [edits |-> 0, deletions |-> 0, outside |-> 0, failures |-> 0, lost |-> 0, dirty |-> 0]
  BY Zenon DEF Init
<1>3. Accounts
  BY <1>2 DEF Accounts, Accounted, Counts, Free
<1>4. Len(commits) = 1 /\ Tree(1) = EmptyTree
  BY <1>2, Zenon DEF Tree
<1>5. Exacts
  <2> SUFFICES ASSUME NEW i \in Inventories, NEW c \in 1..Len(commits) PROVE Exact(Tree(c), i)
    BY Zenon DEF Exacts
  <2>1. Tree(c) = EmptyTree
    BY <1>4
  <2>2. \A x \in Names : EmptyTree[x] = Absent
    BY Zenon DEF EmptyTree
  <2>3. Paths \subseteq Names /\ i \in Names /\ Absent # i
    BY Names_Disjoint, Zenon DEF Names
  <2> QED
    BY <2>1, <2>2, <2>3, Zenon DEF Exact, Files, Claims
<1>6. op.pc = "idle"
  BY <1>2, Zenon DEF Free
<1>7. Private /\ \A i \in Direct : Fetched(i) /\ Pending(i)
  BY <1>6, Zenon DEF Private, Fetched, Pending
<1>8. \A i \in Direct : Roots(i) /\ Remembered(i)
  BY <1>2, Zenon DEF Roots, Remembered, Cold, Direct
<1>9. mirror.wt = mirror.index
  BY <1>2, Zenon DEF Cold
<1> QED
  BY <1>1, <1>3, <1>5, <1>7, <1>8, <1>9, Zenon DEF TInv, Truth

\* Every step that leaves the mirror clean keeps it.
LEMMA TruthStep ==
    ASSUME IInv, Accounts, Truth, [Next]_vars, used'.dirty = 0
    PROVE  Truth'
<1>1. IInv' /\ ~WriteFails /\ (used'.lost = 0 => used.lost = 0 /\ ~PushUnanswered)
  BY NextIInv, CountsGrow, Zenon DEF Accounts
<1>2. \A i \in Inventories : Unbroken(i)' => Unbroken(i)
  BY WantsStep, Zenon
<1>3. CASE \E i \in Inventories : \/ shouldSkip(i) \/ ExportFilesWithBranch(i)
                                  \/ DeleteExportWithBranch(i) \/ Edit(i) \/ Delete(i)
  <2>1. UNCHANGED <<commits, remote, mirror, fp>> /\ (op' = op \/ op'.pc \in {"idle", "fetch"})
    <3>1. CASE \E i \in Inventories : shouldSkip(i) \/ Edit(i) \/ Delete(i)
      BY <3>1, Zenon DEF shouldSkip, Edit, Delete
    <3>2. CASE \E i \in Inventories : ExportFilesWithBranch(i) \/ DeleteExportWithBranch(i)
      BY <3>2 DEF ExportFilesWithBranch, DeleteExportWithBranch
    <3> QED
      BY <1>3, <3>1, <3>2, Zenon
  <2> QED
    BY <1>1, <1>2, <2>1, StandingTruth, Zenon
<1>4. CASE RemoteFails \/ UNCHANGED vars
  <2>1. UNCHANGED <<commits, remote, mirror, fp>> /\ (op' = op \/ op'.pc \in {"idle", "fetch"})
    BY <1>4 DEF RemoteFails, Fail, Free, vars
  <2> QED
    BY <1>1, <1>2, <2>1, StandingTruth, Zenon
<1>5. CASE Fetch
  BY <1>1, <1>2, <1>5, FetchTruth, Zenon
<1>6. CASE CheckoutFails \/ ClaimRefused \/ StatusClean \/ ReleaseRefused
  BY <1>1, <1>2, <1>6, LocalEndTruth, Zenon
<1>7. CASE exportRemoteInWorkdir
  BY <1>1, <1>2, <1>7, ExportTruth, Zenon
<1>8. CASE pushCommitted \/ PushUnanswered
  BY <1>1, <1>2, <1>8, LandedTruth, Zenon
<1>9. CASE syncRemoteBeforePush
  BY <1>1, <1>2, <1>9, SyncTruth, Zenon
<1>10. CASE deleteRemote
  BY <1>1, <1>2, <1>10, ReleaseTruth, Zenon
<1>11. CASE Restart
  BY <1>2, <1>11, RestartTruth, Zenon
<1>12. CASE \E b \in Branches : OutsidePush(b) \/ Merge(b)
  BY <1>1, <1>12, OutsidePushTruth, MergeTruth, Zenon
<1> QED
  BY <1>1, <1>3, <1>4, <1>5, <1>6, <1>7, <1>8, <1>9, <1>10, <1>11, <1>12, Zenon DEF Next, Operation

\* ... and so the invariant is inductive.
LEMMA NextTInv ==
    ASSUME TInv, [Next]_vars
    PROVE  TInv'
<1>1. IInv' /\ Accounts' /\ (used'.dirty = 0 => used.dirty = 0)
  BY NextIInv, CountsGrow, WantsStep, Zenon DEF TInv, Accounts
<1> QED
  BY <1>1, TruthStep, Zenon DEF TInv

----------------------------------------------------------------------------
(* Theorems. *)

\* What records, fingerprints and the branches of merge requests hold stays true, as TInv
\* says, until an export dies while it writes.
THEOREM RecordsTellTheTruth == Spec => []TInv
BY InitTInv, NextTInv, PTL DEF Spec

\* What the fingerprint skips is on the branch: fingerprintTracker never hides that the
\* snapshot is missing, whatever people push, merge requests of others bring in and
\* pushes fail.
THEOREM SkipsAreRight == Spec => []SkipIsRight
<1>1. TInv => SkipIsRight
  <2> SUFFICES ASSUME TInv, NEW i \in Direct, fp[i] # None, Live(i), born[i] = 1,
                      used.lost = 0, used.dirty = 0
               PROVE  Holds(remote[Target], i, fp[i])
    BY Zenon DEF SkipIsRight
  <2>1. Truth /\ IInv /\ i \in Inventories /\ Unbroken(i) /\ Kept(i)
    BY Zenon DEF TInv, Direct, Unbroken, Kept
  <2>2. Tree(remote[Target])[i] = fp[i]
    BY <2>1, Zenon DEF Truth, Remembered
  <2>3. remote[Target] \in 1..Len(commits)
    BY <2>1, Branch_Assumption DEF IInv, State, Refs, History
  <2>4. Exact(Tree(remote[Target]), i)
    BY <2>1, <2>3, Zenon DEF Truth, Exacts
  <2>5. fp[i] \in Payloads /\ fp[i] # Absent
    BY <2>1, Payloads_Assumption, Zenon DEF IInv, State
  <2> QED
    BY <2>2, <2>4, <2>5, Zenon DEF Holds, Exact, Files, Claims
<1> QED
  BY <1>1, RecordsTellTheTruth, PTL

\* Every exported file on a remote branch is in the record of its inventory, so that a
\* later export or release removes it: also where merge requests brought files and
\* records together.
THEOREM FilesAreRecorded == Spec => []NoOrphans
<1>1. TInv => NoOrphans
  <2> SUFFICES ASSUME TInv, used.dirty = 0, NEW c \in Tips, NEW p \in Paths, NEW i, i = Tree(c)[p],
                      i \notin Retain \cup {Absent}
               PROVE  p \in Claims(Tree(c), i)
    BY Zenon DEF NoOrphans
  <2>1. Truth /\ IInv
    BY Zenon DEF TInv
  <2>2. c \in 1..Len(commits)
    BY <2>1 DEF IInv, State, Refs, History, Tips
  <2>3. i \in Inventories
    BY <2>1, <2>2, TreeFacts, Zenon DEF IInv, Trees
  <2>4. Exact(Tree(c), i)
    BY <2>1, <2>2, <2>3, Zenon DEF Truth, Exacts, Kept
  <2> QED
    BY <2>4, Zenon DEF Exact, Files
<1> QED
  BY <1>1, RecordsTellTheTruth, PTL

\* A release that ends has taken the record off the branch.
LEMMA Released ==
    ASSUME TInv, [Next]_vars, NEW i \in Direct, want[i] = Deleting, want'[i] = Gone, used.dirty = 0
    PROVE  Tree(remote'[Target])[i] = Absent
<1>1. /\ IInv /\ Accounts /\ Truth /\ i \in Inventories /\ Deleting # Gone
      /\ want \in [Inventories -> {Deleting, Gone} \cup Payloads]
  BY Lifecycle_Assumption, Zenon DEF TInv, Direct, IInv, State
<1>2. \A j \in Inventories : Unbroken(j)' => Unbroken(j)
  BY <1>1, WantsStep, Zenon
<1>3. used' \in Counts /\ (used'.lost = 0 => used.lost = 0 /\ ~PushUnanswered)
  BY <1>1, CountsGrow, Zenon DEF Accounts
<1>4. want' # want
  BY <1>1, Zenon
<1>5. ~\E j \in Inventories : \/ shouldSkip(j) \/ ExportFilesWithBranch(j)
                              \/ DeleteExportWithBranch(j) \/ Edit(j) \/ Delete(j)
  <2>1. ASSUME NEW j \in Inventories, NEW s, want' = [want EXCEPT ![j] = s], j = i => s # Gone
        PROVE  FALSE
    BY <1>1, <2>1, Zenon
  <2>2. ASSUME NEW j \in Inventories, Edit(j) PROVE FALSE
    <3>1. PICK s : want' = [want EXCEPT ![j] = s]
      BY <2>2, Zenon DEF Edit
    <3>2. j # i
      BY <2>2, Zenon DEF Edit
    <3> QED
      BY <2>1, <3>1, <3>2, Zenon
  <2>3. ASSUME NEW j \in Inventories, Delete(j) PROVE FALSE
    BY <1>1, <2>1, <2>3, Zenon DEF Delete
  <2> QED
    BY <1>4, <2>2, <2>3, Zenon DEF shouldSkip, ExportFilesWithBranch, DeleteExportWithBranch
<1>6. /\ ~Fetch /\ ~CheckoutFails /\ ~ClaimRefused /\ ~WriteFails /\ ~exportRemoteInWorkdir
      /\ ~PushUnanswered /\ ~RemoteFails /\ ~ReleaseRefused /\ ~Restart /\ ~UNCHANGED vars
      /\ \A b \in Branches : ~OutsidePush(b) /\ ~Merge(b)
  BY <1>4, Zenon DEF Fetch, CheckoutFails, ClaimRefused, WriteFails, exportRemoteInWorkdir, Commit, Fail,
     PushUnanswered, RemoteFails, ReleaseRefused, Restart, vars, OutsidePush, Merge
<1>7. ASSUME Succeed, op # Free PROVE op.kind = "release" /\ op.inv = i
  BY <1>1, <1>4, <1>7, Zenon DEF Succeed, IInv, UnderWay, Operations
<1>8. CASE StatusClean
  <2>1. op # Free /\ op.kind # "release" /\ Succeed
    BY <1>8 DEF StatusClean, Free
  <2> QED
    BY <1>7, <2>1, Zenon
<1>9. CASE pushCommitted
  <2>1. op # Free /\ op.pc = "push" /\ Accepted /\ Landed /\ UNCHANGED commits /\ Succeed
    BY <1>9 DEF pushCommitted, Free
  <2>2. op.inv = i /\ op.kind = "release" /\ PushBranch[op.inv] = Target
    BY <1>7, <2>1, Zenon DEF Direct
  <2>3. remote'[Target] = op.commit
    BY <1>1, <2>1, <2>2, LandedFacts, Zenon
  <2>4. Tree(op.commit)[i] = Absent
    BY <1>1, <2>1, <2>2, Zenon DEF Truth, Pending
  <2> QED
    BY <2>3, <2>4, Zenon
<1>10. CASE syncRemoteBeforePush
  <2>1. op # Free /\ UNCHANGED remote /\ (Succeed \/ Fail)
    BY <1>10 DEF syncRemoteBeforePush, Free
  <2>2. Succeed
    BY <1>4, <2>1, Zenon DEF Fail
  <2> QED
    BY <1>1, <1>2, <1>3, <1>7, <1>10, <2>1, <2>2, SyncTruth, Zenon
<1>11. CASE deleteRemote
  <2>1. op # Free /\ UNCHANGED remote
    BY <1>11 DEF deleteRemote, Free
  <2>2. Succeed
    BY <1>4, <1>11, Zenon DEF deleteRemote, Commit
  <2> QED
    BY <1>1, <1>2, <1>3, <1>7, <1>11, <2>1, <2>2, ReleaseTruth, Zenon
<1> QED
  BY <1>5, <1>6, <1>8, <1>9, <1>10, <1>11, Zenon DEF Next, Operation

\* The finalizer lets an inventory go only when its record has left the branch, though
\* earlier attempts of deleteRemote died between commit and push.
THEOREM ReleasesTakeRecords == Spec => ReleasedIsGone
<1>1. TInv /\ [Next]_vars =>
        [\A i \in Direct : want[i] = Deleting /\ want'[i] = Gone /\ used.dirty = 0 =>
            Tree(remote'[Target])[i] = Absent]_vars
  BY Released, Zenon
<1> QED
  BY <1>1, RecordsTellTheTruth, PTL DEF Spec, ReleasedIsGone
============================================================================
