-------------------------- MODULE GitExportProofs --------------------------
(***************************************************************************)
(* What GitExport guarantees for every number of inventories, paths and    *)
(* branches and whatever the bounds on the surroundings: the history only  *)
(* grows, what is reported is in it, and no commit of the operator takes    *)
(* what another inventory claims.                                          *)
(***************************************************************************)
EXTENDS GitExport, TLAPS

Trees ==
    {t \in [Names -> ({Absent} \cup Payloads) \cup Inventories] :
        /\ \A i \in Inventories : t[i] \in {Absent} \cup Payloads
        /\ \A p \in Paths : t[p] \in {Absent} \cup Inventories}

Refs == 0..Len(commits)

\* Ancestry is reflexive, transitive, and goes back in time, to the first commit.
History ==
    /\ commits \in Seq([tree : Trees, anc : SUBSET Nat])
    /\ \A c \in 1..Len(commits) : /\ c \in Anc(c) /\ 1 \in Anc(c) /\ Anc(c) \subseteq 1..c
                                  /\ \A d \in Anc(c) : Anc(d) \subseteq Anc(c)

Mirrors == [warm : BOOLEAN, refs : [Branches -> Refs], head : Branches, index : Trees, wt : Trees]

State ==
    /\ remote \in [Branches -> Refs] /\ remote[Target] # 0
    /\ mirror \in Mirrors
    /\ mirror.warm => mirror.refs[Target] # 0 /\ mirror.refs[mirror.head] # 0
    /\ fp \in [Inventories -> {None} \cup Payloads]
    /\ reported \in [Inventories -> {None} \cup Payloads]
    /\ want \in [Inventories -> {Deleting, Gone} \cup Payloads]

\* What a commit that is about to be pushed holds.
Pushable ==
    /\ op.commit \in 1..Len(commits) /\ PushTip = op.commit
    /\ op.kind = "export" => Holds(op.commit, op.inv, op.payload)
    /\ op.kind = "export" \/ op.inv \notin Retain => ~ClaimedTwice(Tree(op.commit))

Operations ==
    [inv : Inventories, kind : {"export", "release"}, pc : {"fetch", "local", "push"},
     payload : SUBSET Paths, commit : Nat]

\* An operation that is under way: on a mirror that is warm since the fetch, at a clone
\* branch that the remote still has.
UnderWay ==
    op # Free =>
        /\ op \in Operations
        /\ op.kind = "export" => op.payload \in Payloads
        /\ op.pc # "fetch" => mirror.warm
        /\ op.pc = "local" => mirror.refs[Target] \in Anc(remote[Target])
        /\ op.pc = "push" => Pushable

\* The clone branch has, or had, the snapshot s of inventory i.
Delivered(i, s) == \E c \in Anc(remote[Target]) : Holds(c, i, s)

\* A fingerprint, like a report, tells of a delivery.
RecordsAreDeliveries ==
    \A i \in Direct : /\ fp[i] # None => Delivered(i, fp[i])
                      /\ reported[i] # None => Delivered(i, reported[i])

IInv == History /\ State /\ UnderWay /\ RecordsAreDeliveries

----------------------------------------------------------------------------
(* Trees. *)

\* A tree keeps its shape through the writes of an export.
LEMMA WrittenFacts ==
    ASSUME NEW t \in Trees, NEW i \in Inventories, NEW s \in Payloads, NEW files \in SUBSET s,
           NEW removed \in SUBSET Paths, NEW record \in BOOLEAN
    PROVE  Written(t, i, s, files, removed, record) \in Trees
BY Names_Disjoint, Payloads_Assumption DEF Written, Trees, Names

\* The same through the removals of a release.
LEMMA WithoutFacts ==
    ASSUME NEW t \in Trees, NEW names
    PROVE  Without(t, names) \in Trees
BY Zenon DEF Without, Trees, Names

\* What a record claims are paths, and no inventory is one.
LEMMA ClaimsFacts ==
    ASSUME NEW t \in Trees, NEW i \in Inventories
    PROVE  Claims(t, i) \subseteq Paths /\ (\A s : Stale(t, i, s) \subseteq Paths)
BY Payloads_Assumption, Zenon DEF Claims, Stale, Trees

\* Every commit has a tree.
LEMMA TreeFacts ==
    ASSUME History, NEW c \in 1..Len(commits)
    PROVE  Tree(c) \in Trees /\ Anc(c) = commits[c].anc
<1> DEFINE Commits == [tree : Trees, anc : SUBSET Nat]
<1>1. commits[c] \in Commits
  <2>1. commits \in Seq(Commits)
    BY Zenon DEF History
  <2> HIDE DEF Commits
  <2> QED
    BY <2>1
<1> QED
  BY <1>1 DEF Tree, Anc

\* A checkout takes the tree of the branch, and keeps the worktree where it agrees
\* with the index.
CheckedOut(m, b, n) ==
    /\ n \in Mirrors /\ n.warm = m.warm
    /\ n.head = b /\ n.refs[b] = Tip(m, b) /\ n.refs[b] # 0
    /\ n.refs[Target] = m.refs[Target] /\ \A d \in Branches \ {b} : n.refs[d] = m.refs[d]
    /\ n.index = Tree(n.refs[b]) /\ (m.wt = m.index => n.wt = n.index)
    /\ ~Unstaged(m) => ~Unstaged(n)

LEMMA CheckoutFacts ==
    ASSUME NEW m \in Mirrors, History, NEW b \in Branches, m.refs[Target] # 0
    PROVE  CheckedOut(m, b, checkoutMirrorBranch(m, b))
<1> DEFINE k == checkoutMirrorBranch(m, b)
           tip == Tip(m, b)
           t == Tree(tip)
           wt == [x \in Names |-> IF m.index[x] # t[x] THEN t[x] ELSE m.wt[x]]
<1>1. tip \in 1..Len(commits)
  BY Branch_Assumption DEF Tip, Mirrors, Refs
<1>2. t \in Trees
  BY <1>1, TreeFacts, Zenon
<1>3. k = [warm |-> m.warm, refs |-> [m.refs EXCEPT ![b] = tip], head |-> b, index |-> t, wt |-> wt]
  <2>1. OnBranch(m, b) = [warm |-> m.warm, refs |-> [m.refs EXCEPT ![b] = tip], head |-> b,
                          index |-> m.index, wt |-> m.wt]
    <3>1. m = [warm |-> m.warm, refs |-> m.refs, head |-> m.head, index |-> m.index, wt |-> m.wt]
      BY Zenon DEF Mirrors
    <3>2. OnBranch(m, b) = [m EXCEPT !.refs[b] = tip, !.head = b]
      BY Zenon DEF OnBranch
    <3> HIDE DEF tip
    <3> QED
      BY <3>1, <3>2, Zenon
  <2>2. k = [OnBranch(m, b) EXCEPT !.index = t, !.wt = wt]
    BY Zenon DEF checkoutMirrorBranch
  <2> DEFINE refs == [m.refs EXCEPT ![b] = tip]
             o == OnBranch(m, b)
  <2> HIDE DEF k, t, wt, tip, refs, o
  <2>3. o = [warm |-> m.warm, refs |-> refs, head |-> b, index |-> m.index, wt |-> m.wt]
    BY <2>1, Zenon DEF refs, o
  <2>4. k = [o EXCEPT !.index = t, !.wt = wt]
    BY <2>2, Zenon DEF o
  <2>5. k = [warm |-> m.warm, refs |-> refs, head |-> b, index |-> t, wt |-> wt]
    BY <2>3, <2>4, Zenon
  <2> QED
    BY <2>5, Zenon DEF refs
<1> HIDE DEF k, tip, t
<1>4. wt \in Trees
  BY <1>2, Zenon DEF Mirrors, Trees, Names
<1>5. [m.refs EXCEPT ![b] = tip] \in [Branches -> Refs]
  BY <1>1 DEF Mirrors, Refs
<1>6. k \in Mirrors
  BY <1>2, <1>3, <1>4, <1>5, Zenon DEF Mirrors
<1>7. k.refs[b] = tip /\ k.refs[b] # 0
  BY <1>1, <1>3 DEF Mirrors
<1>8. k.refs[Target] = m.refs[Target]
  BY <1>3, Branch_Assumption, Zenon DEF Mirrors, tip, Tip
<1>9. ~Unstaged(m) => ~Unstaged(k)
  BY <1>3, Zenon DEF Unstaged
<1>10. m.wt = m.index => k.wt = k.index
  <2>1. ASSUME m.wt = m.index PROVE wt = t
    BY <1>2, <2>1, Zenon DEF Trees
  <2> QED
    BY <1>3, <2>1, Zenon
<1>11. /\ k.warm = m.warm /\ k.head = b /\ k.refs[b] = Tip(m, b)
       /\ k.index = Tree(k.refs[b]) /\ \A d \in Branches \ {b} : k.refs[d] = m.refs[d]
  BY <1>3, <1>7, Zenon DEF t, tip, Mirrors
<1>12. CheckedOut(m, b, k)
  BY <1>6, <1>7, <1>8, <1>9, <1>10, <1>11, Zenon DEF CheckedOut
<1> QED
  BY <1>12, Zenon DEF k

\* After a hard reset only untracked files differ from the index.
LEMMA ResetFacts ==
    ASSUME NEW m \in Mirrors, History, m.refs[m.head] # 0
    PROVE  LET n == HardReset(m) IN
           /\ n \in Mirrors /\ n.warm = m.warm /\ n.refs = m.refs
           /\ m.wt = m.index => n.wt = n.index
           /\ ~Unstaged(n)
<1> DEFINE n == HardReset(m)
           t == Tree(m.refs[m.head])
           wt == [x \in Names |-> IF m.index[x] = Absent /\ t[x] = Absent THEN m.wt[x] ELSE t[x]]
<1>1. m.refs[m.head] \in 1..Len(commits)
  BY DEF Mirrors, Refs
<1>2. t \in Trees
  BY <1>1, TreeFacts, Zenon
<1>3. n = [warm |-> m.warm, refs |-> m.refs, head |-> m.head, index |-> t, wt |-> wt]
  <2>1. m = [warm |-> m.warm, refs |-> m.refs, head |-> m.head, index |-> m.index, wt |-> m.wt]
    BY Zenon DEF Mirrors
  <2>2. n = [m EXCEPT !.index = t, !.wt = wt]
    BY Zenon DEF HardReset
  <2> HIDE DEF n, t, wt
  <2> QED
    BY <2>1, <2>2, Zenon
<1> HIDE DEF n, t
<1>4. wt \in Trees
  BY <1>2, Zenon DEF Mirrors, Trees, Names
<1>5. n \in Mirrors
  BY <1>2, <1>3, <1>4, Zenon DEF Mirrors
<1>6. ~Unstaged(n)
  BY <1>3, Zenon DEF Unstaged
<1>7. m.wt = m.index => n.wt = n.index
  <2>1. ASSUME m.wt = m.index PROVE wt = t
    BY <1>2, <2>1, Zenon DEF Trees
  <2> QED
    BY <1>3, <2>1, Zenon
<1> QED
  BY <1>3, <1>5, <1>6, <1>7 DEF n

\* The mirror a release plans on.
LEMMA ReleaseBaseFacts ==
    ASSUME IInv, mirror.warm, NEW b \in Branches, NEW m, m = ReleaseBase(b)
    PROVE  /\ m \in Mirrors /\ m.warm /\ m.head = b /\ m.refs[b] # 0
           /\ m.refs[Target] # 0 /\ m.refs[Target] = mirror.refs[Target]
           /\ m.refs[b] \in {mirror.refs[b], remote[b], mirror.refs[Target]}
           /\ \A d \in Branches \ {b} : m.refs[d] = mirror.refs[d]
           /\ m.index = Tree(m.refs[b]) /\ (mirror.wt = mirror.index => m.wt = m.index)
           /\ ~Unstaged(m)
<1> DEFINE r == HardReset(mirror)
           f == fetchRemotePushBranch(r, b)
<1>1. /\ r \in Mirrors /\ r.warm /\ r.refs = mirror.refs
      /\ mirror.wt = mirror.index => r.wt = r.index
      /\ ~Unstaged(r)
  BY ResetFacts, Zenon DEF IInv, State
<1>2. f \in Mirrors /\ f.warm /\ f.index = r.index /\ f.wt = r.wt
      /\ f.refs[Target] = mirror.refs[Target] /\ f.refs[b] \in {mirror.refs[b], remote[b]}
      /\ \A d \in Branches \ {b} : f.refs[d] = mirror.refs[d]
  <2> HIDE DEF r
  <2>1. CASE r.refs[b] = 0
    <3>1. f = [r EXCEPT !.refs[b] = remote[b]]
      BY <2>1, Zenon DEF fetchRemotePushBranch
    <3>2. b # Target
      BY <1>1, <2>1, Zenon DEF IInv, State
    <3>3. remote[b] \in Refs
      BY Zenon DEF IInv, State
    <3> HIDE DEF f
    <3>4. f.refs = [r.refs EXCEPT ![b] = remote[b]] /\ f.warm = r.warm /\ f.head = r.head
          /\ f.index = r.index /\ f.wt = r.wt
      BY <1>1, <3>1, Zenon DEF Mirrors
    <3>5. f \in Mirrors
      BY <1>1, <3>1, <3>3, Zenon DEF Mirrors
    <3> QED
      BY <1>1, <3>2, <3>4, <3>5, Branch_Assumption DEF Mirrors
  <2>2. CASE r.refs[b] # 0
    BY <1>1, <2>2, Zenon DEF fetchRemotePushBranch
  <2> QED
    BY <2>1, <2>2, Zenon
<1>3. f.refs[Target] # 0 /\ History
  BY <1>2, Zenon DEF IInv, State
<1>4. ReleaseBase(b) = checkoutMirrorBranch(f, b)
  BY Zenon DEF ReleaseBase
<1> HIDE DEF f, r
<1>5. CheckedOut(f, b, m)
  BY <1>2, <1>3, <1>4, CheckoutFacts, Zenon
<1>6. m.refs[b] \in {mirror.refs[b], remote[b], mirror.refs[Target]}
  BY <1>2, <1>5, Zenon DEF Tip, CheckedOut
<1>7. \A d \in Branches \ {b} : m.refs[d] = mirror.refs[d]
  BY <1>2, <1>5, Zenon DEF CheckedOut
<1>8. ~Unstaged(m)
  BY <1>1, <1>2, <1>5, Zenon DEF Unstaged, CheckedOut
<1> QED
  BY <1>1, <1>2, <1>3, <1>5, <1>6, <1>7, <1>8, Zenon DEF CheckedOut

----------------------------------------------------------------------------
(* Histories. *)

\* The commits there are stay as they are.
Extended ==
    /\ Len(commits) <= Len(commits')
    /\ \A c \in 1..Len(commits) : commits'[c] = commits[c]

\* What is said of a commit stays true.
LEMMA ExtendedFacts ==
    ASSUME History, History', Extended, NEW c \in Refs
    PROVE  c \in Refs' /\ Anc(c)' = Anc(c) /\ (c # 0 => Tree(c)' = Tree(c))
<1>1. Len(commits) \in Nat /\ Len(commits') \in Nat
  BY DEF History
<1> QED
  BY <1>1 DEF Extended, Refs, Anc, Tree

\* A commit on top of commits there are keeps ancestry an order.
LEMMA NewCommitFacts ==
    ASSUME History, NEW tree \in Trees, NEW P \in SUBSET Refs, P \ {0} # {},
           commits' = NewCommit(tree, P), NEW n, n = Len(commits) + 1
    PROVE  /\ History' /\ Extended /\ Len(commits') = n /\ n \in Nat
           /\ Tree(n)' = tree /\ Anc(n)' = Ancestors(P) \cup {n}
<1> DEFINE Commits == [tree : Trees, anc : SUBSET Nat]
           up == Ancestors(P)
           new == [tree |-> tree, anc |-> up \cup {n}]
<1>1. commits \in Seq(Commits) /\ Len(commits) \in Nat
  BY DEF History
<1>2. up \subseteq 1..Len(commits)
  <2>1. \A c \in P : Anc(c) \subseteq 1..Len(commits)
    BY <1>1 DEF History, Anc, Refs
  <2> QED
    BY <2>1, Zenon DEF Ancestors
<1>3. up \cup {n} \in SUBSET Nat
  BY <1>1, <1>2
<1>4. commits' = Append(commits, new)
  BY Zenon DEF NewCommit
<1> HIDE DEF up
<1>5. new \in Commits
  BY <1>3, Zenon
<1> HIDE DEF Commits, new
<1>6. /\ commits' \in Seq(Commits) /\ Len(commits') = n /\ commits'[n] = new
      /\ \A c \in 1..Len(commits) : commits'[c] = commits[c]
  BY <1>1, <1>5, <1>4
<1>7. Extended
  BY <1>1, <1>6 DEF Extended
<1>8. Tree(n)' = tree /\ Anc(n)' = up \cup {n}
  BY <1>1, <1>6 DEF Tree, Anc, new
<1>9. \A c \in 1..Len(commits) : Anc(c)' = Anc(c)
  BY <1>6, Zenon DEF Anc
<1>10. \A c \in 1..n : c \in Anc(c)' /\ 1 \in Anc(c)' /\ Anc(c)' \subseteq 1..c
  <2> TAKE c \in 1..n
  <2>1. CASE c = n
    <3>1. c = Len(commits) + 1 /\ Anc(c)' = up \cup {c}
      BY <1>8, <2>1, Zenon
    <3>2. \A d \in up : d \in 1..c
      BY <1>1, <1>2, <3>1
    <3>3. c \in 1..c
      BY <1>1, <3>1, Zenon
    <3>4. 1 \in up
      <4>1. PICK p \in P : p # 0
        BY Zenon
      <4>2. p \in 1..Len(commits)
        BY <1>1, <4>1 DEF Refs
      <4>3. 1 \in Anc(p)
        BY <4>2, Zenon DEF History
      <4> QED
        BY <4>1, <4>3, Zenon DEF up, Ancestors
    <3> QED
      BY <3>1, <3>2, <3>3, <3>4, Zenon
  <2>2. CASE c # n
    BY <1>1, <1>9, <2>2 DEF History
  <2> QED
    BY <2>1, <2>2, Zenon
<1>11. \A d \in up : Anc(d) \subseteq up
  <2> USE DEF up, Ancestors
  <2> TAKE d \in up
  <2>1. PICK c \in P : d \in Anc(c)
    BY Zenon
  <2>2. c \in 1..Len(commits)
    BY <1>1, <2>1 DEF Refs, Anc
  <2> QED
    BY <2>1, <2>2, Zenon DEF History
<1>12. \A c \in 1..n : \A d \in Anc(c)' : Anc(d)' \subseteq Anc(c)'
  <2> TAKE c \in 1..n
  <2> TAKE d \in Anc(c)'
  <2>1. CASE c = n /\ d = n
    BY <2>1, Zenon
  <2>2. CASE c = n /\ d # n
    <3>1. d \in up
      BY <1>8, <2>2, Zenon
    <3> QED
      BY <1>2, <1>8, <1>9, <1>11, <2>2, <3>1, Zenon
  <2>3. CASE c # n
    <3>1. c \in 1..Len(commits) /\ d \in Anc(c)
      BY <1>1, <1>9, <2>3
    <3>2. d \in 1..Len(commits) /\ Anc(d) \subseteq Anc(c)
      BY <1>1, <3>1 DEF History
    <3> QED
      BY <1>9, <3>1, <3>2, Zenon
  <2> QED
    BY <2>1, <2>2, <2>3, Zenon
<1> QED
  <2>1. History'
    BY <1>6, <1>10, <1>12, Zenon DEF History, Commits
  <2> QED
    <3>1. Anc(n)' = Ancestors(P) \cup {n}
      BY <1>8, Zenon DEF up
    <3>2. n \in Nat
      BY <1>1
    <3> QED
      BY <1>6, <1>7, <1>8, <2>1, <3>1, <3>2, Zenon

\* A delivery stays one while the clone branch only grows.
LEMMA DeliveredStays ==
    ASSUME History, History', State, Extended, Anc(remote[Target]) \subseteq Anc(remote[Target])',
           NEW i, NEW s, Delivered(i, s)
    PROVE  Delivered(i, s)'
<1>1. PICK c \in Anc(remote[Target]) : Holds(c, i, s)
  BY Zenon DEF Delivered
<1>2. remote[Target] \in Refs /\ remote[Target] # 0
  BY Branch_Assumption, Zenon DEF State
<1>3. remote[Target] \in 1..Len(commits) /\ Len(commits) \in Nat
  BY <1>2 DEF Refs, History
<1>4. c \in 1..Len(commits)
  BY <1>1, <1>3 DEF History
<1>5. Tree(c)' = Tree(c)
  BY <1>3, <1>4, ExtendedFacts DEF Refs
<1> QED
  BY <1>1, <1>5, Zenon DEF Delivered, Holds

----------------------------------------------------------------------------
(* Steps. *)

\* Others push: the history grows, and the operation that is under way keeps its mirror.
LEMMA OthersStep ==
    ASSUME IInv, History', Extended, remote' \in [Branches -> Refs'], remote'[Target] # 0,
           Anc(remote[Target]) \subseteq Anc(remote[Target])',
           UNCHANGED <<mirror, fp, want, reported, op>>
    PROVE  IInv'
<1>1. \A c \in Refs : c \in Refs' /\ Anc(c)' = Anc(c) /\ (c # 0 => Tree(c)' = Tree(c))
  BY ExtendedFacts, Zenon DEF IInv
<1>2. Mirrors \subseteq Mirrors'
  BY <1>1, Zenon DEF Mirrors
<1>3. State'
  BY <1>2, Zenon DEF IInv, State
<1>4. UnderWay'
  <2>1. Pushable => Pushable'
    <3> SUFFICES ASSUME Pushable PROVE Pushable'
      BY Zenon
    <3>1. Len(commits) \in Nat /\ op.commit \in Refs /\ op.commit # 0
      <4>1. Len(commits) \in Nat
        BY DEF IInv, History
      <4> QED
        BY <4>1 DEF Pushable, Refs
    <3>2. PICK c \in Refs : c = op.commit
      BY <3>1, Zenon
    <3>3. Tree(c)' = Tree(c) /\ c \in 1..Len(commits')
      BY <1>1, <3>1, <3>2 DEF Refs
    <3>4. PushTip' = c /\ op' = op
      BY <3>2, Zenon DEF Pushable, PushTip
    <3>5. /\ op.kind = "export" => Holds(c, op.inv, op.payload)
          /\ op.kind = "export" \/ op.inv \notin Retain => ~ClaimedTwice(Tree(c))
      BY <3>2, Zenon DEF Pushable
    <3>6. op.kind = "export" => Tree(c)'[op.inv] = op.payload /\ \A q \in op.payload : Tree(c)'[q] = op.inv
      BY <3>3, <3>5, Zenon DEF Holds
    <3> QED
      BY <3>2, <3>3, <3>4, <3>5, <3>6, Zenon DEF Pushable, Holds
  <2> QED
    BY <2>1, Zenon DEF IInv, UnderWay
<1>5. RecordsAreDeliveries'
  BY DeliveredStays, Zenon DEF IInv, RecordsAreDeliveries
<1> QED
  BY <1>3, <1>4, <1>5, Zenon DEF IInv

\* An operation ends: it fails, or succeeds with its snapshot delivered.
LEMMA EndStep ==
    ASSUME IInv, op # Free, UNCHANGED commits,
           remote' \in [Branches -> Refs], remote'[Target] # 0,
           Anc(remote[Target]) \subseteq Anc(remote[Target])',
           mirror' \in Mirrors,
           mirror'.warm => mirror'.refs[Target] # 0 /\ mirror'.refs[mirror'.head] # 0,
           NEW i, NEW s, i = op.inv, s = op.payload,
           Fail \/ (Succeed /\ (op.kind = "export" /\ i \in Direct => Delivered(i, s)'))
    PROVE  IInv'
<1>1. History' /\ Extended /\ Refs' = Refs /\ Mirrors' = Mirrors
  <2>1. Len(commits) \in Nat
    BY DEF IInv, History
  <2> QED
    BY <2>1 DEF IInv, History, Extended, Refs, Mirrors, Anc
<1>2. op' = Free
  BY Zenon DEF Fail, Succeed
<1>3. i \in Inventories /\ (op.kind = "export" => s \in Payloads)
  BY Zenon DEF IInv, UnderWay, Operations
<1>4. CASE Fail
  <2>1. UNCHANGED <<fp, reported, want>>
    BY <1>4, Zenon DEF Fail
  <2>2. State'
    BY <1>1, <2>1, Zenon DEF IInv, State
  <2>3. RecordsAreDeliveries'
    BY <1>1, <2>1, DeliveredStays, Zenon DEF IInv, RecordsAreDeliveries
  <2> QED
    BY <1>1, <1>2, <2>2, <2>3, Zenon DEF IInv, UnderWay
<1>5. CASE Succeed /\ op.kind = "export" /\ (i \in Direct => Delivered(i, s)')
  <2>1. fp' = [fp EXCEPT ![i] = s] /\ reported' = [reported EXCEPT ![i] = s] /\ UNCHANGED want
    BY <1>5, Zenon DEF Succeed
  <2>2. State'
    BY <1>1, <1>3, <1>5, <2>1, Zenon DEF IInv, State
  <2>3. RecordsAreDeliveries'
    <3> SUFFICES ASSUME NEW j \in Direct
                 PROVE  /\ fp'[j] # None => Delivered(j, fp[j])'
                        /\ reported'[j] # None => Delivered(j, reported[j])'
      BY Zenon DEF RecordsAreDeliveries, Direct
    <3>1. j \in Inventories
      BY Zenon DEF Direct
    <3>2. CASE j = i
      <4>1. fp'[j] = s /\ reported'[j] = s
        BY <2>1, <3>1, <3>2, Zenon DEF IInv, State
      <4> QED
        BY <1>5, <3>2, <4>1, Zenon DEF Delivered, Holds
    <3>3. CASE j # i
      <4>1. fp'[j] = fp[j] /\ reported'[j] = reported[j]
        BY <2>1, <3>1, <3>3, Zenon DEF IInv, State
      <4>2. /\ fp[j] # None => Delivered(j, fp[j])
            /\ reported[j] # None => Delivered(j, reported[j])
        BY Zenon DEF IInv, RecordsAreDeliveries
      <4>3. \A v : Delivered(j, v) => Delivered(j, v)'
        BY <1>1, DeliveredStays, Zenon DEF IInv
      <4> QED
        BY <4>1, <4>2, <4>3 DEF Delivered, Holds
    <3> QED
      BY <3>2, <3>3, Zenon
  <2> QED
    BY <1>1, <1>2, <2>2, <2>3, Zenon DEF IInv, UnderWay
<1>6. CASE Succeed /\ op.kind # "export"
  <2>1. want' = [want EXCEPT ![i] = Gone] /\ UNCHANGED <<fp, reported>>
    BY <1>6, Zenon DEF Succeed
  <2>2. State'
    BY <1>1, <1>3, <2>1, Zenon DEF IInv, State
  <2>3. RecordsAreDeliveries'
    BY <1>1, <2>1, DeliveredStays, Zenon DEF IInv, RecordsAreDeliveries
  <2> QED
    BY <1>1, <1>2, <2>2, <2>3, Zenon DEF IInv, UnderWay
<1> QED
  BY <1>4, <1>5, <1>6, Zenon

\* A commit on the push branch is ready for the push.
LEMMA CommitStep ==
    ASSUME IInv, op # Free, op.pc = "local", NEW b \in Branches, b = PushBranch[op.inv],
           NEW m \in Mirrors, m.warm, m.refs[Target] # 0, m.refs[b] # 0, m.head = b,
           NEW tree \in Trees, NEW wt \in Trees,
           op.kind = "export" => tree[op.inv] = op.payload /\ \A q \in op.payload : tree[q] = op.inv,
           op.kind = "export" \/ op.inv \notin Retain => ~ClaimedTwice(tree),
           Commit(m, b, tree, wt), UNCHANGED remote,
           NEW n, n = Len(commits) + 1
    PROVE  /\ IInv' /\ Extended /\ op'.commit = n /\ Len(commits') = n
           /\ Tree(n)' = tree /\ Tree(Parent(n))' = Tree(m.refs[b]) /\ Anc(n)' = Anc(m.refs[b]) \cup {n}
<1> DEFINE r == m.refs[b]
<1>1. r \in Refs /\ r \in 1..Len(commits) /\ Len(commits) \in Nat
  BY DEF IInv, History, Mirrors, Refs
<1>2. commits' = NewCommit(tree, {r})
  BY Zenon DEF Commit
<1>3. /\ History' /\ Extended /\ Len(commits') = n /\ n \in Nat
      /\ Tree(n)' = tree /\ Anc(n)' = Ancestors({r}) \cup {n}
  <2>1. History /\ {r} \in SUBSET Refs /\ {r} \ {0} # {}
    BY <1>1, Zenon DEF IInv
  <2> HIDE DEF r
  <2> QED
    BY <1>2, <2>1, NewCommitFacts, Zenon
<1>4. \A c \in Refs : c \in Refs' /\ Anc(c)' = Anc(c) /\ (c # 0 => Tree(c)' = Tree(c))
  BY <1>3, ExtendedFacts, Zenon DEF IInv
<1>5. Refs \subseteq Refs' /\ n \in Refs' /\ n # 0
  BY <1>1, <1>3, <1>4 DEF Refs
<1>6. /\ mirror' = [m EXCEPT !.index = tree, !.wt = wt, !.refs[b] = n]
      /\ op' = [op EXCEPT !.pc = "push", !.commit = n]
      /\ UNCHANGED <<fp, reported, want>>
  BY <1>3, Zenon DEF Commit
<1>7. /\ mirror' \in Mirrors' /\ mirror'.warm /\ mirror'.refs[b] = n /\ mirror'.head = b
      /\ mirror'.refs[Target] # 0
  <2>1. [m.refs EXCEPT ![b] = n] \in [Branches -> Refs']
    BY <1>5, Zenon DEF Mirrors
  <2>2. mirror' = [warm |-> m.warm, refs |-> [m.refs EXCEPT ![b] = n], head |-> m.head,
                   index |-> tree, wt |-> wt]
    <3>1. m = [warm |-> m.warm, refs |-> m.refs, head |-> m.head, index |-> m.index, wt |-> m.wt]
      BY Zenon DEF Mirrors
    <3> QED
      BY <1>6, <3>1, Zenon
  <2>3. mirror' \in Mirrors'
    BY <2>1, <2>2, Zenon DEF Mirrors
  <2> QED
    BY <1>5, <2>2, <2>3, Branch_Assumption, Zenon DEF Mirrors
<1>8. State'
  <2>1. remote' \in [Branches -> Refs'] /\ remote'[Target] # 0
    BY <1>5, Zenon DEF IInv, State
  <2> QED
    BY <1>5, <1>6, <1>7, <2>1, Zenon DEF IInv, State
<1>9. /\ op' \in Operations /\ op'.pc = "push" /\ op'.commit = n /\ op'.inv = op.inv
      /\ op'.kind = op.kind /\ op'.payload = op.payload
  BY <1>3, <1>6, Zenon DEF IInv, UnderWay, Operations
<1>10. UnderWay'
  <2>1. n \in 1..Len(commits') /\ PushTip' = n
    BY <1>1, <1>3, <1>7, <1>9 DEF PushTip
  <2>2. Pushable'
    BY <1>3, <1>9, <2>1, Zenon DEF Pushable, Holds
  <2>3. op.kind = "export" => op.payload \in Payloads
    BY Zenon DEF IInv, UnderWay
  <2> QED
    BY <1>7, <1>9, <2>2, <2>3, Zenon DEF UnderWay
<1>11. RecordsAreDeliveries'
  <2>1. PICK t \in Refs : t = remote[Target]
    BY Branch_Assumption, Zenon DEF IInv, State
  <2>2. Anc(remote[Target])' = Anc(remote[Target])
    BY <1>4, <2>1, Zenon
  <2> QED
    BY <1>3, <1>6, <2>2, DeliveredStays, Zenon DEF IInv, RecordsAreDeliveries
<1>12. Tree(Parent(n))' = Tree(r)
  <2>1. Ancestors({r}) = Anc(r)
    BY Zenon DEF Ancestors
  <2>2. Anc(n)' \ {n} = Anc(r)
    <3>1. Anc(r) \subseteq 1..Len(commits)
      BY <1>1 DEF IInv, History
    <3> QED
      BY <1>1, <1>3, <2>1, <3>1
  <2>3. r \in Anc(r) /\ \A e \in Anc(r) : e \in Nat /\ e <= r
    BY <1>1 DEF IInv, History
  <2>4. Parent(n)' = CHOOSE d \in Anc(r) : \A e \in Anc(r) : e <= d
    BY <2>2, Zenon DEF Parent
  <2>5. Parent(n)' = r
    BY <1>1, <2>3, <2>4
  <2> QED
    BY <1>1, <1>4, <2>5, Zenon DEF Tree
<1> QED
  BY <1>3, <1>8, <1>9, <1>10, <1>11, <1>12, Zenon DEF IInv, Ancestors

----------------------------------------------------------------------------
(* Exports. *)

\* The mirror an export works on.
LEMMA ExportBaseFacts ==
    ASSUME IInv, op.pc = "local", op.kind = "export", NEW b, b = PushBranch[op.inv],
           NEW m, m = checkoutMirrorBranch(mirror, b)
    PROVE  /\ op # Free /\ op.inv \in Inventories /\ op.payload \in Payloads /\ op.payload \subseteq Paths
           /\ b \in Branches /\ mirror.warm /\ mirror.refs[Target] # 0
           /\ m \in Mirrors /\ m.warm /\ m.head = b /\ m.refs[b] # 0 /\ m.refs[Target] # 0
           /\ b = Target => m.refs[b] \in Anc(remote[Target])
           /\ m.index = Tree(m.refs[b])
           /\ ~Unstaged(mirror) => ~Unstaged(m)
<1>1. op # Free
  BY DEF Free
<1>2. op \in Operations /\ op.payload \in Payloads /\ mirror.warm
      /\ mirror.refs[Target] \in Anc(remote[Target])
  BY <1>1, Zenon DEF IInv, UnderWay
<1>3. op.inv \in Inventories /\ op.payload \subseteq Paths /\ b \in Branches
  BY <1>2, Branch_Assumption, Payloads_Assumption, Zenon DEF Operations
<1>4. mirror.refs[Target] # 0 /\ mirror \in Mirrors /\ History
  BY <1>2, Zenon DEF IInv, State
<1>5. CheckedOut(mirror, b, m)
  BY <1>3, <1>4, CheckoutFacts, Zenon
<1> QED
  BY <1>1, <1>2, <1>3, <1>4, <1>5, Zenon DEF CheckedOut

\* The tree an export commits: its record and its files, what others claim as it was,
\* and no path claimed twice.
Fair(t, i, s, new) ==
    /\ new \in Trees /\ new[i] = s /\ \A q \in s : new[q] = i
    /\ \A j \in Inventories \ {i} : t[j] # Absent => \A x \in {j} \cup t[j] : new[x] = t[x]
    /\ ~ClaimedTwice(new)

\* An export that is not refused writes such a tree.
LEMMA SnapshotFacts ==
    ASSUME NEW i \in Inventories, NEW s \in Payloads, NEW t \in Trees,
           ~prepareOwnedPrune_Refuses(t, i, s)
    PROVE  Fair(t, i, s, Written(t, i, s, s, Stale(t, i, s), TRUE))
<1>1. PICK new : new = Written(t, i, s, s, Stale(t, i, s), TRUE)
  BY Zenon
<1>2. s \subseteq Paths /\ Stale(t, i, s) \subseteq Paths /\ \A j \in Inventories : Claims(t, j) \subseteq Paths
  BY ClaimsFacts, Payloads_Assumption, Zenon
<1>3. new \in Trees
  BY <1>2, <1>1, WrittenFacts, Zenon
<1>4. \A x \in Names : new[x] = IF x = i THEN s ELSE IF x \in s THEN i
                               ELSE IF x \in Stale(t, i, s) THEN Absent ELSE t[x]
  BY <1>1, Zenon DEF Written
<1>5. new[i] = s /\ \A q \in s : new[q] = i
  BY <1>2, <1>4, Names_Disjoint, Zenon DEF Names
<1>6. \A j \in Inventories \ {i} : new[j] = t[j]
  BY <1>2, <1>4, Names_Disjoint, Zenon DEF Names
<1>7. \A j \in Inventories \ {i} : Claims(t, j) \cap s = {} /\ Claims(t, j) \cap Claims(t, i) = {}
  BY Zenon DEF prepareOwnedPrune_Refuses, Foreign, ClaimedTwice
<1>8. \A j \in Inventories \ {i} : t[j] # Absent => \A x \in {j} \cup t[j] : new[x] = t[x]
  <2> SUFFICES ASSUME NEW j \in Inventories \ {i}, t[j] # Absent, NEW x \in t[j] PROVE new[x] = t[x]
    BY <1>6, Zenon
  <2>1. x \in Claims(t, j) /\ x \in Paths
    BY <1>2, Zenon DEF Claims
  <2>2. x \notin s /\ x \notin Stale(t, i, s) /\ x # i
    BY <1>7, <2>1, Names_Disjoint, Zenon DEF Stale
  <2> QED
    BY <1>4, <2>1, <2>2, Zenon DEF Names
<1>9. ~ClaimedTwice(new)
  <2>1. \A j \in Inventories \ {i} : Claims(new, j) = Claims(t, j)
    BY <1>6, Zenon DEF Claims
  <2>2. Claims(new, i) \subseteq s
    BY <1>5, Zenon DEF Claims
  <2>3. \A j, k \in Inventories : j # k => Claims(t, j) \cap Claims(t, k) = {}
    BY Zenon DEF prepareOwnedPrune_Refuses, ClaimedTwice
  <2> SUFFICES ASSUME NEW j \in Inventories, NEW k \in Inventories, j # k
               PROVE  Claims(new, j) \cap Claims(new, k) = {}
    BY Zenon DEF ClaimedTwice
  <2>4. CASE j = i
    BY <1>7, <2>1, <2>2, <2>4, Zenon
  <2>5. CASE k = i
    BY <1>7, <2>1, <2>2, <2>5, Zenon
  <2>6. CASE j # i /\ k # i
    BY <2>1, <2>3, <2>6, Zenon
  <2> QED
    BY <2>4, <2>5, <2>6, Zenon
<1> QED
  BY <1>3, <1>5, <1>8, <1>9, <1>1, Zenon DEF Fair

\* An export that fails leaves nothing behind but the mirror.
LEMMA ExportFailsStep ==
    ASSUME IInv, CheckoutFails \/ ClaimRefused \/ WriteFails
    PROVE  IInv'
<1>1. PICK b : b = PushBranch[op.inv]
  BY Zenon
<1>2. PICK m : m = checkoutMirrorBranch(mirror, b)
  BY Zenon
<1>3. PICK i, s : i = op.inv /\ s = op.payload
  BY Zenon
<1>4. op.pc = "local" /\ op.kind = "export" /\ Fail /\ UNCHANGED <<commits, remote>>
  BY Zenon DEF CheckoutFails, ClaimRefused, WriteFails
<1>5. /\ op # Free /\ i \in Inventories /\ s \in Payloads /\ s \subseteq Paths
      /\ b \in Branches /\ mirror.warm /\ mirror.refs[Target] # 0
      /\ m \in Mirrors /\ m.warm /\ m.head = b /\ m.refs[b] # 0 /\ m.refs[Target] # 0
  BY <1>1, <1>2, <1>3, <1>4, ExportBaseFacts, Zenon
<1>6. mirror' \in Mirrors /\ mirror'.refs[Target] # 0 /\ mirror'.refs[mirror'.head] # 0
  <2>1. CASE CheckoutFails
    <3>1. mirror' = [mirror EXCEPT !.refs[b] = Tip(mirror, b), !.head = b]
      BY <1>1, <2>1, Zenon DEF CheckoutFails, OnBranch
    <3>2. mirror \in Mirrors /\ Tip(mirror, b) \in Refs /\ Tip(mirror, b) # 0
      BY <1>5, Branch_Assumption, Zenon DEF IInv, State, Mirrors, Tip
    <3>3. /\ mirror'.refs = [mirror.refs EXCEPT ![b] = Tip(mirror, b)] /\ mirror'.head = b
          /\ mirror' \in Mirrors
      BY <1>5, <3>1, <3>2, Zenon DEF Mirrors
    <3> QED
      BY <1>5, <3>2, <3>3, Branch_Assumption DEF Mirrors
  <2>2. CASE ClaimRefused
    BY <1>1, <1>2, <1>5, <2>2, Zenon DEF ClaimRefused
  <2>3. CASE WriteFails
    <3> DEFINE M == checkoutMirrorBranch(mirror, PushBranch[op.inv])
    <3>1. PICK files \in SUBSET op.payload, removed \in SUBSET Stale(M.wt, op.inv, op.payload),
               record \in BOOLEAN :
             /\ removed # {} => files = op.payload
             /\ record => removed = Stale(M.wt, op.inv, op.payload) /\ files = op.payload
             /\ mirror' = [M EXCEPT !.wt = Written(M.wt, op.inv, op.payload, files, removed, record)]
      BY <2>3, Zenon DEF WriteFails
    <3>2. M = m
      BY <1>1, <1>2, Zenon
    <3> HIDE DEF M
    <3>3. PICK t \in Trees : t = M.wt
      BY <1>5, <3>2, Zenon DEF Mirrors
    <3>4. Stale(t, i, s) \subseteq Paths
      BY <1>5, ClaimsFacts, Zenon
    <3>5. removed \subseteq Paths /\ files \subseteq s
      BY <1>3, <3>1, <3>3, <3>4, Zenon
    <3>6. Written(t, i, s, files, removed, record) \in Trees
      BY <1>5, <3>1, <3>5, WrittenFacts, Zenon
    <3>7. mirror' = [m EXCEPT !.wt = Written(t, i, s, files, removed, record)]
      BY <1>3, <3>1, <3>2, <3>3, Zenon
    <3> QED
      BY <1>5, <3>6, <3>7, Zenon DEF Mirrors
  <2> QED
    BY <2>1, <2>2, <2>3, Zenon
<1>7. remote' \in [Branches -> Refs] /\ remote'[Target] # 0 /\ Anc(remote[Target])' = Anc(remote[Target])
  BY <1>4, Zenon DEF IInv, State, Anc
<1> QED
  BY <1>3, <1>4, <1>5, <1>6, <1>7, EndStep, Zenon

\* A clean status after a fetch means that the clone branch has the snapshot already.
LEMMA StatusCleanStep ==
    ASSUME IInv, StatusClean
    PROVE  IInv'
<1>1. PICK b : b = PushBranch[op.inv]
  BY Zenon
<1>2. PICK m : m = checkoutMirrorBranch(mirror, b)
  BY Zenon
<1>3. PICK i, s : i = op.inv /\ s = op.payload
  BY Zenon
<1>4. /\ op.pc = "local" /\ op.kind = "export" /\ ~Refused(m) /\ Snapshot(m) = m.index
      /\ mirror' = [m EXCEPT !.wt = m.index]
      /\ Succeed /\ UNCHANGED <<commits, remote>>
  BY <1>1, <1>2, Zenon DEF StatusClean
<1>5. /\ op # Free /\ i \in Inventories /\ s \in Payloads /\ s \subseteq Paths /\ b \in Branches
      /\ m \in Mirrors /\ m.warm /\ m.head = b /\ m.refs[b] # 0 /\ m.refs[Target] # 0
      /\ b = Target => m.refs[b] \in Anc(remote[Target])
      /\ m.index = Tree(m.refs[b])
  BY <1>1, <1>2, <1>3, <1>4, ExportBaseFacts, Zenon
<1>6. mirror' \in Mirrors /\ mirror'.refs[Target] # 0 /\ mirror'.refs[mirror'.head] # 0
  BY <1>4, <1>5, Zenon DEF Mirrors
<1>7. remote' \in [Branches -> Refs] /\ remote'[Target] # 0 /\ Anc(remote[Target])' = Anc(remote[Target])
  BY <1>4, Zenon DEF IInv, State, Anc
<1>8. ASSUME i \in Direct PROVE Delivered(i, s)'
  <2>1. b = Target
    BY <1>1, <1>3, <1>8, Zenon DEF Direct
  <2>2. m.wt \in Trees /\ ~prepareOwnedPrune_Refuses(m.wt, i, s)
    BY <1>3, <1>4, <1>5, Zenon DEF Refused, Mirrors
  <2>3. m.index[i] = s /\ \A q \in s : m.index[q] = i
    <3>1. PICK t, x : t = m.wt /\ x = m.index
      BY Zenon
    <3>2. x = Written(t, i, s, s, Stale(t, i, s), TRUE)
      BY <1>3, <1>4, <3>1, Zenon DEF Snapshot
    <3>3. x[i] = s /\ \A q \in s : x[q] = i
      <4>1. t \in Trees /\ ~prepareOwnedPrune_Refuses(t, i, s)
        BY <2>2, <3>1, Zenon
      <4>2. i \in Inventories /\ s \in Payloads
        BY <1>5, Zenon
      <4>3. Fair(t, i, s, x)
        BY <3>2, <4>1, <4>2, SnapshotFacts, Zenon
      <4> QED
        BY <4>3, Zenon DEF Fair
    <3> QED
      BY <3>1, <3>3, Zenon
  <2>4. PICK c \in Anc(remote[Target]) : c = m.refs[b]
    BY <1>5, <2>1, Zenon
  <2>5. Tree(c)' = m.index
    BY <1>4, <1>5, <2>4, Zenon DEF Tree
  <2> QED
    BY <1>7, <2>3, <2>4, <2>5, Zenon DEF Delivered, Holds
<1> QED
  BY <1>3, <1>4, <1>5, <1>6, <1>7, <1>8, EndStep, Zenon

\* The commit of an export: ready for the push, and nothing of another inventory touched.
LEMMA ExportCommitStep ==
    ASSUME IInv, exportRemoteInWorkdir, NEW n, n = Len(commits) + 1
    PROVE  /\ IInv' /\ Extended /\ op'.commit = n
           /\ \A j \in Inventories \ {op.inv} : Tree(Parent(n))'[j] # Absent =>
                 \A x \in {j} \cup Tree(Parent(n))'[j] :
                    Tree(Parent(n))'[x] # Absent => Tree(n)'[x] = Tree(Parent(n))'[x]
<1>1. PICK b : b = PushBranch[op.inv]
  BY Zenon
<1>2. PICK m : m = checkoutMirrorBranch(mirror, b)
  BY Zenon
<1>3. PICK i, s, new : i = op.inv /\ s = op.payload /\ new = Snapshot(m)
  BY Zenon
<1>4. /\ op.pc = "local" /\ op.kind = "export" /\ ~Refused(m) /\ ~Unstaged(mirror)
      /\ Commit(m, b, new, new) /\ UNCHANGED remote
  BY <1>1, <1>2, <1>3, Zenon DEF exportRemoteInWorkdir
<1>5. /\ op # Free /\ i \in Inventories /\ s \in Payloads /\ s \subseteq Paths /\ b \in Branches
      /\ m \in Mirrors /\ m.warm /\ m.head = b /\ m.refs[b] # 0 /\ m.refs[Target] # 0
      /\ m.index = Tree(m.refs[b])
      /\ ~Unstaged(m)
  BY <1>1, <1>2, <1>3, <1>4, ExportBaseFacts, Zenon
<1>6. m.wt \in Trees /\ m.index \in Trees /\ ~prepareOwnedPrune_Refuses(m.wt, i, s)
  BY <1>3, <1>4, <1>5, Zenon DEF Refused, Mirrors
<1>7. new = Written(m.wt, i, s, s, Stale(m.wt, i, s), TRUE)
  BY <1>3, Zenon DEF Snapshot
<1>8. /\ new \in Trees /\ new[i] = s /\ \A q \in s : new[q] = i
      /\ \A j \in Inventories \ {i} : m.wt[j] # Absent => \A x \in {j} \cup m.wt[j] : new[x] = m.wt[x]
      /\ ~ClaimedTwice(new)
  <2>1. PICK t : t = m.wt
    BY Zenon
  <2>2. t \in Trees /\ ~prepareOwnedPrune_Refuses(t, i, s) /\ new = Written(t, i, s, s, Stale(t, i, s), TRUE)
    BY <1>6, <1>7, <2>1, Zenon
  <2>3. /\ new \in Trees /\ new[i] = s /\ \A q \in s : new[q] = i
        /\ \A j \in Inventories \ {i} : t[j] # Absent => \A x \in {j} \cup t[j] : new[x] = t[x]
        /\ ~ClaimedTwice(new)
    <3>1. i \in Inventories /\ s \in Payloads
      BY <1>5, Zenon
    <3>2. Fair(t, i, s, new)
      BY <2>2, <3>1, SnapshotFacts, Zenon
    <3> QED
      BY <3>2, Zenon DEF Fair
  <2> QED
    BY <2>1, <2>3, Zenon
<1>9. /\ IInv' /\ Extended /\ op'.commit = n
      /\ Tree(n)' = new /\ Tree(Parent(n))' = m.index
  <2>1. /\ op.kind = "export" => new[op.inv] = op.payload /\ \A q \in op.payload : new[q] = op.inv
        /\ op.kind = "export" \/ op.inv \notin Retain => ~ClaimedTwice(new)
    BY <1>3, <1>8, Zenon
  <2> QED
    BY <1>1, <1>4, <1>5, <1>8, <2>1, CommitStep
<1>10. \A j \in Inventories \ {i} : m.index[j] # Absent =>
          \A x \in {j} \cup m.index[j] : m.index[x] # Absent => new[x] = m.index[x]
  <2> SUFFICES ASSUME NEW j \in Inventories \ {i}, m.index[j] # Absent,
                      NEW x \in {j} \cup m.index[j], m.index[x] # Absent
               PROVE  new[x] = m.index[x]
    BY Zenon
  <2>1. m.wt[j] = m.index[j] /\ m.index[j] \in Payloads
    BY <1>5, <1>6, Zenon DEF Names, Trees, Unstaged
  <2>2. x \in Names
    BY <2>1, Payloads_Assumption, Zenon DEF Names
  <2> QED
    BY <1>5, <1>8, <2>1, <2>2, Zenon DEF Unstaged
<1> QED
  BY <1>3, <1>9, <1>10, Zenon

----------------------------------------------------------------------------
(* Pushes. *)

\* A push that the remote takes moves one branch; the clone branch it moves to a
\* descendant of its tip.
LEMMA LandedFacts ==
    ASSUME IInv, op.pc = "push", Accepted, Landed, UNCHANGED commits,
           NEW b, b = PushBranch[op.inv], NEW c, c = op.commit
    PROVE  /\ b \in Branches /\ c \in 1..Len(commits) /\ c \in Refs /\ c \in Anc(c)
           /\ op # Free /\ Pushable /\ op.inv \in Inventories
           /\ remote' \in [Branches -> Refs] /\ remote'[b] = c /\ remote'[Target] # 0
           /\ Anc(remote[Target]) \subseteq Anc(remote[Target])'
<1>1. op # Free
  BY DEF Free
<1>2. op.inv \in Inventories /\ Pushable
  BY <1>1, Zenon DEF IInv, UnderWay, Operations
<1>3. b \in Branches
  BY <1>2, Branch_Assumption, Zenon
<1>4. c \in 1..Len(commits) /\ PushTip = c /\ Len(commits) \in Nat
  BY <1>2 DEF Pushable, IInv, History
<1>5. c \in Refs /\ c # 0 /\ c \in Anc(c) /\ \A d \in Anc(c) : Anc(d) \subseteq Anc(c)
  BY <1>4 DEF Refs, IInv, History
<1>6. remote' = [remote EXCEPT ![b] = c] /\ remote \in [Branches -> Refs] /\ remote[Target] # 0
  BY <1>4, Zenon DEF Landed, IInv, State
<1>7. b = Target => remote[b] \in Anc(c) \cup {0}
  BY <1>2, <1>4, Zenon DEF Accepted, RemoteTip, Direct
<1>8. remote' \in [Branches -> Refs] /\ remote'[b] = c /\ remote'[Target] # 0
  BY <1>3, <1>5, <1>6, Branch_Assumption, Zenon
<1>9. Anc(remote[Target]) \subseteq Anc(remote[Target])'
  <2>1. PICK old, new : old = remote[Target] /\ new = remote'[Target]
    BY Zenon
  <2>2. Anc(old) = Anc(remote[Target]) /\ Anc(new) = Anc(remote[Target])'
    BY <2>1, Zenon DEF Anc
  <2>3. CASE b = Target
    <3>1. new = c /\ old \in Anc(c) \cup {0}
      BY <1>7, <1>8, <2>1, <2>3, Zenon
    <3>2. Anc(0) = {}
      BY Zenon DEF Anc
    <3> QED
      BY <1>5, <2>2, <3>1, <3>2, Zenon
  <2>4. CASE b # Target
    BY <1>6, <2>1, <2>2, <2>4, Branch_Assumption, Zenon
  <2> QED
    BY <2>3, <2>4, Zenon
<1> QED
  BY <1>1, <1>2, <1>3, <1>4, <1>5, <1>8, <1>9, Zenon

\* A push that lands delivers what the operation committed.
LEMMA PushCommittedStep ==
    ASSUME IInv, pushCommitted
    PROVE  IInv'
<1>1. PICK b, c, i, s : b = PushBranch[op.inv] /\ c = op.commit /\ i = op.inv /\ s = op.payload
  BY Zenon
<1>2. op.pc = "push" /\ Accepted /\ Landed /\ Succeed /\ UNCHANGED <<commits, mirror>>
  BY Zenon DEF pushCommitted
<1>3. /\ b \in Branches /\ c \in 1..Len(commits) /\ c \in Refs /\ c \in Anc(c)
      /\ op # Free /\ Pushable /\ op.inv \in Inventories
      /\ remote' \in [Branches -> Refs] /\ remote'[b] = c /\ remote'[Target] # 0
      /\ Anc(remote[Target]) \subseteq Anc(remote[Target])'
  BY <1>1, <1>2, LandedFacts, Zenon
<1>4. Anc(remote[Target]) \subseteq Anc(remote[Target])'
  BY <1>3, Zenon
<1>5. ASSUME op.kind = "export", i \in Direct PROVE Delivered(i, s)'
  <2>1. b = Target
    BY <1>1, <1>5, Zenon DEF Direct
  <2>2. Holds(c, i, s)
    BY <1>1, <1>3, <1>5, Zenon DEF Pushable
  <2>3. Tree(c)' = Tree(c) /\ Anc(c)' = Anc(c)
    BY <1>2, Zenon DEF Tree, Anc
  <2>4. Anc(remote[Target])' = Anc(c)'
    BY <1>3, <2>1, Zenon DEF Anc
  <2> QED
    BY <1>3, <2>2, <2>3, <2>4, Zenon DEF Delivered, Holds
<1>6. /\ mirror' \in Mirrors
      /\ mirror'.warm => mirror'.refs[Target] # 0 /\ mirror'.refs[mirror'.head] # 0
  BY <1>2, Zenon DEF IInv, State
<1> QED
  BY <1>1, <1>2, <1>3, <1>4, <1>5, <1>6, EndStep, Zenon

\* One that lands unanswered is still to be pushed.
LEMMA PushUnansweredStep ==
    ASSUME IInv, PushUnanswered
    PROVE  IInv'
<1>1. PICK b, c : b = PushBranch[op.inv] /\ c = op.commit
  BY Zenon
<1>2. op.pc = "push" /\ Accepted /\ Landed /\ UNCHANGED <<commits, mirror, fp, want, reported, op>>
  BY Zenon DEF PushUnanswered
<1>3. /\ remote' \in [Branches -> Refs] /\ remote'[Target] # 0
      /\ Anc(remote[Target]) \subseteq Anc(remote[Target])'
  BY <1>1, <1>2, LandedFacts, Zenon
<1>4. Anc(remote[Target]) \subseteq Anc(remote[Target])'
  BY <1>3, Zenon
<1>5. History' /\ Extended /\ Refs' = Refs
  <2>1. Len(commits) \in Nat
    BY DEF IInv, History
  <2> QED
    BY <1>2, <2>1 DEF IInv, History, Extended, Refs, Anc
<1> QED
  BY <1>2, <1>3, <1>4, <1>5, OthersStep, Zenon

\* A push that was overtaken succeeds only if the remote has its commit.
LEMMA SyncStep ==
    ASSUME IInv, syncRemoteBeforePush
    PROVE  IInv'
<1>1. PICK b, c, i, s, tip : b = PushBranch[op.inv] /\ c = op.commit /\ i = op.inv /\ s = op.payload
                             /\ tip = remote[b]
  BY Zenon
<1>2. /\ op.pc = "push" /\ ~Accepted /\ UNCHANGED <<commits, remote>>
      /\ mirror' = [mirror EXCEPT !.refs[b] = tip]
      /\ IF verifySnapshotDelivered(tip) THEN Succeed ELSE Fail
  BY <1>1, Zenon DEF syncRemoteBeforePush, RemoteTip
<1>3. op # Free
  BY <1>2 DEF Free
<1>4. op.inv \in Inventories /\ Pushable /\ b \in Branches /\ mirror.warm
  BY <1>1, <1>2, <1>3, Branch_Assumption, Zenon DEF IInv, UnderWay, Operations
<1>5. tip \in Refs /\ tip # 0
  BY <1>1, <1>2, <1>4, Zenon DEF IInv, State, Accepted, RemoteTip
<1>6. mirror' \in Mirrors /\ mirror'.refs[Target] # 0 /\ mirror'.refs[mirror'.head] # 0
  <2>1. mirror \in Mirrors /\ mirror.refs[Target] # 0 /\ mirror.refs[mirror.head] # 0
    BY <1>4, Zenon DEF IInv, State
  <2>2. mirror'.refs = [mirror.refs EXCEPT ![b] = tip] /\ mirror'.head = mirror.head /\ mirror' \in Mirrors
    BY <1>2, <1>4, <1>5, <2>1, Zenon DEF Mirrors
  <2> QED
    BY <1>4, <1>5, <2>1, <2>2, Branch_Assumption DEF Mirrors
<1>7. remote' \in [Branches -> Refs] /\ remote'[Target] # 0 /\ Anc(remote[Target])' = Anc(remote[Target])
  BY <1>2, Zenon DEF IInv, State, Anc
<1>8. CASE verifySnapshotDelivered(tip)
  <2>1. c \in Anc(tip) /\ Succeed
    BY <1>1, <1>2, <1>8, Zenon DEF verifySnapshotDelivered
  <2>2. ASSUME op.kind = "export", i \in Direct PROVE Delivered(i, s)'
    <3>1. b = Target
      BY <1>1, <2>2, Zenon DEF Direct
    <3>2. Holds(c, i, s)
      BY <1>1, <1>4, <2>2, Zenon DEF Pushable
    <3>3. Tree(c)' = Tree(c)
      BY <1>2, Zenon DEF Tree
    <3> QED
      BY <1>1, <1>7, <2>1, <3>1, <3>2, <3>3 DEF Delivered, Holds
  <2> QED
    BY <1>1, <1>2, <1>3, <1>6, <1>7, <2>1, <2>2, EndStep, Zenon
<1>9. CASE ~verifySnapshotDelivered(tip)
  <2>1. Fail
    BY <1>2, <1>9, Zenon
  <2> QED
    BY <1>1, <1>2, <1>3, <1>6, <1>7, <2>1, EndStep, Zenon
<1> QED
  BY <1>8, <1>9, Zenon

\* A call that fails for good ends the operation.
LEMMA RemoteFailsStep ==
    ASSUME IInv, RemoteFails
    PROVE  IInv'
<1>1. PICK i, s : i = op.inv /\ s = op.payload
  BY Zenon
<1>2. op # Free /\ Fail /\ UNCHANGED <<commits, remote, mirror>>
  BY DEF RemoteFails, Free
<1>3. /\ mirror' \in Mirrors
      /\ mirror'.warm => mirror'.refs[Target] # 0 /\ mirror'.refs[mirror'.head] # 0
      /\ remote' \in [Branches -> Refs] /\ remote'[Target] # 0
      /\ Anc(remote[Target]) \subseteq Anc(remote[Target])'
  BY <1>2, Zenon DEF IInv, State, Anc
<1> QED
  BY <1>1, <1>2, <1>3, EndStep, Zenon

----------------------------------------------------------------------------
(* Releases. *)

\* The tree that a release leaves: what others claim as it was, and, where files go,
\* no path claimed twice.
LEMMA ReleasedFacts ==
    ASSUME NEW i \in Inventories, NEW t \in Trees, NEW wt \in Trees,
           \A x \in Names : t[x] # Absent => wt[x] = t[x],
           i \in Retain \/ ~ClaimedTwice(wt),
           NEW new, new = Without(t, planRelease(wt, i))
    PROVE  /\ new \in Trees
           /\ \A j \in Inventories \ {i} : t[j] # Absent => \A x \in {j} \cup t[j] : new[x] = t[x]
           /\ i \notin Retain => ~ClaimedTwice(new)
<1>1. new \in Trees
  BY WithoutFacts, Zenon
<1>2. \A x \in Names : new[x] = IF x \in planRelease(wt, i) THEN Absent ELSE t[x]
  BY Zenon DEF Without
<1>3. planRelease(wt, i) \subseteq {i} \cup Claims(wt, i) /\ (i \in Retain => planRelease(wt, i) \subseteq {i})
  BY Zenon DEF planRelease, Claims
<1>4. \A j \in Inventories : Claims(wt, j) \subseteq Paths /\ Claims(t, j) \subseteq Claims(wt, j)
  <2> TAKE j \in Inventories
  <2>1. Claims(wt, j) \subseteq Paths
    BY ClaimsFacts, Zenon
  <2>2. t[j] # Absent => wt[j] = t[j]
    BY Zenon DEF Names
  <2> QED
    BY <2>1, <2>2, Zenon DEF Claims
<1>5. \A j \in Inventories \ {i} : t[j] # Absent => \A x \in {j} \cup t[j] : new[x] = t[x]
  <2> SUFFICES ASSUME NEW j \in Inventories \ {i}, t[j] # Absent, NEW x \in {j} \cup t[j]
               PROVE  new[x] = t[x]
    BY Zenon
  <2>1. CASE x = j
    BY <1>2, <1>3, <1>4, <2>1, Names_Disjoint, Zenon DEF Names
  <2>2. CASE x \in t[j]
    <3>1. x \in Claims(wt, j) /\ x \in Paths /\ x # i
      BY <1>4, <2>2, Names_Disjoint, Zenon DEF Claims
    <3>2. x \notin planRelease(wt, i)
      BY <1>3, <3>1, Zenon DEF ClaimedTwice
    <3> QED
      BY <1>2, <3>1, <3>2, Zenon DEF Names
  <2> QED
    BY <2>1, <2>2, Zenon
<1>6. ASSUME i \notin Retain PROVE ~ClaimedTwice(new)
  <2>1. \A j \in Inventories : Claims(new, j) \subseteq Claims(wt, j)
    <3> TAKE j \in Inventories
    <3>1. new[j] = Absent \/ new[j] = t[j]
      BY <1>2, Zenon DEF Names
    <3> QED
      BY <1>4, <3>1, Zenon DEF Claims
  <2> QED
    BY <1>6, <2>1, Zenon DEF ClaimedTwice
<1> QED
  BY <1>1, <1>5, <1>6, Zenon

\* A release that is refused leaves nothing behind but the mirror.
LEMMA ReleaseRefusedStep ==
    ASSUME IInv, ReleaseRefused
    PROVE  IInv'
<1>1. PICK b, i, s : b = PushBranch[op.inv] /\ i = op.inv /\ s = op.payload
  BY Zenon
<1>2. op.pc = "local" /\ Fail /\ UNCHANGED <<commits, remote>> /\ mirror' = ReleaseBase(b)
  BY <1>1, Zenon DEF ReleaseRefused
<1>3. op # Free
  BY <1>2 DEF Free
<1>4. b \in Branches /\ mirror.warm
  BY <1>1, <1>2, <1>3, Branch_Assumption, Zenon DEF IInv, UnderWay, Operations
<1>5. mirror' \in Mirrors /\ mirror'.refs[Target] # 0 /\ mirror'.refs[mirror'.head] # 0
  <2>1. PICK m : m = ReleaseBase(b)
    BY Zenon
  <2>2. m \in Mirrors /\ m.refs[Target] # 0 /\ m.head = b /\ m.refs[b] # 0
    BY <1>4, <2>1, ReleaseBaseFacts, Zenon
  <2> QED
    BY <1>2, <2>1, <2>2, Zenon
<1>6. remote' \in [Branches -> Refs] /\ remote'[Target] # 0 /\ Anc(remote[Target])' = Anc(remote[Target])
  BY <1>2, Zenon DEF IInv, State, Anc
<1> QED
  BY <1>1, <1>2, <1>3, <1>5, <1>6, EndStep, Zenon

\* A release commits what it removes, pushes what an earlier attempt committed, or is done.
LEMMA DeleteRemoteStep ==
    ASSUME IInv, deleteRemote, NEW n, n = Len(commits) + 1
    PROVE  /\ IInv' /\ Extended
           /\ op'.pc = "push" /\ op'.commit > Len(commits) =>
                 /\ op'.commit = n
                 /\ \A j \in Inventories \ {op.inv} : Tree(Parent(n))'[j] # Absent =>
                       \A x \in {j} \cup Tree(Parent(n))'[j] : Tree(n)'[x] = Tree(Parent(n))'[x]
<1>1. PICK b, i, s : b = PushBranch[op.inv] /\ i = op.inv /\ s = op.payload
  BY Zenon
<1>2. PICK m : m = ReleaseBase(b)
  BY Zenon
<1>3. PICK plan : plan = planRelease(m.wt, i)
  BY Zenon
<1>4. PICK tree, wt : tree = Without(m.index, plan) /\ wt = Without(m.wt, plan)
  BY Zenon
<1>5. /\ op.pc = "local" /\ op.kind = "release" /\ UNCHANGED remote
      /\ i \in Retain \/ ~ClaimedTwice(m.wt)
      /\ \/ tree # m.index /\ Commit(m, b, tree, wt)
         \/ /\ tree = m.index
            /\ mirror' = [m EXCEPT !.wt = wt]
            /\ UNCHANGED commits
            /\ \/ /\ op' = [op EXCEPT !.pc = "push", !.commit = m.refs[b]]
                  /\ UNCHANGED <<fp, reported, want>>
               \/ Succeed
  BY <1>1, <1>2, <1>3, <1>4, Zenon DEF deleteRemote
<1>6. op # Free
  BY <1>5 DEF Free
<1>7. b \in Branches /\ mirror.warm /\ i \in Inventories /\ op \in Operations
  BY <1>1, <1>5, <1>6, Branch_Assumption, Zenon DEF IInv, UnderWay, Operations
<1>8. /\ m \in Mirrors /\ m.warm /\ m.head = b /\ m.refs[b] # 0 /\ m.refs[Target] # 0
      /\ m.index = Tree(m.refs[b])
      /\ ~Unstaged(m)
  BY <1>2, <1>7, ReleaseBaseFacts, Zenon
<1>9. m.index \in Trees /\ m.wt \in Trees
  BY <1>8, Zenon DEF Mirrors
<1>10. /\ tree \in Trees /\ wt \in Trees
       /\ \A j \in Inventories \ {i} : m.index[j] # Absent => \A x \in {j} \cup m.index[j] : tree[x] = m.index[x]
       /\ i \notin Retain => ~ClaimedTwice(tree)
  <2>1. PICK t, u : t = m.index /\ u = m.wt
    BY Zenon
  <2>2. /\ t \in Trees /\ u \in Trees /\ (i \in Retain \/ ~ClaimedTwice(u))
        /\ \A x \in Names : t[x] # Absent => u[x] = t[x]
    BY <1>5, <1>8, <1>9, <2>1, Zenon DEF Unstaged
  <2>3. tree = Without(t, planRelease(u, i)) /\ wt = Without(u, plan)
    BY <1>3, <1>4, <2>1, Zenon
  <2>4. /\ tree \in Trees
        /\ \A j \in Inventories \ {i} : t[j] # Absent => \A x \in {j} \cup t[j] : tree[x] = t[x]
        /\ i \notin Retain => ~ClaimedTwice(tree)
    BY <1>7, <2>2, <2>3, ReleasedFacts
  <2>5. wt \in Trees
    BY <2>2, <2>3, WithoutFacts, Zenon
  <2> QED
    BY <2>1, <2>4, <2>5, Zenon
<1>11. CASE tree # m.index /\ Commit(m, b, tree, wt)
  <2>1. /\ IInv' /\ Extended /\ op'.commit = n
        /\ Tree(n)' = tree /\ Tree(Parent(n))' = m.index
    BY <1>1, <1>5, <1>6, <1>7, <1>8, <1>10, <1>11, CommitStep
  <2> QED
    BY <1>1, <1>10, <2>1, Zenon
<1>12. CASE /\ tree = m.index /\ mirror' = [m EXCEPT !.wt = wt] /\ UNCHANGED commits
            /\ op' = [op EXCEPT !.pc = "push", !.commit = m.refs[b]]
            /\ UNCHANGED <<fp, reported, want>>
  <2>1. PICK r : r = m.refs[b]
    BY Zenon
  <2>2. r \in 1..Len(commits) /\ Len(commits) \in Nat
    BY <1>7, <1>8, <2>1 DEF Mirrors, Refs, IInv, History
  <2>3. History' /\ Extended /\ Refs' = Refs /\ Mirrors' = Mirrors
    BY <1>12, <2>2 DEF IInv, History, Extended, Refs, Mirrors, Anc
  <2>4. /\ mirror' \in Mirrors /\ mirror'.warm /\ mirror'.refs = m.refs /\ mirror'.head = b
    BY <1>8, <1>10, <1>12, Zenon DEF Mirrors
  <2>5. State'
    BY <1>5, <1>8, <1>12, <2>3, <2>4, Zenon DEF IInv, State
  <2>6. /\ op' \in Operations /\ op'.inv = i /\ op'.kind = "release" /\ op'.pc = "push" /\ op'.commit = r
    <3>1. r \in Nat /\ op' = [op EXCEPT !.pc = "push", !.commit = r]
      BY <1>12, <2>1, <2>2
    <3> QED
      BY <1>1, <1>5, <1>7, <3>1, Zenon DEF Operations
  <2>7. Tree(r)' = tree
    BY <1>8, <1>12, <2>1, Zenon DEF Tree
  <2>8. PushTip' = r
    BY <1>1, <2>1, <2>4, <2>6, Zenon DEF PushTip
  <2>9. UnderWay'
    BY <1>10, <1>12, <2>2, <2>4, <2>6, <2>7, <2>8, Zenon DEF UnderWay, Pushable
  <2>10. RecordsAreDeliveries'
    BY <1>5, <1>12 DEF IInv, RecordsAreDeliveries, Delivered, Holds, Tree, Anc
  <2> QED
    BY <2>2, <2>3, <2>5, <2>6, <2>9, <2>10 DEF IInv
<1>13. CASE tree = m.index /\ mirror' = [m EXCEPT !.wt = wt] /\ UNCHANGED commits /\ Succeed
  <2>1. mirror' \in Mirrors /\ mirror'.refs[Target] # 0 /\ mirror'.refs[mirror'.head] # 0
    BY <1>8, <1>10, <1>13, Zenon DEF Mirrors
  <2>2. remote' \in [Branches -> Refs] /\ remote'[Target] # 0 /\ Anc(remote[Target])' = Anc(remote[Target])
    BY <1>5, <1>13, Zenon DEF IInv, State, Anc
  <2>3. IInv'
    BY <1>1, <1>5, <1>6, <1>13, <2>1, <2>2, EndStep, Zenon
  <2>4. Extended
    <3>1. Len(commits) \in Nat
      BY DEF IInv, History
    <3> QED
      BY <1>13, <3>1 DEF Extended
  <2>5. op'.pc # "push"
    BY <1>13, Zenon DEF Succeed, Free
  <2> QED
    BY <2>3, <2>4, <2>5, Zenon
<1> QED
  BY <1>5, <1>11, <1>12, <1>13, Zenon

----------------------------------------------------------------------------
(* The other steps, and the invariant. *)

\* The fetch puts the clone branch of the mirror where the remote has it.
LEMMA FetchStep ==
    ASSUME IInv, Fetch
    PROVE  IInv'
<1>1. /\ op.pc = "fetch" /\ mirror' = openOrWarmMirror /\ op' = [op EXCEPT !.pc = "local"]
      /\ UNCHANGED <<commits, remote, fp, want, reported>>
  BY Zenon DEF Fetch
<1>2. op # Free
  BY <1>1 DEF Free
<1>3. op \in Operations /\ (op.kind = "export" => op.payload \in Payloads)
  BY <1>2, Zenon DEF IInv, UnderWay
<1>4. PICK r : r = remote[Target]
  BY Zenon
<1>5. r \in Refs /\ r # 0 /\ r \in 1..Len(commits) /\ Len(commits) \in Nat
  BY <1>4, Branch_Assumption DEF IInv, State, Refs, History
<1>6. r \in Anc(r) /\ Tree(r) \in Trees
  BY <1>5, TreeFacts, Zenon DEF IInv, History
<1>7. History' /\ Refs' = Refs /\ Mirrors' = Mirrors
  BY <1>1, <1>5, Zenon DEF IInv, History, Refs, Mirrors, Anc
<1>8. /\ mirror' \in Mirrors /\ mirror'.warm /\ mirror'.refs[Target] = r
      /\ mirror'.refs[mirror'.head] # 0
  <2>1. CASE mirror.warm
    <3>1. mirror' = [mirror EXCEPT !.refs[Target] = r]
      BY <1>1, <1>4, <2>1, Zenon DEF openOrWarmMirror
    <3>2. mirror \in Mirrors /\ mirror.refs[mirror.head] # 0
      BY <2>1, Zenon DEF IInv, State
    <3>3. /\ mirror' \in Mirrors /\ mirror'.warm = mirror.warm /\ mirror'.head = mirror.head
          /\ mirror'.refs = [mirror.refs EXCEPT ![Target] = r]
      BY <1>5, <3>1, <3>2, Branch_Assumption, Zenon DEF Mirrors
    <3> QED
      BY <1>5, <2>1, <3>2, <3>3, Branch_Assumption, Zenon DEF Mirrors
  <2>2. CASE ~mirror.warm
    <3>1. mirror' = [warm |-> TRUE, refs |-> [Cold.refs EXCEPT ![Target] = r], head |-> Target,
                     index |-> Tree(r), wt |-> Tree(r)]
      BY <1>1, <1>4, <2>2, Zenon DEF openOrWarmMirror
    <3>2. [Cold.refs EXCEPT ![Target] = r] \in [Branches -> Refs] /\ [Cold.refs EXCEPT ![Target] = r][Target] = r
      BY <1>5, Branch_Assumption DEF Cold, Refs
    <3> QED
      BY <1>5, <1>6, <3>1, <3>2, Branch_Assumption, Zenon DEF Mirrors
  <2> QED
    BY <2>1, <2>2, Zenon
<1>9. State'
  BY <1>1, <1>5, <1>7, <1>8, Zenon DEF IInv, State
<1>10. UnderWay'
  <2>1. /\ op' \in Operations /\ op'.kind = op.kind /\ op'.payload = op.payload /\ op'.pc = "local"
    BY <1>1, <1>3, Zenon DEF Operations
  <2>2. mirror'.refs[Target] \in Anc(remote[Target])'
    BY <1>1, <1>4, <1>6, <1>8, Zenon DEF Anc
  <2> QED
    BY <1>3, <1>8, <2>1, <2>2, Zenon DEF UnderWay
<1>11. RecordsAreDeliveries'
  BY <1>1 DEF IInv, RecordsAreDeliveries, Delivered, Holds, Tree, Anc
<1> QED
  BY <1>7, <1>9, <1>10, <1>11, Zenon DEF IInv

\* The steps that start an operation, or skip it, and what the users do.
LEMMA InventoryStep ==
    ASSUME IInv, NEW i \in Inventories,
           \/ shouldSkip(i) \/ ExportFilesWithBranch(i) \/ DeleteExportWithBranch(i)
           \/ Edit(i) \/ Delete(i)
    PROVE  IInv'
<1>1. UNCHANGED <<commits, remote, mirror, fp>>
  BY Zenon DEF shouldSkip, ExportFilesWithBranch, DeleteExportWithBranch, Edit, Delete
<1>2. History' /\ Refs' = Refs /\ Mirrors' = Mirrors
  BY <1>1, Zenon DEF IInv, History, Refs, Mirrors, Anc
<1>3. \A j, v : Delivered(j, v)' = Delivered(j, v)
  BY <1>1, Zenon DEF Delivered, Holds, Tree, Anc
<1>4. want \in [Inventories -> {Deleting, Gone} \cup Payloads] /\ fp \in [Inventories -> {None} \cup Payloads]
      /\ reported \in [Inventories -> {None} \cup Payloads]
  BY Zenon DEF IInv, State
<1>5. CASE shouldSkip(i)
  <2>1. reported' = [reported EXCEPT ![i] = fp[i]] /\ UNCHANGED <<want, op>>
    BY <1>5, Zenon DEF shouldSkip
  <2>2. State'
    BY <1>1, <1>2, <1>4, <2>1, Zenon DEF IInv, State
  <2>3. RecordsAreDeliveries'
    <3> SUFFICES ASSUME NEW j \in Direct
                 PROVE  /\ fp'[j] # None => Delivered(j, fp[j])'
                        /\ reported'[j] # None => Delivered(j, reported[j])'
      BY Zenon DEF RecordsAreDeliveries, Direct
    <3>1. PICK u, v : u = fp[j] /\ v = reported'[j]
      BY Zenon
    <3>2. v = u \/ v = reported[j]
      BY <1>4, <2>1, <3>1, Zenon DEF Direct
    <3>3. (u # None => Delivered(j, u)) /\ (v # None => Delivered(j, v))
      BY <3>1, <3>2, Zenon DEF IInv, RecordsAreDeliveries
    <3>4. (u # None => Delivered(j, u)') /\ (v # None => Delivered(j, v)')
      BY <1>3, <3>3, Zenon
    <3> QED
      BY <1>1, <3>1, <3>4, Zenon DEF Delivered, Holds
  <2>4. UnderWay'
    BY <1>5, Zenon DEF shouldSkip, UnderWay
  <2> QED
    BY <1>2, <2>2, <2>3, <2>4, Zenon DEF IInv
<1>6. CASE ExportFilesWithBranch(i) \/ DeleteExportWithBranch(i)
  <2>1. UNCHANGED <<want, reported>>
    BY <1>6, Zenon DEF ExportFilesWithBranch, DeleteExportWithBranch
  <2>2. State' /\ RecordsAreDeliveries'
    BY <1>1, <1>2, <1>3, <2>1, Zenon DEF IInv, State, RecordsAreDeliveries
  <2>3. op' \in Operations /\ op'.pc = "fetch" /\ (op'.kind = "export" => op'.payload \in Payloads)
    BY <1>4, <1>6, Payloads_Assumption DEF ExportFilesWithBranch, DeleteExportWithBranch, Live, Operations
  <2> QED
    BY <1>2, <2>2, <2>3, Zenon DEF IInv, UnderWay
<1>7. CASE Edit(i) \/ Delete(i)
  <2>1. UNCHANGED op /\ (reported' = reported \/ reported' = [reported EXCEPT ![i] = None])
        /\ want' \in [Inventories -> {Deleting, Gone} \cup Payloads]
    <3>1. CASE Edit(i)
      <4>1. PICK s \in Payloads : want' = [want EXCEPT ![i] = s]
        BY <3>1, Zenon DEF Edit
      <4>2. CASE want[i] = Gone
        BY <1>4, <3>1, <4>1, <4>2, Zenon DEF Edit
      <4>3. CASE want[i] # Gone
        BY <1>4, <3>1, <4>1, <4>3, Zenon DEF Edit
      <4> QED
        BY <4>2, <4>3, Zenon
    <3>2. CASE Delete(i)
      BY <1>4, <3>2, Zenon DEF Delete
    <3> QED
      BY <1>7, <3>1, <3>2, Zenon
  <2>2. \A j \in Inventories : reported'[j] \in {None, reported[j]}
    BY <1>4, <2>1, Zenon
  <2>3. State'
    BY <1>1, <1>2, <1>4, <2>1, Zenon DEF IInv, State
  <2>4. RecordsAreDeliveries'
    <3> SUFFICES ASSUME NEW j \in Direct
                 PROVE  /\ fp'[j] # None => Delivered(j, fp[j])'
                        /\ reported'[j] # None => Delivered(j, reported[j])'
      BY Zenon DEF RecordsAreDeliveries, Direct
    <3>1. PICK u, v : u = fp[j] /\ v = reported'[j]
      BY Zenon
    <3>2. v \in {None, reported[j]}
      BY <2>2, <3>1, Zenon DEF Direct
    <3>3. (u # None => Delivered(j, u)) /\ (v # None => Delivered(j, v))
      BY <3>1, <3>2, Zenon DEF IInv, RecordsAreDeliveries
    <3>4. (u # None => Delivered(j, u)') /\ (v # None => Delivered(j, v)')
      BY <1>3, <3>3, Zenon
    <3> QED
      BY <1>1, <3>1, <3>4, Zenon DEF Delivered, Holds
  <2>5. UnderWay'
    BY <1>1, <2>1, Zenon DEF IInv, UnderWay, Pushable, PushTip, Holds, Tree, Anc
  <2> QED
    BY <1>2, <2>3, <2>4, <2>5, Zenon DEF IInv
<1> QED
  BY <1>5, <1>6, <1>7, Zenon

\* A restart forgets the fingerprints and the operation, and keeps the mirror or not.
LEMMA RestartStep ==
    ASSUME IInv, Restart
    PROVE  IInv'
<1>1. /\ fp' = [i \in Inventories |-> None] /\ op' = Free /\ mirror' \in {mirror, Cold}
      /\ UNCHANGED <<commits, remote, want, reported>>
  BY Zenon DEF Restart
<1>2. History' /\ Refs' = Refs /\ Mirrors' = Mirrors
  BY <1>1, Zenon DEF IInv, History, Refs, Mirrors, Anc
<1>3. Cold \in Mirrors /\ ~Cold.warm
  <2>1. EmptyTree \in Trees
    BY Zenon DEF EmptyTree, Trees, Names
  <2>2. 0 \in Refs
    BY DEF IInv, History, Refs
  <2> QED
    BY <2>1, <2>2, Branch_Assumption, Zenon DEF Cold, Mirrors
<1>4. State'
  BY <1>1, <1>2, <1>3, Zenon DEF IInv, State
<1>5. UnderWay'
  BY <1>1, Zenon DEF UnderWay
<1>6. RecordsAreDeliveries'
  BY <1>1 DEF IInv, RecordsAreDeliveries, Delivered, Holds, Tree, Anc, Direct
<1> QED
  BY <1>2, <1>4, <1>5, <1>6, Zenon DEF IInv

\* Others push a commit to a branch, or merge one: every branch that stays only grows.
LEMMA OutsideStep ==
    ASSUME IInv, NEW b \in Branches, OutsidePush(b) \/ Merge(b)
    PROVE  IInv' /\ \A d \in Branches : remote'[d] # 0 => Anc(remote[d]) \subseteq Anc(remote[d])'
<1>1. PICK n : n = Len(commits) + 1
  BY Zenon
<1>2. /\ remote \in [Branches -> Refs] /\ remote[Target] # 0 /\ Target \in Branches
      /\ Len(commits) \in Nat /\ UNCHANGED <<mirror, fp, want, reported, op>>
  BY Branch_Assumption DEF IInv, State, History, OutsidePush, Merge
<1>3. remote[b] # 0 /\ \A d \in Branches : remote[d] # 0 => Tree(remote[d]) \in Trees
  BY <1>2, TreeFacts DEF IInv, OutsidePush, Merge, Refs
<1>4. CASE OutsidePush(b)
  <2>1. PICK t : t = Tree(remote[b])
    BY Zenon
  <2>2. PICK P : P = {remote[b]}
    BY Zenon
  <2>3. t \in Trees /\ P \in SUBSET Refs /\ P \ {0} # {} /\ commits' = NewCommit(t, P)
    BY <1>2, <1>3, <1>4, <2>1, <2>2, Zenon DEF OutsidePush
  <2>4. /\ History' /\ Extended /\ Len(commits') = n /\ n \in Nat
        /\ Anc(n)' = Ancestors(P) \cup {n}
    BY <1>1, <2>3, NewCommitFacts, Zenon DEF IInv
  <2>5. remote' = [remote EXCEPT ![b] = n]
    BY <1>4, <2>4, Zenon DEF OutsidePush
  <2>6. \A c \in Refs : c \in Refs' /\ Anc(c)' = Anc(c)
    BY <2>4, ExtendedFacts, Zenon DEF IInv
  <2>7. n \in Refs' /\ n # 0
    BY <1>1, <1>2, <2>4 DEF Refs
  <2>8. remote' \in [Branches -> Refs'] /\ remote'[Target] # 0
    BY <1>2, <2>5, <2>6, <2>7, Zenon
  <2>9. \A d \in Branches : Anc(remote[d]) \subseteq Anc(remote[d])'
    <3> TAKE d \in Branches
    <3>1. PICK old, new : old = remote[d] /\ new = remote'[d]
      BY Zenon
    <3>2. old \in Refs /\ Anc(old)' = Anc(remote[d]) /\ Anc(new)' = Anc(remote[d])'
      BY <1>2, <2>6, <3>1, Zenon DEF Anc
    <3>3. CASE d = b
      <4>1. new = n /\ Anc(old) \subseteq Ancestors(P)
        BY <1>2, <2>2, <2>5, <3>1, <3>3, Zenon DEF Ancestors
      <4> QED
        BY <2>4, <2>6, <3>2, <4>1, Zenon
    <3>4. CASE d # b
      BY <1>2, <2>5, <3>1, <3>2, <3>4, Zenon
    <3> QED
      BY <3>3, <3>4, Zenon
  <2>10. IInv'
    BY <1>2, <2>4, <2>8, <2>9, OthersStep, Zenon
  <2> QED
    BY <2>9, <2>10, Zenon
<1>5. CASE Merge(b)
  <2>1. PICK P : P = {remote[Target], remote[b]}
    BY Zenon
  <2>2. PICK ours, theirs, base : /\ ours = Tree(remote[Target]) /\ theirs = Tree(remote[b])
                                 /\ base = Tree(MergeBase(remote[Target], remote[b]))
    BY Zenon
  <2>3. PICK t : t = [x \in Names |-> IF ours[x] = base[x] THEN theirs[x] ELSE ours[x]]
    BY Zenon
  <2>4. PICK kept \in {remote[b], 0} : remote' = [remote EXCEPT ![Target] = Len(commits'), ![b] = kept]
    BY <1>5, Zenon DEF Merge
  <2>5. b # Target /\ commits' = NewCommit(t, P)
    BY <1>5, <2>1, <2>2, <2>3, Zenon DEF Merge
  <2>6. ours \in Trees /\ theirs \in Trees
    BY <1>2, <1>3, <2>2, Zenon
  <2>7. t \in Trees /\ P \in SUBSET Refs /\ P \ {0} # {}
    BY <1>2, <2>1, <2>3, <2>6, Zenon DEF Trees, Names
  <2>8. /\ History' /\ Extended /\ Len(commits') = n /\ n \in Nat
        /\ Anc(n)' = Ancestors(P) \cup {n}
    BY <1>1, <2>5, <2>7, NewCommitFacts, Zenon DEF IInv
  <2>9. \A c \in Refs : c \in Refs' /\ Anc(c)' = Anc(c)
    BY <2>8, ExtendedFacts, Zenon DEF IInv
  <2>10. n \in Refs' /\ n # 0 /\ 0 \in Refs
    BY <1>1, <1>2, <2>8 DEF Refs
  <2>11. /\ remote'[Target] = n /\ remote'[b] \in {remote[b], 0}
         /\ \A d \in Branches \ {Target, b} : remote'[d] = remote[d]
         /\ remote' \in [Branches -> Refs']
    BY <1>2, <2>4, <2>5, <2>8, <2>9, <2>10, Zenon
  <2>12. \A d \in Branches : remote'[d] # 0 => Anc(remote[d]) \subseteq Anc(remote[d])'
    <3> SUFFICES ASSUME NEW d \in Branches, remote'[d] # 0 PROVE Anc(remote[d]) \subseteq Anc(remote[d])'
      BY Zenon
    <3>1. PICK old, new : old = remote[d] /\ new = remote'[d]
      BY Zenon
    <3>2. old \in Refs /\ Anc(old)' = Anc(remote[d]) /\ Anc(new)' = Anc(remote[d])'
      BY <1>2, <2>9, <3>1, Zenon DEF Anc
    <3>3. CASE d = Target
      <4>1. new = n /\ Anc(old) \subseteq Ancestors(P)
        BY <2>1, <2>11, <3>1, <3>3, Zenon DEF Ancestors
      <4> QED
        BY <2>8, <2>9, <3>2, <4>1, Zenon
    <3>4. CASE d # Target
      BY <2>11, <3>1, <3>2, <3>4, Zenon
    <3> QED
      BY <3>3, <3>4, Zenon
  <2>13. remote'[Target] # 0 /\ Anc(remote[Target]) \subseteq Anc(remote[Target])'
    BY <1>2, <2>10, <2>11, <2>12, Zenon
  <2>14. IInv'
    BY <1>2, <2>8, <2>11, <2>13, OthersStep, Zenon
  <2> QED
    BY <2>12, <2>14, Zenon
<1> QED
  BY <1>4, <1>5, Zenon

\* The invariant holds at the start: one commit, nothing recorded.
LEMMA InitIInv ==
    ASSUME Init
    PROVE  IInv
<1>1. EmptyTree \in Trees
  BY Zenon DEF EmptyTree, Trees, Names
<1>2. /\ commits = <<[tree |-> EmptyTree, anc |-> {1}]>> /\ Len(commits) = 1
      /\ commits[1] = [tree |-> EmptyTree, anc |-> {1}]
  BY Zenon DEF Init
<1>3. History
  <2>1. commits \in Seq([tree : Trees, anc : SUBSET Nat])
    BY <1>1, <1>2
  <2>2. \A c \in 1..Len(commits) : c = 1 /\ Anc(c) = {1}
    BY <1>2 DEF Anc
  <2> QED
    BY <2>1, <2>2 DEF History
<1>4. Refs = {0, 1}
  BY <1>2 DEF Refs
<1>5. State
  <2>1. Cold \in Mirrors /\ ~Cold.warm
    BY <1>1, <1>4, Branch_Assumption, Zenon DEF Cold, Mirrors
  <2> QED
    BY <1>4, <2>1, Branch_Assumption DEF Init, State
<1>6. UnderWay
  BY Zenon DEF Init, UnderWay
<1>7. RecordsAreDeliveries
  BY Zenon DEF Init, RecordsAreDeliveries, Direct
<1> QED
  BY <1>3, <1>5, <1>6, <1>7, Zenon DEF IInv

\* ... and every step keeps it.
LEMMA NextIInv ==
    ASSUME IInv, [Next]_vars
    PROVE  IInv'
<1>1. PICK n : n = Len(commits) + 1
  BY Zenon
<1>2. CASE \E i \in Inventories : \/ shouldSkip(i) \/ ExportFilesWithBranch(i)
                                  \/ DeleteExportWithBranch(i) \/ Edit(i) \/ Delete(i)
  BY <1>2, InventoryStep, Zenon
<1>3. CASE Operation
  <2>1. CASE CheckoutFails \/ ClaimRefused \/ WriteFails
    BY <2>1, ExportFailsStep, Zenon
  <2>2. CASE Fetch
    BY <2>2, FetchStep, Zenon
  <2>3. CASE StatusClean
    BY <2>3, StatusCleanStep, Zenon
  <2>4. CASE exportRemoteInWorkdir
    BY <1>1, <2>4, ExportCommitStep, Zenon
  <2>5. CASE pushCommitted
    BY <2>5, PushCommittedStep, Zenon
  <2>6. CASE PushUnanswered
    BY <2>6, PushUnansweredStep, Zenon
  <2>7. CASE syncRemoteBeforePush
    BY <2>7, SyncStep, Zenon
  <2>8. CASE RemoteFails
    BY <2>8, RemoteFailsStep, Zenon
  <2>9. CASE ReleaseRefused
    BY <2>9, ReleaseRefusedStep, Zenon
  <2>10. CASE deleteRemote
    BY <1>1, <2>10, DeleteRemoteStep, Zenon
  <2> QED
    BY <1>3, <2>1, <2>2, <2>3, <2>4, <2>5, <2>6, <2>7, <2>8, <2>9, <2>10, Zenon DEF Operation
<1>4. CASE Restart
  BY <1>4, RestartStep, Zenon
<1>5. CASE \E b \in Branches : OutsidePush(b) \/ Merge(b)
  BY <1>5, OutsideStep, Zenon
<1>6. CASE UNCHANGED vars
  BY <1>6 DEF vars, IInv, History, State, UnderWay, RecordsAreDeliveries, Refs, Mirrors, Pushable,
              PushTip, Delivered, Holds, Tree, Anc
<1> QED
  BY <1>2, <1>3, <1>4, <1>5, <1>6, Zenon DEF Next

----------------------------------------------------------------------------
(* Theorems. *)

\* Ancestry, the mirror, the operation under way and the records of deliveries stay as
\* IInv says, through every export, release, failure, restart and push by others.
THEOREM GitInvariance == Spec => []IInv
BY InitIInv, NextIInv, PTL DEF Spec

\* The invariant has the types in it.
LEMMA IInvTypes ==
    ASSUME IInv
    PROVE  TypeOK
<1> DEFINE IsTree(t) == /\ DOMAIN t = Names
                        /\ \A i \in Inventories : t[i] \in {Absent} \cup Payloads
                        /\ \A p \in Paths : t[p] \in {Absent} \cup Inventories
<1>1. \A t \in Trees : IsTree(t)
  BY Zenon DEF Trees
<1> HIDE DEF IsTree
<1>2. \A c \in 1..Len(commits) : IsTree(Tree(c)) /\ c \in Anc(c) /\ Anc(c) \subseteq 1..c
  BY <1>1, TreeFacts, Zenon DEF IInv, History
<1>3. /\ remote \in [Branches -> 0..Len(commits)] /\ remote[Target] # 0
      /\ mirror.refs \in [Branches -> 0..Len(commits)] /\ mirror.head \in Branches
      /\ IsTree(mirror.index) /\ IsTree(mirror.wt)
      /\ mirror.warm => mirror.refs[Target] # 0 /\ mirror.refs[mirror.head] # 0
  BY <1>1, Zenon DEF IInv, State, Mirrors, Refs
<1>4. \A i \in Inventories : /\ fp[i] \in {None} \cup Payloads
                            /\ reported[i] \in {None} \cup Payloads
                            /\ want[i] \in {Deleting, Gone} \cup Payloads
  BY Zenon DEF IInv, State
<1>5. /\ op.inv \in {None} \cup Inventories
      /\ op.pc \in {"idle", "fetch", "local", "push"}
      /\ op.pc = "push" => op.commit \in 1..Len(commits)
  <2>1. CASE op = Free
    BY <2>1, Zenon DEF Free
  <2>2. CASE op # Free
    BY <2>2, Zenon DEF IInv, UnderWay, Operations, Pushable
  <2> QED
    BY <2>1, <2>2, Zenon
<1> QED
  BY <1>2, <1>3, <1>4, <1>5, Zenon DEF TypeOK, IsTree

\* Trees keep their shape, refs point to commits, and a warm mirror has the clone branch.
THEOREM GitTypes == Spec => []TypeOK
BY GitInvariance, IInvTypes, PTL

\* An export in direct mode that was reported successful is in the history of the
\* branch it was pushed to (REL-08), for good: whether the push landed, was overtaken
\* and verified, or there was nothing to commit after the fetch.
THEOREM ReportsAreDelivered == Spec => []ReportedIsDelivered
<1>1. IInv => ReportedIsDelivered
  BY Zenon DEF IInv, RecordsAreDeliveries, ReportedIsDelivered, Delivered
<1> QED
  BY <1>1, GitInvariance, PTL

\* What an export, or a release that takes files with it, pushes claims no path twice
\* (IEI-5), whatever merge requests left on the clone branch.
THEOREM ClaimsStaySingle == Spec => []SingleClaims
<1>1. IInv => SingleClaims
  BY DEF IInv, UnderWay, Pushable, SingleClaims, Free
<1> QED
  BY <1>1, GitInvariance, PTL

\* No step takes a commit from the clone branch.
LEMMA Appends ==
    ASSUME IInv, [Next]_vars
    PROVE  Anc(remote[Target]) \subseteq Anc(remote[Target])'
<1>1. PICK n, r : n = Len(commits) + 1 /\ r = remote[Target]
  BY Zenon
<1>2. History /\ History' /\ r \in Refs
  BY <1>1, NextIInv, Branch_Assumption, Zenon DEF IInv, State
<1>3. ASSUME Extended, UNCHANGED remote PROVE Anc(remote[Target]) \subseteq Anc(remote[Target])'
  <2>1. Anc(r)' = Anc(r) /\ remote'[Target] = r
    BY <1>1, <1>2, <1>3, ExtendedFacts, Zenon
  <2> QED
    BY <1>1, <2>1, Zenon DEF Anc
<1>4. ASSUME UNCHANGED <<commits, remote>> PROVE Anc(remote[Target]) \subseteq Anc(remote[Target])'
  BY <1>4, Zenon DEF Anc
<1>5. CASE \/ \E i \in Inventories : \/ shouldSkip(i) \/ ExportFilesWithBranch(i)
                                     \/ DeleteExportWithBranch(i) \/ Edit(i) \/ Delete(i)
           \/ Restart \/ UNCHANGED vars
           \/ Fetch \/ CheckoutFails \/ ClaimRefused \/ WriteFails \/ StatusClean
           \/ syncRemoteBeforePush \/ RemoteFails \/ ReleaseRefused
  <2>1. UNCHANGED <<commits, remote>>
    BY <1>5, Zenon DEF shouldSkip, ExportFilesWithBranch, DeleteExportWithBranch, Edit, Delete, Restart,
       vars, Fetch, CheckoutFails, ClaimRefused, WriteFails, StatusClean, syncRemoteBeforePush,
       RemoteFails, ReleaseRefused
  <2> QED
    BY <1>4, <2>1, Zenon
<1>6. CASE exportRemoteInWorkdir
  BY <1>1, <1>3, <1>6, ExportCommitStep, Zenon DEF exportRemoteInWorkdir
<1>7. CASE deleteRemote
  BY <1>1, <1>3, <1>7, DeleteRemoteStep, Zenon DEF deleteRemote
<1>8. CASE pushCommitted \/ PushUnanswered
  <2>1. PICK d, c : d = PushBranch[op.inv] /\ c = op.commit
    BY Zenon
  <2>2. op.pc = "push" /\ Accepted /\ Landed /\ UNCHANGED commits
    BY <1>8, Zenon DEF pushCommitted, PushUnanswered
  <2> QED
    BY <2>1, <2>2, LandedFacts, Zenon
<1>9. CASE \E d \in Branches : OutsidePush(d) \/ Merge(d)
  <2>1. remote'[Target] # 0
    BY NextIInv, Zenon DEF IInv, State
  <2> QED
    BY <1>9, <2>1, OutsideStep, Branch_Assumption, Zenon
<1> QED
  BY <1>5, <1>6, <1>7, <1>8, <1>9, Zenon DEF Next, Operation

\* No push of the operator with the policy Commit, retried after whatever failure, takes a
\* commit from the clone branch, and no forced push of a feature branch does (ADR-0407).
THEOREM HistoryIsAppended == Spec => AppendOnly
<1>1. IInv /\ [Next]_vars =>
        [Anc(remote[Target]) \subseteq Anc(remote[Target])']_vars
  BY Appends, Zenon
<1> QED
  BY <1>1, GitInvariance, PTL DEF Spec, AppendOnly

\* The commits of the operator leave alone what other inventories claim.
LEMMA Untouched ==
    ASSUME IInv, [Next]_vars, op.pc = "local", op'.pc = "push", op'.commit > Len(commits),
           NEW j \in Inventories \ {op.inv}, NEW n, n = op'.commit,
           NEW old, old = Tree(Parent(n))', NEW new, new = Tree(n)', old[j] # Absent,
           NEW x \in {j} \cup old[j], old[x] # Absent
    PROVE  new[x] = old[x]
<1>1. PICK k : k = Len(commits) + 1
  BY Zenon
<1>2. CASE exportRemoteInWorkdir
  BY <1>1, <1>2, ExportCommitStep, Zenon
<1>3. CASE deleteRemote
  BY <1>1, <1>3, DeleteRemoteStep, Zenon
<1>4. ~(\E i \in Inventories : \/ shouldSkip(i) \/ ExportFilesWithBranch(i)
                               \/ DeleteExportWithBranch(i) \/ Edit(i) \/ Delete(i))
  BY DEF shouldSkip, ExportFilesWithBranch, DeleteExportWithBranch, Edit, Delete, Free
<1>5. ~(Restart \/ UNCHANGED vars \/ \E b \in Branches : OutsidePush(b) \/ Merge(b))
  <2>1. Restart => op' = Free
    BY Zenon DEF Restart
  <2>2. UNCHANGED vars => op' = op
    BY Zenon DEF vars
  <2>3. \A b \in Branches : OutsidePush(b) => op' = op
    BY Zenon DEF OutsidePush
  <2>4. \A b \in Branches : Merge(b) => op' = op
    BY Zenon DEF Merge
  <2>5. op' # Free /\ op' # op
    BY DEF Free
  <2> QED
    BY <2>1, <2>2, <2>3, <2>4, <2>5, Zenon
<1>6. ~(Fail \/ Succeed)
  BY DEF Fail, Succeed, Free
<1>7. ~(CheckoutFails \/ ClaimRefused \/ WriteFails \/ StatusClean \/ RemoteFails \/ ReleaseRefused)
  BY <1>6, Zenon DEF CheckoutFails, ClaimRefused, WriteFails, StatusClean, RemoteFails, ReleaseRefused
<1>8. ~(pushCommitted \/ PushUnanswered \/ syncRemoteBeforePush \/ Fetch)
  BY Zenon DEF pushCommitted, PushUnanswered, syncRemoteBeforePush, Fetch
<1> QED
  BY <1>2, <1>3, <1>4, <1>5, <1>7, <1>8, Zenon DEF Next, Operation

\* No commit of an export or a release changes the record of another inventory, or a
\* file that it claims and that is there (IEI-2, ROD-3), though the mirror may hold what
\* a failed export left.
THEOREM OthersStayUntouched == Spec => ForeignUntouched
<1>1. IInv /\ [Next]_vars =>
        [op.pc = "local" /\ op'.pc = "push" /\ op'.commit > Len(commits) =>
            LET old == Tree(Parent(op.commit))'
                new == Tree(op.commit)' IN
            \A j \in Inventories \ {op.inv} : old[j] # Absent =>
                \A x \in {j} \cup old[j] : old[x] # Absent => new[x] = old[x]]_vars
  <2> SUFFICES ASSUME IInv, [Next]_vars, op.pc = "local", op'.pc = "push", op'.commit > Len(commits),
                      NEW j \in Inventories \ {op.inv}, Tree(Parent(op.commit))'[j] # Absent,
                      NEW x \in {j} \cup Tree(Parent(op.commit))'[j], Tree(Parent(op.commit))'[x] # Absent
               PROVE  Tree(op.commit)'[x] = Tree(Parent(op.commit))'[x]
    BY Zenon
  <2>1. PICK n : n = op'.commit
    BY Zenon
  <2>2. PICK old, new : old = Tree(Parent(n))' /\ new = Tree(n)'
    BY Zenon
  <2>3. old = Tree(Parent(op.commit))' /\ new = Tree(op.commit)'
    BY <2>1, <2>2, Zenon
  <2>4. old[j] # Absent /\ x \in {j} \cup old[j] /\ old[x] # Absent
    BY <2>3, Zenon
  <2>5. new[x] = old[x]
    BY <2>1, <2>2, <2>4, Untouched
  <2> QED
    BY <2>3, <2>5, Zenon
<1> QED
  BY <1>1, GitInvariance, PTL DEF Spec, ForeignUntouched
============================================================================
