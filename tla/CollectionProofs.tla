-------------------------- MODULE CollectionProofs --------------------------
(***************************************************************************)
(* Proofs about Collection for every set of targets, objects and workers,  *)
(* every queue size and every value of the bounds.                         *)
(***************************************************************************)
EXTENDS Collection, TLAPS

-----------------------------------------------------------------------------
(* What the registry, the cache and the workers keep. *)

Indexed(k, t) == \E i \in DOMAIN byGVR[k] : byGVR[k][i] = t

\* targetsByGVR lists every registered target once, under its kind.
IndexIsExact ==
    \A k \in Kinds :
        /\ \A t \in Targets : Indexed(k, t) <=> targets[t] # NoSpec /\ targets[t].kind = k
        /\ \A i, j \in DOMAIN byGVR[k] : byGVR[k][i] = byGVR[k][j] => i = j

\* A call is about a registration it made or took away; one call at a time fills.
CallsAreOrderly ==
    \A t \in Targets :
        /\ rec[t].pc \in {"informer", "filling"} => targets[t] # NoSpec
        /\ rec[t].pc = "clear" => targets[t] = NoSpec
        /\ rec[t].pc # "filling" => rec[t].list = {}
        /\ \A u \in Targets : rec[t].pc = "filling" /\ rec[u].pc = "filling" => t = u

\* An object is in an indexer as it was at some time; an informer that does not
\* run knows none.
CacheFollows ==
    \A o \in Objects :
        /\ cache[o].tag # "absent" => api[o].tag # "absent"
        /\ cache[o].tag = "gone" => api[o] = cache[o]
        /\ KindOf[o] \notin started => cache[o] = Absent

Beyond(w) == worker[w].pc \in {"match", "access", "upsert"}

\* A worker that has copied the states has one before it, and gets past the match
\* with a live object that the state matches, to the upsert with a readable one.
WorkersAreOrderly ==
    \A w \in Workers :
        /\ Beyond(w) => worker[w].states # <<>>
        /\ worker[w].pc \in {"access", "upsert"} =>
              ~Deleted(worker[w].job) /\ matchesTarget(Cur(w).spec, worker[w].job)
        /\ worker[w].pc = "upsert" => worker[w].job.tag = "match"

IInv == TypeOK /\ IndexIsExact /\ CallsAreOrderly /\ CacheFollows /\ WorkersAreOrderly
        /\ NoOrphanRows

-----------------------------------------------------------------------------
(* Sequences. *)

About(s, o) == \E i \in DOMAIN s : s[i].obj = o

\* The last job of s about the object, if there is one, is j.
LastIs(s, o, j) ==
    \A i \in DOMAIN s :
        s[i].obj = o /\ (\A n \in DOMAIN s : n > i => s[n].obj # o) => s[i] = j

\* The entry of a key that is listed once is taken out, and the rest stays.
LEMMA WithoutFacts ==
    ASSUME NEW T, NEW s \in Seq(T), NEW e, \A i, j \in DOMAIN s : s[i] = s[j] => i = j
    PROVE  LET r == Without(s, e) IN
           /\ r \in Seq(T)
           /\ \A i, j \in DOMAIN r : r[i] = r[j] => i = j
           /\ \A x : (\E i \in DOMAIN r : r[i] = x) <=> x # e /\ \E i \in DOMAIN s : s[i] = x
<1> DEFINE r == Without(s, e)
<1>1. CASE ~\E i \in 1..Len(s) : s[i] = e
  <2>1. r = s
    BY <1>1 DEF Without
  <2> QED
    BY <1>1, <2>1
<1>2. CASE \E i \in 1..Len(s) : s[i] = e
  <2>1. PICK p \in 1..Len(s) : s[p] = e
    BY <1>2, Zenon
  <2>2. DOMAIN s = 1..Len(s) /\ Len(s) \in Nat
    OBVIOUS
  <2>3. (CHOOSE n \in DOMAIN s : s[n] = e /\ \A m \in 1..(n - 1) : s[m] # e) = p
    <3>1. s[p] = e /\ \A m \in 1..(p - 1) : s[m] # e
      BY <2>1, <2>2
    <3>2. \A n \in DOMAIN s : s[n] = e => n = p
      BY <2>1, <2>2, Zenon
    <3> QED
      BY <2>1, <2>2, <3>1, <3>2, Zenon
  <2>4. r = SubSeq(s, 1, p - 1) \o SubSeq(s, p + 1, Len(s))
    BY <2>1, <2>2, <2>3, Zenon DEF Without
  <2>5. /\ r \in Seq(T) /\ Len(r) = Len(s) - 1
        /\ \A i \in 1..Len(r) : r[i] = IF i < p THEN s[i] ELSE s[i + 1]
    <3> DEFINE a == SubSeq(s, 1, p - 1)
               b == SubSeq(s, p + 1, Len(s))
    <3>1. a \in Seq(T) /\ Len(a) = p - 1 /\ \A i \in 1..(p - 1) : a[i] = s[i]
      BY <2>1, <2>2
    <3>2. b \in Seq(T) /\ Len(b) = Len(s) - p /\ \A i \in 1..(Len(s) - p) : b[i] = s[p + i]
      <4>1. b \in Seq(T)
        BY <2>1, <2>2
      <4>2. Len(b) = Len(s) - p
        <5> DEFINE n == Len(s)
        <5>1. n \in Nat /\ p \in 1..n
          BY <2>1, <2>2, Zenon
        <5>2. p + 1 <= n => Len(b) = n - (p + 1) + 1
          BY <5>1
        <5>3. ~(p + 1 <= n) => Len(b) = 0
          BY <5>1
        <5> HIDE DEF b, n
        <5>4. Len(b) = n - p
          BY <5>1, <5>2, <5>3
        <5> QED
          BY <5>4, Zenon DEF n
      <4>3. \A i \in 1..(Len(s) - p) : b[i] = s[p + i]
        <5> TAKE i \in 1..(Len(s) - p)
        <5>1. b[i] = s[(p + 1) + i - 1]
          BY <2>1, <2>2
        <5> QED
          BY <2>1, <2>2, <5>1
      <4> QED
        BY <4>1, <4>2, <4>3, Zenon
    <3> HIDE DEF a, b
    <3>3. /\ a \o b \in Seq(T) /\ Len(a \o b) = Len(a) + Len(b)
          /\ \A i \in 1..(Len(a) + Len(b)) :
                (a \o b)[i] = IF i <= Len(a) THEN a[i] ELSE b[i - Len(a)]
      <4>1. a \o b \in Seq(T)
        BY <3>1, <3>2
      <4>2. Len(a \o b) = Len(a) + Len(b)
        <5>1. a \in Seq(T) /\ b \in Seq(T)
          BY <3>1, <3>2, Zenon
        <5> QED
          BY <5>1
      <4>3. \A i \in 1..(Len(a) + Len(b)) :
                (a \o b)[i] = IF i <= Len(a) THEN a[i] ELSE b[i - Len(a)]
        BY <3>1, <3>2
      <4> QED
        BY <4>1, <4>2, <4>3, Zenon
    <3>4. r = a \o b
      BY <2>4, Zenon DEF a, b
    <3> HIDE DEF r
    <3>5. r \in Seq(T) /\ Len(r) = Len(s) - 1
      <4>1. r \in Seq(T) /\ Len(r) = Len(a) + Len(b)
        BY <3>3, <3>4, Zenon
      <4>2. Len(a) + Len(b) = Len(s) - 1
        BY <2>1, <3>1, <3>2
      <4> QED
        BY <4>1, <4>2, Zenon
    <3>6. ASSUME NEW i \in 1..Len(r) PROVE r[i] = IF i < p THEN s[i] ELSE s[i + 1]
      <4>1. CASE i < p
        BY <2>1, <3>1, <3>2, <3>3, <3>4, <3>5, <4>1
      <4>2. CASE ~(i < p)
        <5>1. r[i] = b[i - (p - 1)] /\ i - (p - 1) \in 1..(Len(s) - p)
          BY <2>1, <3>1, <3>2, <3>3, <3>4, <3>5, <4>2
        <5>2. b[i - (p - 1)] = s[p + (i - (p - 1))]
          BY <3>2, <5>1, Zenon
        <5>3. p + (i - (p - 1)) = i + 1
          BY <2>1, <3>5
        <5> QED
          BY <4>2, <5>1, <5>2, <5>3, Zenon
      <4> QED
        BY <4>1, <4>2, Zenon
    <3> QED
      BY <3>5, <3>6, Zenon
  <2> HIDE DEF r
  <2>6. \A i, j \in DOMAIN r : r[i] = r[j] => i = j
    BY <2>1, <2>5
  <2>7. ASSUME NEW x
        PROVE  (\E i \in DOMAIN r : r[i] = x) <=> x # e /\ \E i \in DOMAIN s : s[i] = x
    <3>1. ASSUME NEW i \in DOMAIN r, r[i] = x
          PROVE  x # e /\ \E n \in DOMAIN s : s[n] = x
      <4>1. CASE i < p
        BY <2>1, <2>5, <3>1, <4>1
      <4>2. CASE i >= p
        <5>1. i + 1 \in DOMAIN s /\ s[i + 1] = x /\ i + 1 # p
          BY <2>1, <2>5, <3>1, <4>2
        <5> QED
          BY <2>1, <5>1
      <4> QED
        BY <2>1, <2>5, <4>1, <4>2
    <3>2. ASSUME NEW i \in DOMAIN s, s[i] = x, x # e
          PROVE  \E n \in DOMAIN r : r[n] = x
      <4>1. i # p
        BY <2>1, <3>2, Zenon
      <4>2. CASE i < p
        <5>1. i \in DOMAIN r /\ r[i] = x
          BY <2>1, <2>5, <3>2, <4>2
        <5> QED
          BY <5>1, Zenon
      <4>3. CASE i > p
        <5>1. i - 1 \in DOMAIN r /\ r[i - 1] = x
          BY <2>1, <2>5, <3>2, <4>3
        <5> QED
          BY <5>1, Zenon
      <4> QED
        BY <2>1, <4>1, <4>2, <4>3
    <3> QED
      BY <3>1, <3>2, Zenon
  <2> QED
    BY <2>5, <2>6, <2>7, Zenon DEF r
<1> QED
  BY <1>1, <1>2, Zenon

\* Appending a job: it is the last one about its object.
LEMMA AppendFacts ==
    ASSUME NEW s \in Seq(Job), NEW j \in Job, NEW o
    PROVE  /\ Append(s, j) \in Seq(Job) /\ Len(Append(s, j)) = Len(s) + 1
           /\ About(Append(s, j), o) <=> About(s, o) \/ j.obj = o
           /\ \A n : j.obj # o /\ LastIs(s, o, n) => LastIs(Append(s, j), o, n)
           /\ j.obj = o => LastIs(Append(s, j), o, j)
<1> DEFINE a == Append(s, j)
<1>1. /\ a \in Seq(Job) /\ Len(a) = Len(s) + 1 /\ a[Len(s) + 1] = j
      /\ \A i \in 1..Len(s) : a[i] = s[i]
      /\ DOMAIN a = 1..(Len(s) + 1) /\ DOMAIN s = 1..Len(s) /\ Len(s) \in Nat
  OBVIOUS
<1> HIDE DEF a
<1>2. About(a, o) <=> About(s, o) \/ j.obj = o
  BY <1>1 DEF About
<1>3. \A n : j.obj # o /\ LastIs(s, o, n) => LastIs(a, o, n)
  BY <1>1 DEF LastIs
<1>4. j.obj = o => LastIs(a, o, j)
  BY <1>1 DEF LastIs
<1> QED
  BY <1>1, <1>2, <1>3, <1>4, Zenon DEF a

\* Taking the first job: if it was the only one about its object, it was the last.
LEMMA TailFacts ==
    ASSUME NEW s \in Seq(Job), s # <<>>, NEW o
    PROVE  /\ Tail(s) \in Seq(Job) /\ Len(Tail(s)) = Len(s) - 1 /\ Head(s) \in Job
           /\ About(s, o) <=> About(Tail(s), o) \/ Head(s).obj = o
           /\ \A n : LastIs(s, o, n) => LastIs(Tail(s), o, n)
           /\ \A n : LastIs(s, o, n) /\ ~About(Tail(s), o) /\ Head(s).obj = o => Head(s) = n
<1> DEFINE a == Tail(s)
<1>1. /\ a \in Seq(Job) /\ Len(a) = Len(s) - 1 /\ Head(s) = s[1] /\ s[1] \in Job
      /\ \A i \in 1..Len(a) : a[i] = s[i + 1]
      /\ DOMAIN a = 1..Len(a) /\ DOMAIN s = 1..Len(s) /\ Len(s) \in Nat /\ Len(s) > 0
  OBVIOUS
<1> HIDE DEF a
<1>2. \A i \in DOMAIN s : i # 1 => i - 1 \in DOMAIN a /\ a[i - 1] = s[i]
  BY <1>1
<1>3. About(s, o) <=> About(a, o) \/ s[1].obj = o
  <2>1. ASSUME NEW i \in DOMAIN a, a[i].obj = o PROVE About(s, o)
    <3>1. i + 1 \in DOMAIN s /\ s[i + 1] = a[i]
      BY <1>1
    <3> QED
      BY <2>1, <3>1, Zenon DEF About
  <2>2. 1 \in DOMAIN s
    BY <1>1
  <2> QED
    BY <1>2, <2>1, <2>2, Zenon DEF About
<1>4. ASSUME NEW n, LastIs(s, o, n) PROVE LastIs(a, o, n)
  <2> SUFFICES ASSUME NEW i \in DOMAIN a, a[i].obj = o, \A m \in DOMAIN a : m > i => a[m].obj # o
               PROVE  a[i] = n
    BY Zenon DEF LastIs
  <2>1. i + 1 \in DOMAIN s /\ s[i + 1] = a[i]
    BY <1>1
  <2>2. \A m \in DOMAIN s : m > i + 1 => s[m].obj # o
    BY <1>1, <1>2
  <2> QED
    BY <1>4, <2>1, <2>2, Zenon DEF LastIs
<1>5. ASSUME NEW n, LastIs(s, o, n), ~About(a, o), s[1].obj = o PROVE s[1] = n
  <2>1. \A m \in DOMAIN s : m > 1 => s[m].obj # o
    BY <1>1, <1>5, <1>2 DEF About
  <2> QED
    BY <1>1, <1>5, <2>1 DEF LastIs
<1> QED
  BY <1>1, <1>3, <1>4, <1>5, Zenon DEF a

\* An enumeration of a set of jobs is a sequence of all of them.
LEMMA EnumerationFacts ==
    ASSUME NEW S \in SUBSET Job, NEW s \in Enumerations(S)
    PROVE  s \in Seq(Job) /\ (\A j \in S : \E i \in DOMAIN s : s[i] = j)
           /\ \A i \in DOMAIN s : s[i] \in S
<1>1. PICK n \in 0..Cardinality(Objects) : s \in [1..n -> S]
  BY Zenon DEF Enumerations
<1>2. n \in Nat
  BY CollectionAssumption
<1>3. s \in Seq(Job)
  BY <1>1, <1>2
<1> QED
  BY <1>1, <1>3, Zenon DEF Enumerations

\* What an indexer lists.
LEMMA CachedJobsFacts ==
    ASSUME NEW c \in [Objects -> Versioned], NEW k
    PROVE  CachedJobs(c, k) \in SUBSET Job
BY DEF CachedJobs, JobOf, Job, Versioned, Live

-----------------------------------------------------------------------------
(* The invariant of the registry and the workers, action by action. *)

WorkerStates == [pc : {"idle", "taken", "match", "access", "upsert"},
                 job : Job, states : Seq(State)]

LEMMA IdleTypes == IdleRec \in Reconciler /\ IdleWorker \in WorkerStates
<1>1. IdleRec \in Reconciler
  BY Zenon DEF IdleRec, Reconciler
<1>2. NoJob \in Job
  BY CollectionAssumption DEF NoJob, Job
<1>3. IdleWorker \in WorkerStates
  BY <1>2 DEF IdleWorker, WorkerStates
<1> QED
  BY <1>1, <1>3, Zenon

LEMMA InitIInv == Init => IInv
<1> SUFFICES ASSUME Init PROVE IInv
  BY Zenon
<1>1. TypeOK
  <2>1. Absent \in Versioned
    BY CollectionAssumption DEF Absent, Versioned
  <2>2. api \in [Objects -> Versioned] /\ cache \in [Objects -> Versioned]
    BY <2>1, Zenon DEF Init
  <2>3. pending \in [Kinds -> Seq(Job)] /\ byGVR \in [Kinds -> Seq(Targets)]
    BY DEF Init
  <2>4. queue \in Seq(Job) /\ Len(queue) <= QueueCap
    BY CollectionAssumption DEF Init
  <2>5. rec \in [Targets -> Reconciler] /\ worker \in [Workers -> WorkerStates]
    BY IdleTypes, Zenon DEF Init
  <2>6. rows \in [Targets -> [Objects -> 0..MaxVersion]] /\ calls \in 0..MaxCalls
    BY CollectionAssumption DEF Init
  <2> QED
    BY <2>2, <2>3, <2>4, <2>5, <2>6, Zenon DEF TypeOK, Init, WorkerStates
<1>2. IndexIsExact /\ CallsAreOrderly /\ NoOrphanRows
  BY DEF Init, IndexIsExact, Indexed, CallsAreOrderly, NoOrphanRows, IdleRec
<1>3. CacheFollows /\ WorkersAreOrderly
  BY Zenon DEF Init, CacheFollows, WorkersAreOrderly, Beyond, IdleWorker, Absent
<1> QED
  BY <1>1, <1>2, <1>3, Zenon DEF IInv

\* A step of the API server, of an informer's handler or of the queue.
LEMMA InformerStep ==
    ASSUME IInv, TypeOK', UNCHANGED <<targets, byGVR, rec, worker, rows>>, CacheFollows'
    PROVE  IInv'
<1>1. IndexIsExact' /\ CallsAreOrderly' /\ NoOrphanRows'
  BY DEF IInv, IndexIsExact, Indexed, CallsAreOrderly, NoOrphanRows
<1>2. WorkersAreOrderly'
  BY Zenon DEF IInv, WorkersAreOrderly, Beyond, Cur
<1> QED
  BY <1>1, <1>2, Zenon DEF IInv

LEMMA ApiStep ==
    ASSUME IInv, NEW o \in Objects, (\E tag \in Tags : WriteObject(o, tag)) \/ DeleteObject(o)
    PROVE  IInv'
<1>1. UNCHANGED <<started, cache, pending, queue, registry, worker, rows, flags, raced>>
  BY Zenon DEF WriteObject, DeleteObject
<1>2. api' \in [Objects -> Versioned] /\ api[o].tag # "gone" /\ api'[o].tag # "absent"
      /\ \A x \in Objects \ {o} : api'[x] = api[x]
  <2>1. ASSUME NEW tag \in Tags, WriteObject(o, tag)
        PROVE  api' \in [Objects -> Versioned] /\ api[o].tag # "gone" /\ api'[o].tag # "absent"
               /\ \A x \in Objects \ {o} : api'[x] = api[x]
    <3>1. api[o].ver + 1 \in 0..MaxVersion
      BY <2>1, CollectionAssumption DEF WriteObject, IInv, TypeOK, Versioned
    <3> QED
      BY <2>1, <3>1, Zenon DEF WriteObject, IInv, TypeOK, Versioned, Tags
  <2>2. ASSUME DeleteObject(o)
        PROVE  api' \in [Objects -> Versioned] /\ api[o].tag # "gone" /\ api'[o].tag # "absent"
               /\ \A x \in Objects \ {o} : api'[x] = api[x]
    BY <2>2, Zenon DEF DeleteObject, IInv, TypeOK, Versioned, Live, Tags
  <2> QED
    BY <2>1, <2>2, Zenon
<1>3. TypeOK'
  BY <1>1, <1>2, Zenon DEF IInv, TypeOK, registry, flags
<1>4. CacheFollows'
  BY <1>1, <1>2, Zenon DEF IInv, CacheFollows
<1> QED
  BY <1>1, <1>3, <1>4, InformerStep, Zenon DEF registry

LEMMA ObserveStep ==
    ASSUME IInv, NEW o \in Objects, Observe(o)
    PROVE  IInv'
<1>1. /\ UNCHANGED <<api, started, queue, registry, worker, rows, flags, raced>>
      /\ KindOf[o] \in started /\ cache' = [cache EXCEPT ![o] = api[o]]
  BY Zenon DEF Observe
<1>2. cache' \in [Objects -> Versioned]
  BY <1>1, Zenon DEF IInv, TypeOK
<1>3. pending' \in [Kinds -> Seq(Job)]
  <2>1. CASE Live(api[o]) \/ Live(cache[o])
    <3>1. JobOf(o, api[o]) \in Job
      BY <2>1, Zenon DEF JobOf, Job, Live, IInv, TypeOK, CacheFollows, Versioned, Tags
    <3>2. pending' = [pending EXCEPT ![KindOf[o]] = Append(@, JobOf(o, api[o]))]
      BY <2>1, Zenon DEF Observe
    <3> QED
      BY <3>1, <3>2, CollectionAssumption DEF IInv, TypeOK
  <2>2. CASE ~(Live(api[o]) \/ Live(cache[o]))
    BY <2>2, Zenon DEF Observe, IInv, TypeOK
  <2> QED
    BY <2>1, <2>2, Zenon
<1>4. TypeOK'
  BY <1>1, <1>2, <1>3, Zenon DEF IInv, TypeOK, registry, flags
<1>5. CacheFollows'
  BY <1>1, Zenon DEF IInv, TypeOK, CacheFollows
<1> QED
  BY <1>1, <1>4, <1>5, InformerStep, Zenon DEF registry

LEMMA ResyncStep ==
    ASSUME IInv, NEW k \in Kinds, Resync(k)
    PROVE  IInv'
<1>1. PICK s \in Enumerations(CachedJobs(cache, k)) : pending' = [pending EXCEPT ![k] = s]
  BY Zenon DEF Resync
<1>2. s \in Seq(Job)
  BY CachedJobsFacts, EnumerationFacts, Zenon DEF IInv, TypeOK
<1>3. UNCHANGED <<api, started, cache, queue, registry, worker, rows, flags, raced>>
  BY Zenon DEF Resync
<1>4. TypeOK' /\ CacheFollows'
  BY <1>1, <1>2, <1>3, Zenon DEF IInv, TypeOK, registry, flags, CacheFollows
<1> QED
  BY <1>3, <1>4, InformerStep, Zenon DEF registry

LEMMA DispatchType ==
    ASSUME TypeOK, NEW j \in Job, dispatch(j)
    PROVE  queue' \in Seq(Job) /\ Len(queue') <= QueueCap
BY CollectionAssumption DEF TypeOK, dispatch

LEMMA DeliverStep ==
    ASSUME IInv, NEW k \in Kinds, Deliver(k)
    PROVE  IInv'
<1>1. /\ UNCHANGED <<api, started, cache, registry, worker, rows, flags>>
      /\ pending[k] # <<>> /\ dispatch(Head(pending[k]))
      /\ pending' = [pending EXCEPT ![k] = Tail(@)]
      /\ raced' = raced \cup {o \in {Head(pending[k]).obj} : InBackfill(o)}
  BY Zenon DEF Deliver
<1>2. Head(pending[k]) \in Job /\ Tail(pending[k]) \in Seq(Job)
  BY <1>1 DEF IInv, TypeOK
<1>3. queue' \in Seq(Job) /\ Len(queue') <= QueueCap
  BY <1>1, <1>2, DispatchType, Zenon DEF IInv
<1>4. raced' \in SUBSET Objects
  BY <1>1, <1>2, Zenon DEF IInv, TypeOK, Job
<1>5. pending' \in [Kinds -> Seq(Job)]
  BY <1>1, <1>2, Zenon DEF IInv, TypeOK
<1>6. TypeOK' /\ CacheFollows'
  BY <1>1, <1>3, <1>4, <1>5, Zenon DEF IInv, TypeOK, registry, flags, CacheFollows
<1> QED
  BY <1>1, <1>6, InformerStep, Zenon DEF registry

\* The index without the target.
LEMMA UnindexFacts ==
    ASSUME IInv, NEW t \in Targets
    PROVE  LET idx == unindexTargetLocked(t) IN
           /\ idx \in [Kinds -> Seq(Targets)]
           /\ \A k \in Kinds : \A i, j \in DOMAIN idx[k] : idx[k][i] = idx[k][j] => i = j
           /\ \A k \in Kinds, u \in Targets :
                 (\E i \in DOMAIN idx[k] : idx[k][i] = u) <=> u # t /\ Indexed(k, u)
<1> DEFINE idx == unindexTargetLocked(t)
<1>1. CASE targets[t] = NoSpec
  <2>1. idx = byGVR
    BY <1>1, Zenon DEF unindexTargetLocked
  <2> QED
    BY <1>1, <2>1, Zenon DEF IInv, TypeOK, IndexIsExact, Indexed
<1>2. CASE targets[t] # NoSpec
  <2> DEFINE k == targets[t].kind
             r == Without(byGVR[k], t)
  <2>1. k \in Kinds /\ byGVR[k] \in Seq(Targets)
    BY <1>2, Zenon DEF IInv, TypeOK, TargetSpec
  <2>2. \A i, j \in DOMAIN byGVR[k] : byGVR[k][i] = byGVR[k][j] => i = j
    BY <2>1, Zenon DEF IInv, IndexIsExact
  <2>3. idx = [byGVR EXCEPT ![k] = r]
    BY <1>2, Zenon DEF unindexTargetLocked
  <2> HIDE DEF idx
  <2>4. targets[t].kind = k
    BY Zenon
  <2> HIDE DEF k
  <2>5. /\ r \in Seq(Targets)
        /\ \A i, j \in DOMAIN r : r[i] = r[j] => i = j
        /\ \A x : (\E i \in DOMAIN r : r[i] = x)
                      <=> x # t /\ \E i \in DOMAIN byGVR[k] : byGVR[k][i] = x
    BY <2>1, <2>2, WithoutFacts, Zenon
  <2> HIDE DEF r
  <2>6. \A l \in Kinds \ {k} : ~Indexed(l, t)
    BY <1>2, <2>1, <2>4, Zenon DEF IInv, IndexIsExact
  <2>7. idx \in [Kinds -> Seq(Targets)] /\ idx[k] = r
        /\ \A l \in Kinds \ {k} : idx[l] = byGVR[l]
    BY <2>1, <2>5, <2>3, Zenon DEF IInv, TypeOK
  <2>8. \A l \in Kinds : \A i, j \in DOMAIN idx[l] : idx[l][i] = idx[l][j] => i = j
    BY <2>5, <2>7 DEF IInv, IndexIsExact
  <2>9. \A l \in Kinds, u \in Targets :
           (\E i \in DOMAIN idx[l] : idx[l][i] = u) <=> u # t /\ Indexed(l, u)
    <3>1. \A u \in Targets : (\E i \in DOMAIN idx[k] : idx[k][i] = u) <=> u # t /\ Indexed(k, u)
      BY <2>5, <2>7, Zenon DEF Indexed
    <3>2. \A l \in Kinds \ {k}, u \in Targets :
             (\E i \in DOMAIN idx[l] : idx[l][i] = u) <=> u # t /\ Indexed(l, u)
      BY <2>6, <2>7, Zenon DEF Indexed
    <3> QED
      BY <3>1, <3>2, Zenon
  <2> QED
    BY <2>7, <2>8, <2>9, Zenon DEF idx
<1> QED
  BY <1>1, <1>2, Zenon

\* The index with the target under its kind.
LEMMA IndexFacts ==
    ASSUME IInv, NEW t \in Targets, NEW k \in Kinds
    PROVE  LET idx == indexTargetLocked(unindexTargetLocked(t), t, k) IN
           /\ idx \in [Kinds -> Seq(Targets)]
           /\ \A l \in Kinds : \A i, j \in DOMAIN idx[l] : idx[l][i] = idx[l][j] => i = j
           /\ \A l \in Kinds, u \in Targets :
                 (\E i \in DOMAIN idx[l] : idx[l][i] = u)
                     <=> (u # t /\ Indexed(l, u)) \/ (u = t /\ l = k)
<1> DEFINE old == unindexTargetLocked(t)
           new == Append(old[k], t)
           idx == indexTargetLocked(old, t, k)
<1>1. /\ old \in [Kinds -> Seq(Targets)]
      /\ \A l \in Kinds : \A i, j \in DOMAIN old[l] : old[l][i] = old[l][j] => i = j
      /\ \A l \in Kinds, u \in Targets :
            (\E i \in DOMAIN old[l] : old[l][i] = u) <=> u # t /\ Indexed(l, u)
  BY UnindexFacts, Zenon
<1> HIDE DEF old
<1>2. idx = [old EXCEPT ![k] = new]
  BY <1>1, Zenon DEF indexTargetLocked
<1>3. /\ new \in Seq(Targets) /\ DOMAIN new = 1..(Len(old[k]) + 1) /\ Len(old[k]) \in Nat
      /\ DOMAIN old[k] = 1..Len(old[k])
      /\ new[Len(old[k]) + 1] = t /\ \A i \in DOMAIN old[k] : new[i] = old[k][i]
  BY <1>1
<1> HIDE DEF new
<1>4. idx \in [Kinds -> Seq(Targets)] /\ idx[k] = new /\ \A l \in Kinds \ {k} : idx[l] = old[l]
  BY <1>1, <1>2, <1>3
<1> HIDE DEF idx
<1>5. \A i \in DOMAIN old[k] : old[k][i] # t
  BY <1>1, Zenon
<1>6. \A i, j \in DOMAIN new : new[i] = new[j] => i = j
  BY <1>1, <1>3, <1>5
<1>7. \A u \in Targets : (\E i \in DOMAIN new : new[i] = u)
                            <=> (\E i \in DOMAIN old[k] : old[k][i] = u) \/ u = t
  BY <1>3
<1>8. \A l \in Kinds : \A i, j \in DOMAIN idx[l] : idx[l][i] = idx[l][j] => i = j
  BY <1>1, <1>4, <1>6, Zenon
<1>9. \A l \in Kinds, u \in Targets :
         (\E i \in DOMAIN idx[l] : idx[l][i] = u)
             <=> (u # t /\ Indexed(l, u)) \/ (u = t /\ l = k)
  BY <1>1, <1>4, <1>7
<1> QED
  BY <1>4, <1>8, <1>9, Zenon DEF idx, old

\* A step of an engine call that leaves the registrations alone.
LEMMA CallStep ==
    ASSUME IInv, TypeOK', CacheFollows', CallsAreOrderly',
           UNCHANGED <<targets, byGVR, worker>>,
           \A t \in Targets :
              \/ rows'[t] = rows[t] /\ (rec[t].pc = "clear" <=> rec'[t].pc = "clear")
              \/ \A o \in Objects : rows'[t][o] = 0
    PROVE  IInv'
<1>1. IndexIsExact'
  BY DEF IInv, IndexIsExact, Indexed
<1>2. NoOrphanRows'
  BY Zenon DEF IInv, NoOrphanRows
<1>3. WorkersAreOrderly'
  BY Zenon DEF IInv, WorkersAreOrderly, Beyond, Cur
<1> QED
  BY <1>1, <1>2, <1>3, Zenon DEF IInv

LEMMA StartInformerStep ==
    ASSUME IInv, NEW t \in Targets, StartInformer(t)
    PROVE  IInv'
<1> DEFINE k == targets[t].kind
           synced == [o \in Objects |-> IF KindOf[o] = k THEN api[o] ELSE cache[o]]
<1>1. /\ UNCHANGED <<api, queue, targets, byGVR, calls, worker, rows, flags, raced>>
      /\ rec[t].pc = "informer" /\ InformerMuFree /\ k \notin started
      /\ started' = started \cup {k} /\ cache' = synced
      /\ rec' = [rec EXCEPT ![t] = IdleRec]
  BY Zenon DEF StartInformer
<1>2. PICK s \in Enumerations(CachedJobs(synced, k)) : pending' = [pending EXCEPT ![k] = s]
  BY Zenon DEF StartInformer
<1>3. k \in Kinds
  BY <1>1, Zenon DEF IInv, CallsAreOrderly, TypeOK, TargetSpec
<1>4. synced \in [Objects -> Versioned]
  BY Zenon DEF IInv, TypeOK
<1>5. s \in Seq(Job)
  BY <1>4, CachedJobsFacts, EnumerationFacts, Zenon
<1>6. rec' \in [Targets -> Reconciler]
  BY <1>1, IdleTypes, Zenon DEF IInv, TypeOK
<1>7. TypeOK'
  BY <1>1, <1>2, <1>3, <1>4, <1>5, <1>6, Zenon DEF IInv, TypeOK, flags
<1>8. CacheFollows'
  BY <1>1, Zenon DEF IInv, TypeOK, CacheFollows
<1>9. CallsAreOrderly'
  BY <1>1, Zenon DEF IInv, TypeOK, CallsAreOrderly, IdleRec
<1>10. \A u \in Targets : rows'[u] = rows[u] /\ (rec[u].pc = "clear" <=> rec'[u].pc = "clear")
  BY <1>1, Zenon DEF IInv, TypeOK, IdleRec
<1> QED
  BY <1>1, <1>7, <1>8, <1>9, <1>10, CallStep, Zenon

LEMMA ListForBackfillStep ==
    ASSUME IInv, NEW t \in Targets, ListForBackfill(t)
    PROVE  IInv'
<1> DEFINE jobs == IF rec[t].backfill THEN CachedJobs(cache, targets[t].kind) ELSE {}
           new == IF jobs = {} THEN IdleRec ELSE [pc |-> "filling", backfill |-> TRUE, list |-> jobs]
<1>1. /\ UNCHANGED <<informer, queue, targets, byGVR, calls, worker, rows, flags, raced>>
      /\ rec[t].pc = "informer" /\ InformerMuFree
      /\ rec' = [rec EXCEPT ![t] = new]
  BY Zenon DEF ListForBackfill
<1>2. jobs \in SUBSET Job
  BY CachedJobsFacts, Zenon DEF IInv, TypeOK
<1>3. /\ new \in Reconciler /\ new.pc \in {"idle", "filling"}
      /\ new.pc # "filling" => new.list = {}
  BY <1>2, IdleTypes, Zenon DEF Reconciler, IdleRec
<1> HIDE DEF new
<1>4. rec' \in [Targets -> Reconciler] /\ rec'[t] = new /\ \A u \in Targets \ {t} : rec'[u] = rec[u]
  BY <1>1, <1>3, Zenon DEF IInv, TypeOK
<1>5. TypeOK' /\ CacheFollows'
  BY <1>1, <1>4, Zenon DEF IInv, TypeOK, flags, informer, CacheFollows
<1>6. CallsAreOrderly'
  BY <1>1, <1>3, <1>4, Zenon DEF IInv, CallsAreOrderly, InformerMuFree
<1>7. \A u \in Targets : rows'[u] = rows[u] /\ (rec[u].pc = "clear" <=> rec'[u].pc = "clear")
  BY <1>1, <1>3, <1>4, Zenon
<1> QED
  BY <1>1, <1>5, <1>6, <1>7, CallStep, Zenon

LEMMA BackfillStep ==
    ASSUME IInv, NEW t \in Targets, resyncInformerStore(t)
    PROVE  IInv'
<1>1. /\ UNCHANGED <<informer, targets, byGVR, calls, worker, rows, flags, raced>>
      /\ rec[t].pc = "filling"
  BY Zenon DEF resyncInformerStore
<1>2. PICK j \in rec[t].list :
         /\ dispatch(j)
         /\ rec' = [rec EXCEPT ![t] = IF @.list = {j} THEN IdleRec
                                      ELSE [rec[t] EXCEPT !.list = rec[t].list \ {j}]]
  BY Zenon DEF resyncInformerStore
<1> DEFINE new == IF rec[t].list = {j} THEN IdleRec ELSE [rec[t] EXCEPT !.list = rec[t].list \ {j}]
<1>3. rec[t] \in Reconciler /\ j \in Job
  BY Zenon DEF IInv, TypeOK, Reconciler
<1>4. /\ new \in Reconciler /\ new.pc \in {"idle", "filling"}
      /\ new.pc # "filling" => new.list = {}
  BY <1>1, <1>3, IdleTypes, Zenon DEF Reconciler, IdleRec
<1>5. rec' = [rec EXCEPT ![t] = new]
  BY <1>2, Zenon
<1> HIDE DEF new
<1>6. rec' \in [Targets -> Reconciler] /\ rec'[t] = new /\ \A u \in Targets \ {t} : rec'[u] = rec[u]
  BY <1>4, <1>5, Zenon DEF IInv, TypeOK
<1>7. queue' \in Seq(Job) /\ Len(queue') <= QueueCap
  BY <1>2, <1>3, DispatchType, Zenon DEF IInv
<1>8. TypeOK' /\ CacheFollows'
  BY <1>1, <1>6, <1>7, Zenon DEF IInv, TypeOK, flags, informer, CacheFollows
<1>9. CallsAreOrderly'
  BY <1>1, <1>4, <1>6, Zenon DEF IInv, CallsAreOrderly
<1>10. \A u \in Targets : rows'[u] = rows[u] /\ (rec[u].pc = "clear" <=> rec'[u].pc = "clear")
  BY <1>1, <1>4, <1>6, Zenon
<1> QED
  BY <1>1, <1>8, <1>9, <1>10, CallStep, Zenon

LEMMA RemoveTargetStep ==
    ASSUME IInv, NEW t \in Targets, RemoveTarget(t)
    PROVE  IInv'
<1>1. /\ UNCHANGED <<informer, queue, targets, byGVR, calls, worker, flags, raced>>
      /\ rec[t].pc = "clear"
      /\ rows' = [rows EXCEPT ![t] = [o \in Objects |-> 0]]
      /\ rec' = [rec EXCEPT ![t] = IdleRec]
  BY Zenon DEF RemoveTarget
<1>2. /\ rec' \in [Targets -> Reconciler] /\ rec'[t] = IdleRec
      /\ \A u \in Targets \ {t} : rec'[u] = rec[u]
  BY <1>1, IdleTypes, Zenon DEF IInv, TypeOK
<1>3. /\ rows' \in [Targets -> [Objects -> 0..MaxVersion]]
      /\ \A o \in Objects : rows'[t][o] = 0
      /\ \A u \in Targets \ {t} : rows'[u] = rows[u]
  BY <1>1, CollectionAssumption DEF IInv, TypeOK
<1>4. TypeOK' /\ CacheFollows'
  BY <1>1, <1>2, <1>3, Zenon DEF IInv, TypeOK, flags, informer, CacheFollows
<1>5. CallsAreOrderly'
  BY <1>1, <1>2, Zenon DEF IInv, CallsAreOrderly, IdleRec
<1> QED
  BY <1>1, <1>2, <1>3, <1>4, <1>5, CallStep, Zenon

LEMMA RegisterStep ==
    ASSUME IInv, NEW t \in Targets, NEW spec \in TargetSpec, RegisterTarget(t, spec)
    PROVE  IInv'
<1> DEFINE new == [pc |-> "informer", backfill |-> targets[t] # spec, list |-> {}]
<1>1. /\ rec[t].pc = "idle" /\ calls < MaxCalls /\ calls' = calls + 1
      /\ targets' = [targets EXCEPT ![t] = spec]
      /\ byGVR' = indexTargetLocked(unindexTargetLocked(t), t, spec.kind)
      /\ rec' = [rec EXCEPT ![t] = new]
      /\ UNCHANGED <<informer, queue, worker, rows, flags, raced>>
  BY Zenon DEF RegisterTarget
<1>2. spec.kind \in Kinds /\ spec # NoSpec
  BY CollectionAssumption, Zenon DEF TargetSpec
<1>3. new \in Reconciler /\ new.pc = "informer" /\ new.list = {}
  BY Zenon DEF Reconciler
<1> HIDE DEF new
<1>4. /\ byGVR' \in [Kinds -> Seq(Targets)]
      /\ \A l \in Kinds : \A i, j \in DOMAIN byGVR'[l] : byGVR'[l][i] = byGVR'[l][j] => i = j
      /\ \A l \in Kinds, u \in Targets :
            Indexed(l, u)' <=> (u # t /\ Indexed(l, u)) \/ (u = t /\ l = spec.kind)
  <2> DEFINE idx == indexTargetLocked(unindexTargetLocked(t), t, spec.kind)
  <2>1. /\ idx \in [Kinds -> Seq(Targets)]
        /\ \A l \in Kinds : \A i, j \in DOMAIN idx[l] : idx[l][i] = idx[l][j] => i = j
        /\ \A l \in Kinds, u \in Targets :
              (\E i \in DOMAIN idx[l] : idx[l][i] = u)
                  <=> (u # t /\ Indexed(l, u)) \/ (u = t /\ l = spec.kind)
    BY <1>2, IndexFacts, Zenon
  <2>2. byGVR' = idx
    BY <1>1, Zenon
  <2> HIDE DEF idx
  <2>3. \A l, u : Indexed(l, u)' <=> \E i \in DOMAIN idx[l] : idx[l][i] = u
    BY <2>2, Zenon DEF Indexed
  <2> QED
    BY <2>1, <2>2, <2>3, Zenon
<1>5. /\ rec' \in [Targets -> Reconciler] /\ rec'[t] = new
      /\ \A u \in Targets \ {t} : rec'[u] = rec[u]
  BY <1>1, <1>3, Zenon DEF IInv, TypeOK
<1>6. /\ targets' \in [Targets -> TargetSpec \cup {NoSpec}] /\ targets'[t] = spec
      /\ \A u \in Targets \ {t} : targets'[u] = targets[u]
  BY <1>1, Zenon DEF IInv, TypeOK
<1>7. calls' \in 0..MaxCalls
  BY <1>1, CollectionAssumption DEF IInv, TypeOK
<1>8. TypeOK' /\ CacheFollows'
  BY <1>1, <1>4, <1>5, <1>6, <1>7, Zenon DEF IInv, TypeOK, flags, informer, CacheFollows
<1>9. IndexIsExact'
  <2>1. ASSUME NEW k \in Kinds, NEW u \in Targets
        PROVE  Indexed(k, u)' <=> targets'[u] # NoSpec /\ targets'[u].kind = k
    BY <1>2, <1>4, <1>6 DEF IInv, IndexIsExact
  <2> QED
    BY <1>4, <2>1, Zenon DEF IndexIsExact
<1>10. CallsAreOrderly'
  BY <1>2, <1>3, <1>5, <1>6 DEF IInv, CallsAreOrderly
<1>11. WorkersAreOrderly'
  BY <1>1, Zenon DEF IInv, WorkersAreOrderly, Beyond, Cur
<1>12. NoOrphanRows'
  BY <1>1, <1>2, <1>5, <1>6, Zenon DEF IInv, NoOrphanRows
<1> QED
  BY <1>8, <1>9, <1>10, <1>11, <1>12, Zenon DEF IInv

LEMMA UnregisterStep ==
    ASSUME IInv, NEW t \in Targets, UnregisterTarget(t)
    PROVE  IInv'
<1> DEFINE new == [rec[t] EXCEPT !.pc = "clear"]
<1>1. /\ rec[t].pc = "idle" /\ targets[t] # NoSpec /\ calls < MaxCalls /\ calls' = calls + 1
      /\ targets' = [targets EXCEPT ![t] = NoSpec]
      /\ byGVR' = unindexTargetLocked(t)
      /\ rec' = [rec EXCEPT ![t].pc = "clear"]
      /\ forbidden' = forbidden \ {t} /\ accessErr' = accessErr \ {t}
      /\ extractErr' = [extractErr EXCEPT ![t] = {}]
      /\ UNCHANGED <<informer, queue, worker, rows, raced>>
  BY Zenon DEF UnregisterTarget
<1>2. rec[t] \in Reconciler /\ rec[t].list = {}
  BY <1>1, Zenon DEF IInv, TypeOK, CallsAreOrderly
<1>3. new \in Reconciler /\ new.pc = "clear" /\ new.list = {}
  BY <1>2, Zenon DEF Reconciler
<1>4. rec' = [rec EXCEPT ![t] = new]
  BY <1>1, Zenon
<1> HIDE DEF new
<1>5. /\ byGVR' \in [Kinds -> Seq(Targets)]
      /\ \A k \in Kinds : \A i, j \in DOMAIN byGVR'[k] : byGVR'[k][i] = byGVR'[k][j] => i = j
      /\ \A k \in Kinds, u \in Targets : Indexed(k, u)' <=> u # t /\ Indexed(k, u)
  <2> DEFINE idx == unindexTargetLocked(t)
  <2>1. /\ idx \in [Kinds -> Seq(Targets)]
        /\ \A k \in Kinds : \A i, j \in DOMAIN idx[k] : idx[k][i] = idx[k][j] => i = j
        /\ \A k \in Kinds, u \in Targets :
              (\E i \in DOMAIN idx[k] : idx[k][i] = u) <=> u # t /\ Indexed(k, u)
    BY UnindexFacts, Zenon
  <2>2. byGVR' = idx
    BY <1>1, Zenon
  <2> HIDE DEF idx
  <2>3. \A k, u : Indexed(k, u)' <=> \E i \in DOMAIN idx[k] : idx[k][i] = u
    BY <2>2, Zenon DEF Indexed
  <2> QED
    BY <2>1, <2>2, <2>3, Zenon
<1>6. /\ rec' \in [Targets -> Reconciler] /\ rec'[t] = new
      /\ \A u \in Targets \ {t} : rec'[u] = rec[u]
  BY <1>3, <1>4, Zenon DEF IInv, TypeOK
<1>7. /\ targets' \in [Targets -> TargetSpec \cup {NoSpec}] /\ targets'[t] = NoSpec
      /\ \A u \in Targets \ {t} : targets'[u] = targets[u]
  BY <1>1, Zenon DEF IInv, TypeOK
<1>8. calls' \in 0..MaxCalls
  BY <1>1, CollectionAssumption DEF IInv, TypeOK
<1>9. TypeOK' /\ CacheFollows'
  BY <1>1, <1>5, <1>6, <1>7, <1>8, Zenon DEF IInv, TypeOK, flags, informer, CacheFollows
<1>10. IndexIsExact'
  BY <1>5, <1>7 DEF IInv, IndexIsExact
<1>11. CallsAreOrderly'
  BY <1>3, <1>6, <1>7 DEF IInv, CallsAreOrderly
<1>12. WorkersAreOrderly'
  BY <1>1, Zenon DEF IInv, WorkersAreOrderly, Beyond, Cur
<1>13. NoOrphanRows'
  BY <1>1, <1>3, <1>6, <1>7, Zenon DEF IInv, NoOrphanRows
<1> QED
  BY <1>9, <1>10, <1>11, <1>12, <1>13, Zenon DEF IInv

-----------------------------------------------------------------------------
(* The dispatch workers. *)

\* A step of a worker leaves the informers and the registrations alone.
LEMMA WorkerStep ==
    ASSUME IInv, NEW w \in Workers, NEW new \in WorkerStates,
           UNCHANGED <<informer, registry>>, worker' = [worker EXCEPT ![w] = new],
           queue' \in Seq(Job), Len(queue') <= QueueCap,
           rows' \in [Targets -> [Objects -> 0..MaxVersion]],
           \A t \in Targets : targets[t] = NoSpec =>
              \A o \in Objects : rows'[t][o] \in {0, rows[t][o]},
           forbidden' \in SUBSET Targets, accessErr' \in SUBSET Targets,
           extractErr' \in [Targets -> SUBSET Objects], raced' \in SUBSET Objects,
           new.pc \in {"match", "access", "upsert"} => new.states # <<>>,
           new.pc \in {"access", "upsert"} =>
              ~Deleted(new.job) /\ matchesTarget(Head(new.states).spec, new.job),
           new.pc = "upsert" => new.job.tag = "match"
    PROVE  IInv'
<1>1. /\ worker' \in [Workers -> WorkerStates] /\ worker'[w] = new
      /\ \A v \in Workers \ {w} : worker'[v] = worker[v]
  BY Zenon DEF IInv, TypeOK, WorkerStates
<1>2. TypeOK'
  BY <1>1, Zenon DEF IInv, TypeOK, informer, registry, WorkerStates
<1>3. IndexIsExact' /\ CallsAreOrderly' /\ CacheFollows'
  BY DEF IInv, IndexIsExact, Indexed, CallsAreOrderly, CacheFollows, informer, registry
<1>4. WorkersAreOrderly'
  BY <1>1, Zenon DEF IInv, WorkersAreOrderly, Beyond, Cur
<1>5. NoOrphanRows'
  BY DEF IInv, TypeOK, NoOrphanRows, registry
<1> QED
  BY <1>2, <1>3, <1>4, <1>5, Zenon DEF IInv

LEMMA TakeStep ==
    ASSUME IInv, NEW w \in Workers, Take(w)
    PROVE  IInv'
<1> DEFINE new == [pc |-> "taken", job |-> Head(queue), states |-> <<>>]
<1>1. /\ queue # <<>> /\ worker' = [worker EXCEPT ![w] = new] /\ queue' = Tail(queue)
      /\ raced' = raced \cup {o \in {Head(queue).obj} :
                     \E v \in Workers : worker[v].pc # "idle" /\ worker[v].job.obj = o}
      /\ UNCHANGED <<informer, registry, rows, flags>>
  BY Zenon DEF Take
<1>2. queue \in Seq(Job) /\ Len(queue) <= QueueCap /\ Len(queue) \in Nat
  BY DEF IInv, TypeOK
<1>3. Tail(queue) \in Seq(Job) /\ Len(Tail(queue)) = Len(queue) - 1 /\ Head(queue) \in Job
  BY <1>1, <1>2, TailFacts, Zenon
<1>4. new \in WorkerStates /\ new.pc = "taken"
  BY <1>3 DEF WorkerStates
<1>5. Len(queue') <= QueueCap
  BY <1>1, <1>2, <1>3, CollectionAssumption
<1>6. raced' \in SUBSET Objects
  BY <1>1, <1>3, Zenon DEF IInv, TypeOK, Job
<1>7. queue' \in Seq(Job)
  BY <1>1, <1>3, Zenon
<1> HIDE DEF new
<1> QED
  BY <1>1, <1>4, <1>5, <1>6, <1>7, WorkerStep, Zenon DEF IInv, TypeOK, flags

LEMMA SnapshotStep ==
    ASSUME IInv, NEW w \in Workers, Snapshot(w)
    PROVE  IInv'
<1> DEFINE idx == byGVR[KindOf[worker[w].job.obj]]
           states == [i \in DOMAIN idx |-> [target |-> idx[i], spec |-> targets[idx[i]]]]
           new == IF states = <<>> THEN IdleWorker
                  ELSE [worker[w] EXCEPT !.pc = "match", !.states = states]
<1>1. /\ worker' = [worker EXCEPT ![w] = new]
      /\ UNCHANGED <<informer, queue, registry, rows, flags, raced>>
  BY Zenon DEF Snapshot
<1>2. worker[w] \in WorkerStates
  BY Zenon DEF IInv, TypeOK, WorkerStates
<1>3. KindOf[worker[w].job.obj] \in Kinds
  BY <1>2, CollectionAssumption, Zenon DEF WorkerStates, Job
<1>4. idx \in Seq(Targets)
  BY <1>3, Zenon DEF IInv, TypeOK
<1>5. ASSUME NEW i \in DOMAIN idx PROVE idx[i] \in Targets /\ targets[idx[i]] \in TargetSpec
  <2>1. idx[i] \in Targets
    BY <1>4
  <2>2. targets[idx[i]] # NoSpec
    BY <1>3, <2>1 DEF IInv, IndexIsExact, Indexed
  <2> QED
    BY <2>1, <2>2, Zenon DEF IInv, TypeOK
<1>6. states \in Seq(State)
  <2>1. DOMAIN idx = 1..Len(idx) /\ Len(idx) \in Nat
    BY <1>4
  <2>2. \A i \in DOMAIN idx : [target |-> idx[i], spec |-> targets[idx[i]]] \in State
    BY <1>5, Zenon DEF State
  <2>3. states \in [1..Len(idx) -> State]
    BY <2>1, <2>2, Zenon
  <2> HIDE DEF states, idx
  <2> QED
    BY <2>1, <2>3
<1> HIDE DEF states
<1>7. /\ new \in WorkerStates /\ new.pc \in {"idle", "match"}
      /\ new.pc = "match" => new.states # <<>>
  BY <1>2, <1>6, IdleTypes, Zenon DEF WorkerStates, IdleWorker
<1> HIDE DEF new
<1> QED
  BY <1>1, <1>7, WorkerStep, Zenon DEF IInv, TypeOK, flags

\* Done with a state, the worker has the rest before it or is idle.
LEMMA NextStateFacts ==
    ASSUME IInv, NEW w \in Workers, Beyond(w)
    PROVE  LET new == NextState(worker[w]) IN
           /\ new \in WorkerStates /\ new.pc \in {"idle", "match"}
           /\ new.pc = "match" => /\ new.job = worker[w].job
                                  /\ new.states = Tail(worker[w].states) /\ new.states # <<>>
           /\ new.pc = "idle" => Len(worker[w].states) = 1
<1>1. worker[w] \in WorkerStates /\ worker[w].states \in Seq(State) /\ worker[w].states # <<>>
  BY Zenon DEF IInv, TypeOK, WorkerStates, WorkersAreOrderly
<1>2. Len(worker[w].states) \in Nat /\ Len(worker[w].states) # 0
  BY <1>1
<1>3. CASE Len(worker[w].states) <= 1
  <2>1. NextState(worker[w]) = IdleWorker
    BY <1>3, Zenon DEF NextState
  <2>2. IdleWorker.pc = "idle"
    BY Zenon DEF IdleWorker
  <2>3. Len(worker[w].states) = 1
    <3> DEFINE n == Len(worker[w].states)
    <3>1. n \in Nat /\ n # 0 /\ n <= 1
      BY <1>2, <1>3, Zenon
    <3> HIDE DEF n
    <3>2. n = 1
      BY <3>1
    <3> QED
      BY <3>2, Zenon DEF n
  <2> QED
    BY <2>1, <2>2, <2>3, IdleTypes, Zenon
<1>4. CASE ~(Len(worker[w].states) <= 1)
  <2> DEFINE rest == Tail(worker[w].states)
  <2>1. rest \in Seq(State) /\ rest # <<>>
    <3>1. rest \in Seq(State) /\ Len(rest) = Len(worker[w].states) - 1
      BY <1>1
    <3> HIDE DEF rest
    <3> QED
      BY <1>4, <1>2, <3>1
  <2> HIDE DEF rest
  <2>2. NextState(worker[w]) = [worker[w] EXCEPT !.pc = "match", !.states = rest]
    BY <1>4, Zenon DEF NextState, rest
  <2>3. /\ NextState(worker[w]) \in WorkerStates /\ NextState(worker[w]).pc = "match"
        /\ NextState(worker[w]).job = worker[w].job /\ NextState(worker[w]).states = rest
    BY <1>1, <2>1, <2>2, Zenon DEF WorkerStates
  <2> QED
    BY <2>1, <2>3, Zenon DEF rest
<1> QED
  BY <1>3, <1>4, Zenon

\* What an Advance is to the lemma above.
LEMMA AdvanceStep ==
    ASSUME IInv, NEW w \in Workers, Beyond(w), Advance(w),
           UNCHANGED <<informer, queue, registry>>,
           rows' \in [Targets -> [Objects -> 0..MaxVersion]],
           \A t \in Targets : targets[t] = NoSpec =>
              \A o \in Objects : rows'[t][o] \in {0, rows[t][o]},
           forbidden' \in SUBSET Targets, accessErr' \in SUBSET Targets,
           extractErr' \in [Targets -> SUBSET Objects], raced' \in SUBSET Objects
    PROVE  IInv'
<1> DEFINE new == NextState(worker[w])
<1>1. /\ new \in WorkerStates /\ new.pc \in {"idle", "match"}
      /\ new.pc = "match" => new.states # <<>>
  BY NextStateFacts, Zenon
<1>2. worker' = [worker EXCEPT ![w] = new]
  BY Zenon DEF Advance
<1>3. queue' \in Seq(Job) /\ Len(queue') <= QueueCap
  BY Zenon DEF IInv, TypeOK
<1> HIDE DEF new
<1> QED
  BY <1>1, <1>2, <1>3, WorkerStep, Zenon

\* The state before a worker, and its job.
LEMMA CurrentFacts ==
    ASSUME IInv, NEW w \in Workers, Beyond(w)
    PROVE  /\ worker[w] \in WorkerStates /\ worker[w].job \in Job /\ worker[w].job.obj \in Objects
           /\ worker[w].states \in Seq(State) /\ worker[w].states # <<>>
           /\ Cur(w) \in State /\ Cur(w).target \in Targets /\ Cur(w).spec \in TargetSpec
<1>1. /\ worker[w] \in WorkerStates /\ worker[w].job \in Job
      /\ worker[w].states \in Seq(State) /\ worker[w].states # <<>>
  BY Zenon DEF IInv, TypeOK, WorkerStates, WorkersAreOrderly
<1>2. Cur(w) \in State
  BY <1>1 DEF Cur
<1> QED
  BY <1>1, <1>2, Zenon DEF State, Job

LEMMA RemoveItemFacts ==
    ASSUME TypeOK, NEW t \in Targets, NEW o \in Objects, RemoveItem(t, o)
    PROVE  /\ rows' \in [Targets -> [Objects -> 0..MaxVersion]]
           /\ \A u \in Targets, x \in Objects :
                 rows'[u][x] = IF u = t /\ x = o THEN 0 ELSE rows[u][x]
BY CollectionAssumption DEF TypeOK, RemoveItem

LEMMA FlagFacts ==
    ASSUME TypeOK, NEW t \in Targets, NEW o \in Objects,
           clearExtractFailure(t, o) \/ recordExtractFailure(t, o)
    PROVE  extractErr' \in [Targets -> SUBSET Objects]
<1>1. extractErr \in [Targets -> SUBSET Objects]
  BY Zenon DEF TypeOK
<1>2. extractErr[t] \ {o} \in SUBSET Objects /\ extractErr[t] \cup {o} \in SUBSET Objects
  BY <1>1, Zenon
<1>3. CASE clearExtractFailure(t, o)
  BY <1>1, <1>2, <1>3, Zenon DEF clearExtractFailure
<1>4. CASE recordExtractFailure(t, o)
  BY <1>1, <1>2, <1>4, Zenon DEF recordExtractFailure
<1> QED
  BY <1>3, <1>4, Zenon

LEMMA DropStep ==
    ASSUME IInv, NEW w \in Workers, Drop(w)
    PROVE  IInv'
<1>1. Beyond(w)
  BY Zenon DEF Drop, At, Beyond
<1>2. Cur(w).target \in Targets /\ worker[w].job.obj \in Objects
  BY <1>1, CurrentFacts, Zenon
<1>3. /\ RemoveItem(Cur(w).target, worker[w].job.obj) /\ Advance(w)
      /\ clearExtractFailure(Cur(w).target, worker[w].job.obj)
      /\ UNCHANGED <<informer, queue, registry, forbidden, accessErr, raced>>
  BY Zenon DEF Drop
<1>4. TypeOK
  BY Zenon DEF IInv
<1>5. /\ rows' \in [Targets -> [Objects -> 0..MaxVersion]]
      /\ \A t \in Targets, o \in Objects : rows'[t][o] \in {0, rows[t][o]}
      /\ extractErr' \in [Targets -> SUBSET Objects]
  BY <1>2, <1>3, <1>4, RemoveItemFacts, FlagFacts
<1>6. forbidden' \in SUBSET Targets /\ accessErr' \in SUBSET Targets /\ raced' \in SUBSET Objects
  BY <1>3, <1>4, Zenon DEF TypeOK
<1> QED
  BY <1>1, <1>3, <1>5, <1>6, AdvanceStep, Zenon

\* Match and Extract move the worker on with the same state before it.
LEMMA GotoFacts ==
    ASSUME IInv, NEW w \in Workers, Beyond(w), NEW pc \in {"access", "upsert"}, Goto(w, pc)
    PROVE  /\ worker' = [worker EXCEPT ![w] = [worker[w] EXCEPT !.pc = pc]]
           /\ [worker[w] EXCEPT !.pc = pc] \in WorkerStates
           /\ [worker[w] EXCEPT !.pc = pc].pc = pc
           /\ [worker[w] EXCEPT !.pc = pc].job = worker[w].job
           /\ [worker[w] EXCEPT !.pc = pc].states = worker[w].states
<1>1. worker[w] \in WorkerStates
  BY CurrentFacts, Zenon
<1> QED
  BY <1>1, Zenon DEF Goto, WorkerStates

LEMMA MatchStep ==
    ASSUME IInv, NEW w \in Workers, Match(w)
    PROVE  IInv'
<1> DEFINE new == [worker[w] EXCEPT !.pc = "access"]
<1>1. Beyond(w)
  BY Zenon DEF Match, At, Beyond
<1>2. /\ ~Deleted(worker[w].job) /\ matchesTarget(Cur(w).spec, worker[w].job)
      /\ Goto(w, "access") /\ UNCHANGED <<informer, queue, registry, rows, flags, raced>>
  BY Zenon DEF Match
<1>3. /\ worker' = [worker EXCEPT ![w] = new] /\ new \in WorkerStates /\ new.pc = "access"
      /\ new.job = worker[w].job /\ new.states = worker[w].states
  BY <1>1, <1>2, GotoFacts, Zenon
<1> HIDE DEF new
<1>4. new.states # <<>> /\ ~Deleted(new.job) /\ matchesTarget(Head(new.states).spec, new.job)
  BY <1>1, <1>2, <1>3, CurrentFacts, Zenon DEF Cur
<1> QED
  BY <1>2, <1>3, <1>4, WorkerStep, Zenon DEF IInv, TypeOK, flags

LEMMA ExtractStep ==
    ASSUME IInv, NEW w \in Workers, Extract(w)
    PROVE  IInv'
<1> DEFINE new == [worker[w] EXCEPT !.pc = "upsert"]
<1>1. Beyond(w) /\ worker[w].pc = "access"
  BY Zenon DEF Extract, At, Beyond
<1>2. /\ worker[w].job.tag = "match" /\ Goto(w, "upsert")
      /\ accessErr' = accessErr \ {Cur(w).target} /\ forbidden' = forbidden \ {Cur(w).target}
      /\ clearExtractFailure(Cur(w).target, worker[w].job.obj)
      /\ UNCHANGED <<informer, queue, registry, rows, raced>>
  BY Zenon DEF Extract
<1>3. /\ worker' = [worker EXCEPT ![w] = new] /\ new \in WorkerStates /\ new.pc = "upsert"
      /\ new.job = worker[w].job /\ new.states = worker[w].states
  BY <1>1, <1>2, GotoFacts, Zenon
<1> HIDE DEF new
<1>4. new.states # <<>> /\ ~Deleted(new.job) /\ matchesTarget(Head(new.states).spec, new.job)
  BY <1>1, <1>3, CurrentFacts, Zenon DEF Cur, IInv, WorkersAreOrderly
<1>5. extractErr' \in [Targets -> SUBSET Objects]
  BY <1>1, <1>2, CurrentFacts, FlagFacts, Zenon DEF IInv
<1>6. forbidden' \in SUBSET Targets /\ accessErr' \in SUBSET Targets /\ raced' \in SUBSET Objects
  BY <1>2, Zenon DEF IInv, TypeOK
<1>7. /\ queue' \in Seq(Job) /\ Len(queue') <= QueueCap /\ rows' = rows
      /\ rows' \in [Targets -> [Objects -> 0..MaxVersion]]
  BY <1>2, Zenon DEF IInv, TypeOK
<1> QED
  BY <1>2, <1>3, <1>4, <1>5, <1>6, <1>7, WorkerStep, Zenon

LEMMA RefusedStep ==
    ASSUME IInv, NEW w \in Workers, AccessFails(w) \/ AccessDenied(w) \/ ExtractFails(w)
    PROVE  IInv'
<1>1. Beyond(w) /\ Advance(w) /\ UNCHANGED <<informer, queue, registry>>
  BY Zenon DEF AccessFails, AccessDenied, ExtractFails, At, Beyond
<1>2. TypeOK /\ Cur(w).target \in Targets /\ worker[w].job.obj \in Objects
  BY <1>1, CurrentFacts, Zenon DEF IInv
<1>3. CASE AccessFails(w)
  BY <1>1, <1>2, <1>3, AdvanceStep, Zenon DEF AccessFails, TypeOK
<1>4. CASE AccessDenied(w) \/ ExtractFails(w)
  <2>1. RemoveItem(Cur(w).target, worker[w].job.obj)
    BY <1>4, Zenon DEF AccessDenied, ExtractFails
  <2>2. /\ rows' \in [Targets -> [Objects -> 0..MaxVersion]]
        /\ \A t \in Targets, o \in Objects : rows'[t][o] \in {0, rows[t][o]}
    BY <1>2, <2>1, RemoveItemFacts
  <2>3. extractErr' \in [Targets -> SUBSET Objects]
    BY <1>2, <1>4, FlagFacts, Zenon DEF AccessDenied, ExtractFails, TypeOK
  <2>4. forbidden' \in SUBSET Targets /\ accessErr' \in SUBSET Targets /\ raced' \in SUBSET Objects
    BY <1>2, <1>4, Zenon DEF AccessDenied, ExtractFails, TypeOK
  <2> QED
    BY <1>1, <2>2, <2>3, <2>4, AdvanceStep, Zenon
<1> QED
  BY <1>3, <1>4, Zenon

LEMMA UpsertStep ==
    ASSUME IInv, NEW w \in Workers, upsertIfRegistered(w)
    PROVE  IInv'
<1> DEFINE t == Cur(w).target
           j == worker[w].job
<1>1. /\ Beyond(w) /\ Advance(w) /\ UNCHANGED <<informer, queue, registry, flags, raced>>
      /\ rows' = IF targets[t] = NoSpec THEN rows ELSE [rows EXCEPT ![t][j.obj] = j.ver]
  BY Zenon DEF upsertIfRegistered, At, Beyond
<1>2. TypeOK /\ t \in Targets /\ j.obj \in Objects /\ j.ver \in 0..MaxVersion
  BY <1>1, CurrentFacts, Zenon DEF IInv, Job
<1>3. /\ forbidden' \in SUBSET Targets /\ accessErr' \in SUBSET Targets
      /\ extractErr' \in [Targets -> SUBSET Objects] /\ raced' \in SUBSET Objects
  BY <1>1, <1>2, Zenon DEF TypeOK, flags
<1> HIDE DEF t, j
<1>4. /\ rows' \in [Targets -> [Objects -> 0..MaxVersion]]
      /\ \A u \in Targets : targets[u] = NoSpec => \A o \in Objects : rows'[u][o] \in {0, rows[u][o]}
  <2>1. CASE targets[t] = NoSpec
    BY <1>1, <1>2, <2>1, Zenon DEF TypeOK
  <2>2. CASE targets[t] # NoSpec
    <3>1. rows' = [rows EXCEPT ![t] = [rows[t] EXCEPT ![j.obj] = j.ver]]
      BY <1>1, <2>2, Zenon
    <3>2. [rows[t] EXCEPT ![j.obj] = j.ver] \in [Objects -> 0..MaxVersion]
      BY <1>2, Zenon DEF TypeOK
    <3> QED
      BY <1>2, <2>2, <3>1, <3>2, Zenon DEF TypeOK
  <2> QED
    BY <2>1, <2>2, Zenon
<1> QED
  BY <1>1, <1>3, <1>4, AdvanceStep, Zenon

LEMMA NextIInv ==
    ASSUME IInv, [Next]_vars
    PROVE  IInv'
<1>1. CASE UNCHANGED vars
  BY <1>1 DEF vars, informer, registry, flags, IInv, TypeOK, IndexIsExact, Indexed, CallsAreOrderly,
              CacheFollows, WorkersAreOrderly, Beyond, Cur, NoOrphanRows
<1>2. CASE \E o \in Objects : (\E tag \in Tags : WriteObject(o, tag)) \/ DeleteObject(o) \/ Observe(o)
  BY <1>2, ApiStep, ObserveStep, Zenon
<1>3. CASE \E k \in Kinds : Resync(k) \/ Deliver(k)
  BY <1>3, ResyncStep, DeliverStep, Zenon
<1>4. CASE \E t \in Targets : \/ \E spec \in TargetSpec : RegisterTarget(t, spec)
                              \/ UnregisterTarget(t) \/ RemoveTarget(t)
                              \/ InformerCall(t) \/ resyncInformerStore(t)
  BY <1>4, RegisterStep, UnregisterStep, RemoveTargetStep, StartInformerStep,
     ListForBackfillStep, BackfillStep, Zenon DEF InformerCall
<1>5. CASE \E w \in Workers : processDispatch(w)
  BY <1>5, TakeStep, SnapshotStep, DropStep, MatchStep, RefusedStep, ExtractStep, UpsertStep, Zenon
     DEF processDispatch
<1> QED
  BY <1>1, <1>2, <1>3, <1>4, <1>5, Zenon DEF Next

\* The inductive invariant of the engine: the index, the calls, the indexers and
\* the workers are orderly, and no orphan has a row.
THEOREM CollectionInvariance == Spec => []IInv
<1>1. Init => IInv
  BY InitIInv, Zenon
<1>2. IInv /\ [Next]_vars => IInv'
  BY NextIInv, Zenon
<1> QED
  BY <1>1, <1>2, PTL DEF Spec

\* Every component of the engine keeps the shape of its Go type, the dispatch
\* queue its capacity included (dispatch, engine.go).
THEOREM CollectionTypes == Spec => []TypeOK
<1>1. IInv => TypeOK
  BY Zenon DEF IInv
<1> QED
  BY <1>1, CollectionInvariance, PTL

\* A target that UnregisterTarget has left has no rows, however many workers hold
\* snapshots of it and whatever they are doing with them (upsertIfRegistered).
THEOREM OrphansHaveNoRows == Spec => []NoOrphanRows
<1>1. IInv => NoOrphanRows
  BY Zenon DEF IInv
<1> QED
  BY <1>1, CollectionInvariance, PTL

=============================================================================
