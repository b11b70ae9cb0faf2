------------------------ MODULE CollectionConvergence ------------------------
(***************************************************************************)
(* Once nothing is left to do, the store holds the rows the registered      *)
(* targets ask for.                                                         *)
(***************************************************************************)
EXTENDS CollectionProofs

-----------------------------------------------------------------------------
(* What is on its way for an object. *)

Busy(w, o) == worker[w].pc # "idle" /\ worker[w].job.obj = o

\* The job that carries the object as the indexer has it.
Now(o) == JobOf(o, cache[o])

\* Unless its jobs raced, the newest job of an object is the one of the indexer,
\* where newer means: notified, listed for a backfill, queued, being processed.
LastWord(o) ==
    /\ LastIs(pending[KindOf[o]], o, Now(o))
    /\ \/ About(pending[KindOf[o]], o)
       \/ /\ \A t \in Targets : \A j \in rec[t].list : j.obj = o => j = Now(o)
          /\ \/ InBackfill(o)
             \/ /\ LastIs(queue, o, Now(o))
                /\ \/ About(queue, o)
                   \/ \A w \in Workers : Busy(w, o) => worker[w].job = Now(o)

\* Some worker will still copy the registered states for a job of the object.
ToCome(o) ==
    \/ About(pending[KindOf[o]], o) \/ InBackfill(o) \/ About(queue, o)
    \/ \E w \in Workers : worker[w].pc = "taken" /\ worker[w].job.obj = o

\* The row the target should have for the object as the indexer has it.
Due(t, o) == IF Collects(t, o) /\ cache[o].tag = "match" THEN cache[o].ver ELSE 0

\* The backfill that a registration called for will bring the object.
Refilled(t, o) == rec[t].pc = "informer" /\ rec[t].backfill /\ Live(cache[o])

\* A worker has a state of the target before it, in its job of the object.
Held(w, t, o) ==
    Beyond(w) /\ worker[w].job.obj = o /\ \E i \in DOMAIN worker[w].states : worker[w].states[i].target = t

\* The states of the target that workers hold for the object are still its own,
\* or cannot add a row.
HeldAreCurrent(t, o) ==
    \A w \in Workers : Beyond(w) /\ worker[w].job.obj = o =>
        \A i \in DOMAIN worker[w].states : worker[w].states[i].target = t =>
            \/ worker[w].states[i].spec = targets[t] \/ targets[t] = NoSpec
            \/ Deleted(worker[w].job)

\* The row is right, or what will put it right is on its way.
RowIsDue(t, o) ==
    \/ rec[t].pc = "clear"
    \/ Refilled(t, o)
    \/ /\ HeldAreCurrent(t, o)
       /\ \/ rows[t][o] = Due(t, o)
          \/ targets[t] # NoSpec /\ \E w \in Workers : Held(w, t, o)

\* A kind has its informer from the first registration on.
InformersRun ==
    \A t \in Targets : targets[t] # NoSpec /\ rec[t].pc # "informer" => targets[t].kind \in started

\* Every job is of an object that an indexer has seen, under its kind.
KnownJobs ==
    /\ \A k \in Kinds : \A i \in DOMAIN pending[k] :
          KindOf[pending[k][i].obj] = k /\ cache[pending[k][i].obj].tag # "absent"
    /\ \A i \in DOMAIN queue : cache[queue[i].obj].tag # "absent"
    /\ \A t \in Targets : \A j \in rec[t].list : cache[j.obj].tag # "absent"
    /\ \A w \in Workers : worker[w].pc # "idle" => cache[worker[w].job.obj].tag # "absent"

\* Every registration of a target t is with the kind kd[t].
KeepsKind(kd) == \A t \in Targets : targets[t] # NoSpec => targets[t].kind = kd[t]

\* Then states are only copied, and rows only written, for objects of that kind.
KindsMeet(kd) ==
    /\ \A w \in Workers : Beyond(w) =>
          \A i \in DOMAIN worker[w].states :
              kd[worker[w].states[i].target] = KindOf[worker[w].job.obj]
    /\ \A t \in Targets, o \in Objects : kd[t] # KindOf[o] => rows[t][o] = 0

\* The object's rows are right, or what will put them right is on its way.
Converging(kd, o) ==
    /\ \A v, w \in Workers : Busy(v, o) /\ Busy(w, o) => v = w
    /\ LastWord(o)
    /\ ToCome(o) \/ \A t \in Targets : kd[t] = KindOf[o] => RowIsDue(t, o)

CInv(kd) ==
    /\ IInv /\ InformersRun /\ KnownJobs /\ KindsMeet(kd)
    /\ \A o \in Objects \ raced : Converging(kd, o)

-----------------------------------------------------------------------------
(* The frames. *)

\* A step that does not touch the jobs keeps them known.
LEMMA StillKnown ==
    ASSUME KnownJobs, UNCHANGED <<cache, pending, queue, rec>>,
           \A w \in Workers : worker'[w].pc # "idle" =>
               worker[w].pc # "idle" /\ worker'[w].job = worker[w].job
    PROVE  KnownJobs'
<1>1. \A w \in Workers : worker'[w].pc # "idle" => cache'[worker'[w].job.obj].tag # "absent"
  BY Zenon DEF KnownJobs
<1>2. UNCHANGED cache /\ UNCHANGED pending /\ UNCHANGED queue /\ UNCHANGED rec
  BY Zenon
<1>3. \A k \in Kinds : \A i \in DOMAIN pending'[k] :
         KindOf[pending'[k][i].obj] = k /\ cache'[pending'[k][i].obj].tag # "absent"
  BY <1>2 DEF KnownJobs
<1>4. \A i \in DOMAIN queue' : cache'[queue'[i].obj].tag # "absent"
  BY <1>2, Zenon DEF KnownJobs
<1>5. \A t \in Targets : \A j \in rec'[t].list : cache'[j.obj].tag # "absent"
  BY <1>2, Zenon DEF KnownJobs
<1> QED
  BY <1>1, <1>3, <1>4, <1>5, Zenon DEF KnownJobs

\* A step that does not touch the object's row of a target, its registration or the
\* states held of it leaves the row due.
LEMMA RowFrame ==
    ASSUME NEW t \in Targets, NEW o \in Objects, RowIsDue(t, o),
           rec[t].pc = "clear" => rec'[t].pc = "clear", Refilled(t, o) => Refilled(t, o)',
           targets'[t] = targets[t], rows'[t][o] = rows[t][o], Due(t, o)' = Due(t, o),
           \A w \in Workers :
              /\ (Beyond(w) /\ Busy(w, o))' <=> Beyond(w) /\ Busy(w, o)
              /\ Beyond(w) /\ Busy(w, o) => /\ worker'[w].job = worker[w].job
                                            /\ worker'[w].states = worker[w].states
    PROVE  RowIsDue(t, o)'
<1>1. \A w \in Workers : /\ Beyond(w) /\ worker[w].job.obj = o <=> Beyond(w) /\ Busy(w, o)
                         /\ (Beyond(w) /\ worker[w].job.obj = o <=> Beyond(w) /\ Busy(w, o))'
  BY Zenon DEF Beyond, Busy
<1>2. ASSUME HeldAreCurrent(t, o) PROVE HeldAreCurrent(t, o)'
  BY <1>1, <1>2, Zenon DEF HeldAreCurrent
<1>3. ASSUME NEW w \in Workers, Held(w, t, o) PROVE Held(w, t, o)'
  BY <1>1, <1>3, Zenon DEF Held
<1> QED
  BY <1>2, <1>3, Zenon DEF RowIsDue

\* A step that adds no job of the object, takes none away and leaves its rows due.
LEMMA ConvergingFrame ==
    ASSUME NEW kd, NEW o \in Objects, Converging(kd, o), cache'[o] = cache[o],
           About(pending'[KindOf[o]], o) <=> About(pending[KindOf[o]], o),
           \A n : LastIs(pending[KindOf[o]], o, n) => LastIs(pending'[KindOf[o]], o, n),
           About(queue', o) <=> About(queue, o),
           \A n : LastIs(queue, o, n) => LastIs(queue', o, n),
           \A t \in Targets : \A j : j.obj = o => (j \in rec'[t].list <=> j \in rec[t].list),
           \A w \in Workers :
              /\ Busy(w, o)' => Busy(w, o)
              /\ Busy(w, o)' => worker'[w].job = worker[w].job
              /\ worker[w].pc = "taken" /\ worker[w].job.obj = o =>
                    worker'[w].pc = "taken" /\ worker'[w].job.obj = o,
           ~ToCome(o) => \A t \in Targets : kd[t] = KindOf[o] /\ RowIsDue(t, o) => RowIsDue(t, o)'
    PROVE  Converging(kd, o)'
<1>1. Now(o)' = Now(o)
  BY Zenon DEF Now
<1>2. InBackfill(o)' <=> InBackfill(o)
  BY Zenon DEF InBackfill
<1>3. LastWord(o)'
  <2>1. LastIs(pending[KindOf[o]], o, Now(o))'
    BY <1>1, Zenon DEF Converging, LastWord
  <2>2. CASE About(pending[KindOf[o]], o)
    BY <2>1, <2>2, Zenon DEF LastWord
  <2>3. CASE ~About(pending[KindOf[o]], o)
    <3>1. \A t \in Targets : \A j \in rec'[t].list : j.obj = o => j = Now(o)
      BY <2>3, Zenon DEF Converging, LastWord
    <3>2. CASE InBackfill(o)
      BY <1>1, <1>2, <2>1, <3>1, <3>2, Zenon DEF LastWord
    <3>3. CASE ~InBackfill(o)
      <4>1. LastIs(queue, o, Now(o))'
        BY <1>1, <2>3, <3>3, Zenon DEF Converging, LastWord
      <4>2. About(queue', o) \/ \A w \in Workers : Busy(w, o)' => worker'[w].job = Now(o)
        BY <2>3, <3>3, Zenon DEF Converging, LastWord
      <4> QED
        BY <1>1, <2>1, <3>1, <4>1, <4>2, Zenon DEF LastWord
    <3> QED
      BY <3>2, <3>3, Zenon
  <2> QED
    BY <2>2, <2>3, Zenon
<1>4. ToCome(o) => ToCome(o)'
  BY <1>2, Zenon DEF ToCome
<1>5. \A v, w \in Workers : Busy(v, o)' /\ Busy(w, o)' => v = w
  BY Zenon DEF Converging
<1> QED
  BY <1>3, <1>4, <1>5, Zenon DEF Converging

\* Once no job of the object is to come, the worker that is busy with it has its
\* latest state, and no other is.
LEMMA LastJob ==
    ASSUME NEW kd, NEW o \in Objects, Converging(kd, o), NEW w \in Workers, Busy(w, o),
           ~About(pending[KindOf[o]], o), ~InBackfill(o), ~About(queue, o)
    PROVE  worker[w].job = Now(o) /\ \A v \in Workers : Busy(v, o) => v = w
BY Zenon DEF Converging, LastWord

LEMMA InitCInv ==
    ASSUME NEW kd, Init
    PROVE  CInv(kd)
<1>1. IInv
  BY InitIInv, Zenon
<1>2. InformersRun /\ KnownJobs
  BY CollectionAssumption DEF Init, InformersRun, KnownJobs, IdleRec, IdleWorker
<1>3. KindsMeet(kd)
  BY Zenon DEF Init, KindsMeet, IdleWorker, Beyond
<1>4. ASSUME NEW o \in Objects PROVE Converging(kd, o)
  <2>1. /\ KindOf[o] \in Kinds /\ pending[KindOf[o]] = <<>> /\ queue = <<>>
        /\ \A t \in Targets : rec[t].list = {} /\ targets[t] = NoSpec /\ rows[t][o] = 0
        /\ \A w \in Workers : worker[w].pc = "idle"
    BY CollectionAssumption, Zenon DEF Init, IdleRec, IdleWorker
  <2>2. LastWord(o)
    BY <2>1 DEF LastWord, LastIs, Busy
  <2>3. ASSUME NEW t \in Targets PROVE RowIsDue(t, o)
    BY <2>1, Zenon DEF RowIsDue, HeldAreCurrent, Beyond, Due, Collects
  <2> QED
    BY <2>1, <2>2, <2>3, Zenon DEF Converging, Busy
<1> QED
  BY <1>1, <1>2, <1>3, <1>4, Zenon DEF CInv

LEMMA SameConv ==
    ASSUME NEW kd, CInv(kd), IInv',
           UNCHANGED <<started, cache, pending, queue, targets, rec, worker, rows, raced>>
    PROVE  CInv(kd)'
<1>1. InformersRun' /\ KnownJobs' /\ KindsMeet(kd)'
  BY Zenon DEF CInv, InformersRun, KnownJobs, KindsMeet, Beyond
<1>2. ASSUME NEW o \in Objects \ raced PROVE Converging(kd, o)'
  <2>1. Converging(kd, o)
    BY Zenon DEF CInv
  <2>2. \A w \in Workers : /\ Busy(w, o)' <=> Busy(w, o)
                           /\ (Beyond(w) /\ Busy(w, o))' <=> Beyond(w) /\ Busy(w, o)
    BY Zenon DEF Busy, Beyond
  <2>3. ASSUME NEW t \in Targets, RowIsDue(t, o) PROVE RowIsDue(t, o)'
    <3>1. Refilled(t, o)' <=> Refilled(t, o)
      BY Zenon DEF Refilled
    <3>2. Due(t, o)' = Due(t, o)
      BY Zenon DEF Due, Collects
    <3> QED
      BY <2>2, <2>3, <3>1, <3>2, RowFrame, Zenon
  <2> QED
    BY <2>1, <2>2, <2>3, ConvergingFrame, Zenon
<1> QED
  BY <1>1, <1>2, Zenon DEF CInv

\* An object's rows stay due in a step that only moves jobs.
LEMMA RowsStayDue ==
    ASSUME UNCHANGED <<cache, targets, worker, rows>>, NEW o \in Objects, NEW t \in Targets,
           rec[t].pc = "clear" <=> rec'[t].pc = "clear",
           Refilled(t, o) => Refilled(t, o)', RowIsDue(t, o)
    PROVE  RowIsDue(t, o)'
<1>1. Due(t, o)' = Due(t, o)
  BY Zenon DEF Due, Collects
<1>2. \A w \in Workers : (Beyond(w) /\ Busy(w, o))' <=> Beyond(w) /\ Busy(w, o)
  BY Zenon DEF Busy, Beyond
<1> QED
  BY <1>1, <1>2, RowFrame, Zenon

LEMMA TailMembers ==
    ASSUME NEW s \in Seq(Job), s # <<>>, NEW i \in DOMAIN Tail(s)
    PROVE  i + 1 \in DOMAIN s /\ Tail(s)[i] = s[i + 1]
<1>1. /\ Tail(s) \in Seq(Job) /\ Len(Tail(s)) = Len(s) - 1
      /\ \A n \in 1..Len(Tail(s)) : Tail(s)[n] = s[n + 1]
  OBVIOUS
<1>2. DOMAIN Tail(s) = 1..Len(Tail(s)) /\ DOMAIN s = 1..Len(s) /\ Len(s) \in Nat
  BY <1>1
<1> QED
  BY <1>1, <1>2

LEMMA AppendMembers ==
    ASSUME NEW s \in Seq(Job), NEW j \in Job, NEW i \in DOMAIN Append(s, j)
    PROVE  Append(s, j)[i] = j \/ (i \in DOMAIN s /\ Append(s, j)[i] = s[i])
OBVIOUS
LEMMA JobObjects ==
    ASSUME TypeOK
    PROVE  /\ \A k \in Kinds : \A i \in DOMAIN pending[k] : pending[k][i].obj \in Objects
           /\ \A i \in DOMAIN queue : queue[i].obj \in Objects
           /\ \A t \in Targets : \A j \in rec[t].list : j.obj \in Objects
           /\ \A w \in Workers : worker[w].job.obj \in Objects
<1>1. \A j \in Job : j.obj \in Objects
  BY Zenon DEF Job
<1>2. ASSUME NEW s \in Seq(Job), NEW i \in DOMAIN s PROVE s[i].obj \in Objects
  BY <1>1
<1>3. \A k \in Kinds : pending[k] \in Seq(Job)
  BY Zenon DEF TypeOK
<1>4. queue \in Seq(Job)
  BY Zenon DEF TypeOK
<1>5. \A t \in Targets : rec[t].list \in SUBSET Job
  BY Zenon DEF TypeOK, Reconciler
<1>6. \A w \in Workers : worker[w].job \in Job
  BY Zenon DEF TypeOK
<1> QED
  BY <1>1, <1>2, <1>3, <1>4, <1>5, <1>6, Zenon

LEMMA ObserveConv ==
    ASSUME NEW kd, CInv(kd), IInv', NEW o \in Objects, Observe(o)
    PROVE  CInv(kd)'
<1> DEFINE k == KindOf[o]
           j == JobOf(o, api[o])
           seen == Live(api[o]) \/ Live(cache[o])
<1>1. /\ k \in started /\ cache[o] # api[o] /\ cache' = [cache EXCEPT ![o] = api[o]]
      /\ UNCHANGED <<api, started, queue, registry, worker, rows, flags, raced>>
  BY Zenon DEF Observe
<1>2. pending' = IF seen THEN [pending EXCEPT ![k] = Append(@, j)] ELSE pending
  BY Zenon DEF Observe
<1>3. /\ TypeOK /\ k \in Kinds /\ pending[k] \in Seq(Job) /\ cache'[o] = api[o]
      /\ \A x \in Objects \ {o} : cache'[x] = cache[x]
  BY <1>1, CollectionAssumption, Zenon DEF CInv, IInv, TypeOK
<1>4. ASSUME seen PROVE j \in Job /\ j.obj = o /\ api[o].tag # "absent"
  <2>1. api[o].tag # "absent"
    BY <1>4, Zenon DEF CInv, IInv, CacheFollows, Live, Tags
  <2> QED
    BY <1>3, <2>1, Zenon DEF TypeOK, JobOf, Job, Versioned
<1>5. ASSUME ~seen PROVE cache[o].tag = "absent" /\ pending' = pending
  BY <1>1, <1>2, <1>3, <1>5 DEF CInv, IInv, CacheFollows, Live, TypeOK, Versioned
<1> HIDE DEF j, seen
<1>6. ASSUME NEW x, x # o
      PROVE  /\ About(pending'[k], x) <=> About(pending[k], x)
             /\ \A n : LastIs(pending[k], x, n) => LastIs(pending'[k], x, n)
  <2>1. CASE seen
    <3>1. pending'[k] = Append(pending[k], j)
      BY <1>2, <1>3, <2>1, Zenon DEF TypeOK
    <3> QED
      BY <1>3, <1>4, <1>6, <2>1, <3>1, AppendFacts
  <2> QED
    BY <1>5, <2>1, Zenon
<1>7. \A l \in Kinds \ {k} : pending'[l] = pending[l]
  BY <1>2, <1>3, Zenon DEF TypeOK
<1>8. InformersRun' /\ KindsMeet(kd)'
  BY <1>1, Zenon DEF CInv, InformersRun, KindsMeet, Beyond, registry
<1>9. KnownJobs'
  <2>1. ASSUME NEW l \in Kinds, NEW i \in DOMAIN pending'[l]
        PROVE  KindOf[pending'[l][i].obj] = l /\ cache'[pending'[l][i].obj].tag # "absent"
    <3>1. \/ i \in DOMAIN pending[l] /\ pending'[l][i] = pending[l][i]
          \/ seen /\ l = k /\ pending'[l][i] = j
      <4>1. CASE seen /\ l = k
        <5>1. pending'[k] = Append(pending[k], j)
          BY <1>2, <1>3, <4>1, Zenon DEF TypeOK
        <5> QED
          BY <1>3, <1>4, <2>1, <4>1, <5>1
      <4> QED
        BY <1>5, <1>7, <2>1, <4>1, Zenon
    <3>2. CASE seen /\ l = k /\ pending'[l][i] = j
      BY <1>3, <1>4, <3>2, Zenon
    <3>3. CASE i \in DOMAIN pending[l] /\ pending'[l][i] = pending[l][i]
      <4>1. /\ KindOf[pending[l][i].obj] = l /\ cache[pending[l][i].obj].tag # "absent"
            /\ pending[l][i].obj \in Objects
        BY <1>3, <3>3, JobObjects, Zenon DEF CInv, KnownJobs
      <4> QED
        BY <1>3, <1>4, <1>5, <3>3, <4>1, Zenon
    <3> QED
      BY <3>1, <3>2, <3>3, Zenon
  <2>2. \A x \in Objects : cache[x].tag # "absent" => cache'[x].tag # "absent"
    BY <1>3, <1>4, <1>5, Zenon
  <2> QED
    BY <1>1, <1>3, <2>1, <2>2, JobObjects DEF CInv, KnownJobs, registry
<1>10. ASSUME NEW x \in Objects \ raced, x # o PROVE Converging(kd, x)'
  <2>1. Converging(kd, x) /\ KindOf[x] \in Kinds
    BY CollectionAssumption, Zenon DEF CInv
  <2>2. cache'[x] = cache[x] /\ UNCHANGED <<queue, rec, worker, targets, rows>>
    BY <1>1, <1>3, <1>10, Zenon DEF registry
  <2>3. /\ About(pending'[KindOf[x]], x) <=> About(pending[KindOf[x]], x)
        /\ \A n : LastIs(pending[KindOf[x]], x, n) => LastIs(pending'[KindOf[x]], x, n)
    BY <1>6, <1>7, <1>10, <2>1, Zenon
  <2>4. \A w \in Workers : /\ Busy(w, x)' <=> Busy(w, x)
                           /\ (Beyond(w) /\ Busy(w, x))' <=> Beyond(w) /\ Busy(w, x)
    BY <2>2, Zenon DEF Busy, Beyond
  <2>5. ASSUME NEW t \in Targets, RowIsDue(t, x) PROVE RowIsDue(t, x)'
    <3>1. Refilled(t, x)' <=> Refilled(t, x)
      BY <2>2, Zenon DEF Refilled
    <3>2. Due(t, x)' = Due(t, x)
      BY <2>2, Zenon DEF Due, Collects
    <3> QED
      BY <2>2, <2>4, <2>5, <3>1, <3>2, RowFrame, Zenon
  <2> QED
    BY <2>1, <2>2, <2>3, <2>4, <2>5, ConvergingFrame, Zenon
<1>11. ASSUME o \notin raced PROVE Converging(kd, o)'
  <2>1. Converging(kd, o) /\ UNCHANGED <<queue, rec, worker, targets, rows>>
    BY <1>1, <1>11, Zenon DEF CInv, registry
  <2>2. \A v, w \in Workers : Busy(v, o)' /\ Busy(w, o)' => v = w
    BY <2>1, Zenon DEF Converging, Busy
  <2>3. CASE seen
    <3>1. pending'[k] = Append(pending[k], j) /\ j = Now(o)'
      BY <1>2, <1>3, <2>3, Zenon DEF TypeOK, j, Now
    <3>2. About(pending'[k], o) /\ LastIs(pending'[k], o, j)
      BY <1>3, <1>4, <2>3, <3>1, AppendFacts
    <3> QED
      BY <2>2, <3>1, <3>2, Zenon DEF Converging, LastWord, ToCome
  <2>4. CASE ~seen
    <3>1. cache[o].tag = "absent" /\ pending' = pending
      BY <1>5, <2>4, Zenon
    <3>2. /\ ~About(pending[k], o) /\ ~About(queue, o) /\ ~InBackfill(o)
          /\ \A w \in Workers : ~Busy(w, o)
      BY <1>3, <3>1 DEF CInv, KnownJobs, About, InBackfill, Busy
    <3>3. LastWord(o)'
      BY <2>1, <3>1, <3>2, Zenon DEF LastWord, LastIs, About, InBackfill, Busy
    <3>4. ASSUME NEW t \in Targets, kd[t] = KindOf[o] PROVE RowIsDue(t, o)'
      <4>1. RowIsDue(t, o)
        BY <2>1, <3>2, <3>4, Zenon DEF Converging, ToCome, Busy
      <4>2. \A w \in Workers : ~(Beyond(w) /\ worker[w].job.obj = o)
        BY <3>2, Zenon DEF Beyond, Busy
      <4>3. HeldAreCurrent(t, o)'
        BY <2>1, <4>2, Zenon DEF HeldAreCurrent, Beyond
      <4>4. ~Live(cache[o]) /\ ~Live(api[o])
        BY <2>4, Zenon DEF seen
      <4>5. Due(t, o) = 0 /\ Due(t, o)' = 0
        BY <1>3, <4>4, Zenon DEF Due, Live, Tags
      <4>6. rec[t].pc = "clear" \/ rows[t][o] = 0
        BY <4>1, <4>2, <4>4, <4>5, Zenon DEF RowIsDue, Refilled, Held
      <4> QED
        BY <2>1, <4>3, <4>5, <4>6, Zenon DEF RowIsDue
    <3> QED
      BY <2>2, <3>3, <3>4, Zenon DEF Converging
  <2> QED
    BY <2>3, <2>4, Zenon
<1> QED
  BY <1>1, <1>8, <1>9, <1>10, <1>11, Zenon DEF CInv

\* What an informer notifies when it lists its objects.
LEMMA ListingFacts ==
    ASSUME NEW c \in [Objects -> Versioned], NEW k, NEW s \in Enumerations(CachedJobs(c, k))
    PROVE  /\ s \in Seq(Job)
           /\ \A i \in DOMAIN s : /\ KindOf[s[i].obj] = k /\ Live(c[s[i].obj])
                                  /\ s[i].obj \in Objects /\ s[i] = JobOf(s[i].obj, c[s[i].obj])
           /\ \A o \in Objects : KindOf[o] = k /\ Live(c[o]) => About(s, o)
           /\ \A o : LastIs(s, o, JobOf(o, c[o]))
<1>1. CachedJobs(c, k) \in SUBSET Job
  BY CachedJobsFacts, Zenon
<1>2. /\ s \in Seq(Job) /\ \A j \in CachedJobs(c, k) : \E i \in DOMAIN s : s[i] = j
      /\ \A i \in DOMAIN s : s[i] \in CachedJobs(c, k)
  BY <1>1, EnumerationFacts, Zenon
<1>3. ASSUME NEW j \in CachedJobs(c, k)
      PROVE  /\ KindOf[j.obj] = k /\ Live(c[j.obj]) /\ j.obj \in Objects
             /\ j = JobOf(j.obj, c[j.obj])
  BY <1>3 DEF CachedJobs, JobOf
<1>4. ASSUME NEW o \in Objects, KindOf[o] = k, Live(c[o]) PROVE About(s, o)
  <2>1. JobOf(o, c[o]) \in CachedJobs(c, k) /\ JobOf(o, c[o]).obj = o
    BY <1>4, Zenon DEF CachedJobs, JobOf
  <2> QED
    BY <1>2, <2>1, Zenon DEF About
<1>5. ASSUME NEW o PROVE LastIs(s, o, JobOf(o, c[o]))
  BY <1>2, <1>3, Zenon DEF LastIs
<1> QED
  BY <1>2, <1>3, <1>4, <1>5, Zenon

LEMMA ResyncConv ==
    ASSUME NEW kd, CInv(kd), IInv', NEW k \in Kinds, Resync(k)
    PROVE  CInv(kd)'
<1>1. PICK s \in Enumerations(CachedJobs(cache, k)) : pending' = [pending EXCEPT ![k] = s]
  BY Zenon DEF Resync
<1>2. /\ pending[k] = <<>>
      /\ UNCHANGED <<api, started, cache, queue, registry, worker, rows, flags, raced>>
  BY Zenon DEF Resync
<1>3. /\ TypeOK /\ cache \in [Objects -> Versioned] /\ pending'[k] = s
      /\ \A l \in Kinds \ {k} : pending'[l] = pending[l]
  BY <1>1, Zenon DEF CInv, IInv, TypeOK
<1>4. /\ s \in Seq(Job)
      /\ \A i \in DOMAIN s : /\ KindOf[s[i].obj] = k /\ Live(cache[s[i].obj])
                             /\ s[i].obj \in Objects /\ s[i] = JobOf(s[i].obj, cache[s[i].obj])
      /\ \A o \in Objects : KindOf[o] = k /\ Live(cache[o]) => About(s, o)
      /\ \A o : LastIs(s, o, JobOf(o, cache[o]))
  BY <1>3, ListingFacts
<1>5. InformersRun' /\ KindsMeet(kd)'
  BY <1>2, Zenon DEF CInv, InformersRun, KindsMeet, Beyond, registry
<1>6. KnownJobs'
  BY <1>2, <1>3, <1>4 DEF CInv, KnownJobs, registry, Live, Tags
<1>7. ASSUME NEW o \in Objects \ raced PROVE Converging(kd, o)'
  <2>1. /\ Converging(kd, o) /\ KindOf[o] \in Kinds
        /\ UNCHANGED <<cache, queue, rec, worker, targets, rows>>
    BY <1>2, CollectionAssumption, Zenon DEF CInv, registry
  <2>2. CASE KindOf[o] = k /\ Live(cache[o])
    <3>1. About(pending'[k], o) /\ LastIs(pending'[k], o, Now(o)')
      BY <1>3, <1>4, <2>1, <2>2, Zenon DEF Now
    <3>2. \A v, w \in Workers : Busy(v, o)' /\ Busy(w, o)' => v = w
      BY <2>1, Zenon DEF Converging, Busy
    <3> QED
      BY <2>2, <3>1, <3>2, Zenon DEF Converging, LastWord, ToCome
  <2>3. CASE ~(KindOf[o] = k /\ Live(cache[o]))
    <3>1. /\ About(pending'[KindOf[o]], o) <=> About(pending[KindOf[o]], o)
          /\ \A n : LastIs(pending[KindOf[o]], o, n) => LastIs(pending'[KindOf[o]], o, n)
      <4>1. CASE KindOf[o] = k
        BY <1>2, <1>3, <1>4, <2>3, <4>1 DEF About, LastIs
      <4>2. CASE KindOf[o] # k
        BY <1>3, <2>1, <4>2, Zenon
      <4> QED
        BY <4>1, <4>2, Zenon
    <3>2. \A t \in Targets : RowIsDue(t, o) => RowIsDue(t, o)'
      BY <2>1, RowsStayDue, Zenon DEF Refilled
    <3>3. \A w \in Workers : Busy(w, o)' <=> Busy(w, o)
      BY <2>1, Zenon DEF Busy
    <3> QED
      BY <2>1, <3>1, <3>2, <3>3, ConvergingFrame, Zenon
  <2> QED
    BY <2>2, <2>3, Zenon
<1> QED
  BY <1>2, <1>5, <1>6, <1>7, Zenon DEF CInv

LEMMA DeliverConv ==
    ASSUME NEW kd, CInv(kd), IInv', NEW k \in Kinds, Deliver(k)
    PROVE  CInv(kd)'
<1> DEFINE j == Head(pending[k])
<1>1. /\ pending[k] # <<>> /\ queue' = Append(queue, j)
      /\ pending' = [pending EXCEPT ![k] = Tail(@)]
      /\ raced' = raced \cup {o \in {j.obj} : InBackfill(o)}
      /\ UNCHANGED <<api, started, cache, registry, worker, rows, flags>>
  BY Zenon DEF Deliver, dispatch
<1>2. /\ TypeOK /\ pending[k] \in Seq(Job) /\ queue \in Seq(Job) /\ pending'[k] = Tail(pending[k])
      /\ \A l \in Kinds \ {k} : pending'[l] = pending[l]
  BY <1>1, Zenon DEF CInv, IInv, TypeOK
<1>3. j \in Job /\ pending[k][1] = j /\ 1 \in DOMAIN pending[k]
  BY <1>1, <1>2
<1>4. j.obj \in Objects /\ KindOf[j.obj] = k /\ cache[j.obj].tag # "absent"
  BY <1>2, <1>3, JobObjects DEF CInv, KnownJobs
<1>5. ASSUME NEW o
      PROVE  /\ About(pending[k], o) <=> About(pending'[k], o) \/ j.obj = o
             /\ \A n : LastIs(pending[k], o, n) => LastIs(pending'[k], o, n)
             /\ \A n : LastIs(pending[k], o, n) /\ ~About(pending'[k], o) /\ j.obj = o => j = n
             /\ About(queue', o) <=> About(queue, o) \/ j.obj = o
             /\ \A n : j.obj # o /\ LastIs(queue, o, n) => LastIs(queue', o, n)
             /\ j.obj = o => LastIs(queue', o, j)
  <2>1. /\ About(pending[k], o) <=> About(Tail(pending[k]), o) \/ Head(pending[k]).obj = o
        /\ \A n : LastIs(pending[k], o, n) => LastIs(Tail(pending[k]), o, n)
        /\ \A n : LastIs(pending[k], o, n) /\ ~About(Tail(pending[k]), o)
                     /\ Head(pending[k]).obj = o => Head(pending[k]) = n
    BY <1>1, <1>2, TailFacts, Zenon
  <2>2. pending'[k] = Tail(pending[k]) /\ queue' = Append(queue, j) /\ j = Head(pending[k])
    BY <1>1, <1>2, Zenon
  <2> HIDE DEF j
  <2>3. /\ About(Append(queue, j), o) <=> About(queue, o) \/ j.obj = o
        /\ \A n : j.obj # o /\ LastIs(queue, o, n) => LastIs(Append(queue, j), o, n)
        /\ j.obj = o => LastIs(Append(queue, j), o, j)
    <3>1. queue \in Seq(Job) /\ j \in Job
      BY <1>2, <1>3, Zenon
    <3> QED
      BY <3>1, AppendFacts, Zenon
  <2> QED
    BY <2>1, <2>2, <2>3, Zenon
<1> HIDE DEF j
<1>6. InformersRun' /\ KindsMeet(kd)'
  BY <1>1, Zenon DEF CInv, InformersRun, KindsMeet, Beyond, registry
<1>7. KnownJobs'
  <2>1. \A i \in DOMAIN pending'[k] : i + 1 \in DOMAIN pending[k] /\ pending'[k][i] = pending[k][i + 1]
    <3>1. pending[k] \in Seq(Job) /\ pending[k] # <<>> /\ pending'[k] = Tail(pending[k])
      BY <1>1, <1>2, Zenon
    <3>2. \A i \in DOMAIN Tail(pending[k]) :
             i + 1 \in DOMAIN pending[k] /\ Tail(pending[k])[i] = pending[k][i + 1]
      BY <3>1, TailMembers, Zenon
    <3> QED
      BY <3>1, <3>2, Zenon
  <2>2. \A i \in DOMAIN queue' : queue'[i] = j \/ (i \in DOMAIN queue /\ queue'[i] = queue[i])
    BY <1>1, <1>2, <1>3, AppendMembers
  <2> QED
    BY <1>1, <1>2, <1>4, <2>1, <2>2 DEF CInv, KnownJobs, registry
<1>8. ASSUME NEW o \in Objects, o \notin raced' PROVE Converging(kd, o)'
  <2>1. /\ Converging(kd, o) /\ KindOf[o] \in Kinds
        /\ UNCHANGED <<cache, rec, worker, targets, rows>>
    BY <1>1, <1>8, CollectionAssumption, Zenon DEF CInv, registry
  <2>2. CASE o = j.obj
    <3>1. ~InBackfill(o) /\ ~InBackfill(o)'
      BY <1>1, <1>8, <2>1, <2>2, Zenon DEF InBackfill
    <3>2. Now(o)' = Now(o) /\ KindOf[o] = k
      BY <1>4, <2>1, <2>2, Zenon DEF Now
    <3>3. LastIs(pending'[k], o, Now(o)) /\ (About(pending'[k], o) \/ j = Now(o))
      BY <1>5, <2>1, <2>2, <3>2, Zenon DEF Converging, LastWord
    <3>4. About(queue', o) /\ LastIs(queue', o, j)
      BY <1>5, <2>2, Zenon
    <3>5. LastWord(o)'
      BY <3>1, <3>2, <3>3, <3>4, Zenon DEF LastWord, InBackfill
    <3>6. \A v, w \in Workers : Busy(v, o)' /\ Busy(w, o)' => v = w
      BY <2>1, Zenon DEF Converging, Busy
    <3> QED
      BY <3>4, <3>5, <3>6, Zenon DEF Converging, ToCome
  <2>3. CASE o # j.obj
    <3>1. /\ About(pending'[KindOf[o]], o) <=> About(pending[KindOf[o]], o)
          /\ \A n : LastIs(pending[KindOf[o]], o, n) => LastIs(pending'[KindOf[o]], o, n)
      BY <1>2, <1>5, <2>1, <2>3, Zenon
    <3>2. \A t \in Targets : RowIsDue(t, o) => RowIsDue(t, o)'
      BY <2>1, RowsStayDue, Zenon DEF Refilled
    <3>3. \A w \in Workers : Busy(w, o)' <=> Busy(w, o)
      BY <2>1, Zenon DEF Busy
    <3> QED
      BY <1>5, <2>1, <2>3, <3>1, <3>2, <3>3, ConvergingFrame, Zenon
  <2> QED
    BY <2>2, <2>3, Zenon
<1> QED
  BY <1>6, <1>7, <1>8, Zenon DEF CInv

\* The step of a target's call that leaves every job and every other call alone.
LEMMA CallConv ==
    ASSUME NEW kd, CInv(kd), IInv', NEW t \in Targets,
           UNCHANGED <<started, cache, pending, queue, worker, raced>>,
           rec[t].list = {}, rec'[t].list = {},
           \A u \in Targets \ {t} : rec'[u] = rec[u] /\ targets'[u] = targets[u] /\ rows'[u] = rows[u],
           \A o \in Objects : rows'[t][o] \in {0, rows[t][o]},
           \A o \in Objects \ raced :
              Converging(kd, o) /\ kd[t] = KindOf[o] /\ ~ToCome(o) /\ RowIsDue(t, o)
                  => RowIsDue(t, o)',
           InformersRun'
    PROVE  CInv(kd)'
<1>1. KnownJobs'
  BY DEF CInv, KnownJobs
<1>2. KindsMeet(kd)'
  <2>1. \A u \in Targets, o \in Objects : rows'[u][o] \in {0, rows[u][o]}
    BY Zenon
  <2>2. KindsMeet(kd)
    BY Zenon DEF CInv
  <2> QED
    BY <2>1, <2>2 DEF KindsMeet, Beyond
<1>3. ASSUME NEW o \in Objects \ raced PROVE Converging(kd, o)'
  <2>1. Converging(kd, o)
    BY Zenon DEF CInv
  <2>2. \A w \in Workers : /\ Busy(w, o)' <=> Busy(w, o)
                           /\ (Beyond(w) /\ Busy(w, o))' <=> Beyond(w) /\ Busy(w, o)
    BY Zenon DEF Busy, Beyond
  <2>3. ASSUME NEW u \in Targets \ {t}, RowIsDue(u, o) PROVE RowIsDue(u, o)'
    <3>1. Refilled(u, o)' <=> Refilled(u, o)
      BY Zenon DEF Refilled
    <3>2. Due(u, o)' = Due(u, o)
      BY Zenon DEF Due, Collects
    <3> QED
      BY <2>2, <2>3, <3>1, <3>2, RowFrame, Zenon
  <2>4. ~ToCome(o) => \A u \in Targets : kd[u] = KindOf[o] /\ RowIsDue(u, o) => RowIsDue(u, o)'
    BY <2>1, <2>3, Zenon
  <2>5. \A u \in Targets : rec'[u].list = rec[u].list
    BY Zenon
  <2> QED
    BY <2>1, <2>2, <2>4, <2>5, ConvergingFrame, Zenon
<1> QED
  BY <1>1, <1>2, <1>3, Zenon DEF CInv

\* A registration begins a call whose backfill owes the target every object of its kind.
LEMMA RegisterConv ==
    ASSUME NEW kd, CInv(kd), IInv', KeepsKind(kd)', NEW t \in Targets, NEW spec \in TargetSpec,
           RegisterTarget(t, spec)
    PROVE  CInv(kd)'
<1>1. /\ rec[t].pc = "idle"
      /\ targets' = [targets EXCEPT ![t] = spec]
      /\ rec' = [rec EXCEPT ![t] = [pc |-> "informer", backfill |-> targets[t] # spec, list |-> {}]]
      /\ UNCHANGED <<informer, queue, worker, rows, flags, raced>>
  BY Zenon DEF RegisterTarget
<1>2. /\ rec[t].list = {} /\ rec'[t].list = {} /\ rec'[t].pc = "informer"
      /\ rec'[t].backfill = (targets[t] # spec) /\ targets'[t] = spec /\ spec # NoSpec
      /\ \A u \in Targets \ {t} : rec'[u] = rec[u] /\ targets'[u] = targets[u]
  <2> DEFINE call == [pc |-> "informer", backfill |-> targets[t] # spec, list |-> {}]
  <2>1. DOMAIN rec = Targets /\ DOMAIN targets = Targets /\ rec[t].list = {}
    BY <1>1, Zenon DEF CInv, IInv, TypeOK, CallsAreOrderly
  <2>2. rec'[t] = call /\ targets'[t] = spec
    BY <1>1, <2>1, Zenon
  <2>3. \A u \in Targets \ {t} : rec'[u] = rec[u] /\ targets'[u] = targets[u]
    BY <1>1, <2>1, Zenon
  <2>4. spec # NoSpec
    BY CollectionAssumption, Zenon DEF TargetSpec
  <2>5. call.list = {} /\ call.pc = "informer" /\ call.backfill = (targets[t] # spec)
    BY Zenon
  <2> QED
    BY <2>1, <2>2, <2>3, <2>4, <2>5, Zenon
<1>3. InformersRun'
  BY <1>1, <1>2 DEF CInv, InformersRun, informer
<1>4. ASSUME NEW o \in Objects, Converging(kd, o), kd[t] = KindOf[o], ~ToCome(o), RowIsDue(t, o)
      PROVE  RowIsDue(t, o)'
  <2>1. /\ HeldAreCurrent(t, o)
        /\ \/ rows[t][o] = Due(t, o)
           \/ targets[t] # NoSpec /\ \E w \in Workers : Held(w, t, o)
    BY <1>1, <1>4, Zenon DEF RowIsDue, Refilled
  <2>2. UNCHANGED <<cache, worker, rows>>
    BY <1>1, Zenon DEF informer
  <2>3. CASE targets[t] = spec
    <3>1. HeldAreCurrent(t, o)'
      BY <1>2, <2>1, <2>2, <2>3, Zenon DEF HeldAreCurrent, Beyond
    <3>2. Due(t, o)' = Due(t, o)
      BY <1>2, <2>2, <2>3, Zenon DEF Due, Collects
    <3>3. \A w \in Workers : Held(w, t, o) => Held(w, t, o)'
      BY <2>2, Zenon DEF Held, Beyond
    <3> QED
      BY <1>2, <2>1, <2>2, <2>3, <3>1, <3>2, <3>3, Zenon DEF RowIsDue
  <2>4. CASE targets[t] # spec /\ Live(cache[o])
    BY <1>2, <2>2, <2>4, Zenon DEF RowIsDue, Refilled
  <2>5. CASE targets[t] # spec /\ ~Live(cache[o])
    <3>1. ASSUME NEW w \in Workers, Beyond(w), worker[w].job.obj = o PROVE Deleted(worker[w].job)
      <4>1. worker[w].job = Now(o)
        BY <1>4, <3>1, LastJob, Zenon DEF ToCome, Busy, Beyond
      <4>2. worker[w].job \in Job
        BY Zenon DEF CInv, IInv, TypeOK
      <4> QED
        BY <2>5, <4>1, <4>2 DEF Now, JobOf, Job, Live, Deleted
    <3>2. HeldAreCurrent(t, o)'
      BY <2>2, <3>1, Zenon DEF HeldAreCurrent, Beyond
    <3>3. Due(t, o) = 0 /\ Due(t, o)' = 0
      BY <2>2, <2>5, Zenon DEF Due, Live, Tags
    <3>4. \A w \in Workers : Held(w, t, o) => Held(w, t, o)'
      BY <2>2, Zenon DEF Held, Beyond
    <3> QED
      BY <1>2, <2>1, <2>2, <3>2, <3>3, <3>4, Zenon DEF RowIsDue
  <2> QED
    BY <2>3, <2>4, <2>5, Zenon
<1>5. /\ UNCHANGED <<started, cache, pending, queue, worker, raced>>
      /\ \A u \in Targets : rows'[u] = rows[u]
  BY <1>1, Zenon DEF informer
<1> QED
  BY <1>2, <1>3, <1>4, <1>5, CallConv, Zenon

LEMMA UnregisterConv ==
    ASSUME NEW kd, CInv(kd), IInv', NEW t \in Targets, UnregisterTarget(t)
    PROVE  CInv(kd)'
<1>1. /\ rec[t].pc = "idle"
      /\ targets' = [targets EXCEPT ![t] = NoSpec]
      /\ rec' = [rec EXCEPT ![t].pc = "clear"]
      /\ UNCHANGED <<informer, queue, worker, rows, raced>>
  BY Zenon DEF UnregisterTarget
<1>2. /\ rec[t].list = {} /\ rec'[t].list = {} /\ rec'[t].pc = "clear" /\ targets'[t] = NoSpec
      /\ \A u \in Targets \ {t} : rec'[u] = rec[u] /\ targets'[u] = targets[u]
  BY <1>1 DEF CInv, IInv, TypeOK, CallsAreOrderly, Reconciler
<1>3. InformersRun'
  BY <1>1, <1>2 DEF CInv, InformersRun, informer
<1>4. \A o \in Objects : RowIsDue(t, o)'
  BY <1>2, Zenon DEF RowIsDue
<1>5. /\ UNCHANGED <<started, cache, pending, queue, worker, raced>>
      /\ \A u \in Targets : rows'[u] = rows[u]
  BY <1>1, Zenon DEF informer
<1> QED
  BY <1>2, <1>3, <1>4, <1>5, CallConv, Zenon

LEMMA RemoveTargetConv ==
    ASSUME NEW kd, CInv(kd), IInv', NEW t \in Targets, RemoveTarget(t)
    PROVE  CInv(kd)'
<1>1. /\ rec[t].pc = "clear" /\ rec' = [rec EXCEPT ![t] = IdleRec]
      /\ rows' = [rows EXCEPT ![t] = [o \in Objects |-> 0]]
      /\ UNCHANGED <<informer, queue, targets, byGVR, calls, worker, flags, raced>>
  BY Zenon DEF RemoveTarget
<1>2. /\ rec[t].list = {} /\ rec'[t].list = {} /\ targets[t] = NoSpec
      /\ \A u \in Targets \ {t} : rec'[u] = rec[u] /\ rows'[u] = rows[u]
      /\ \A o \in Objects : rows'[t][o] = 0
  BY <1>1, Zenon DEF CInv, IInv, TypeOK, CallsAreOrderly, IdleRec
<1>3. InformersRun'
  BY <1>1, <1>2, Zenon DEF CInv, InformersRun, informer
<1>4. ASSUME NEW o \in Objects PROVE RowIsDue(t, o)'
  BY <1>1, <1>2, Zenon DEF RowIsDue, HeldAreCurrent, Due, Collects
<1>5. /\ UNCHANGED <<started, cache, pending, queue, worker, raced>>
      /\ \A u \in Targets : targets'[u] = targets[u]
  BY <1>1, Zenon DEF informer
<1> QED
  BY <1>2, <1>3, <1>4, <1>5, CallConv, Zenon

LEMMA BackfillConv ==
    ASSUME NEW kd, CInv(kd), IInv', NEW t \in Targets, resyncInformerStore(t)
    PROVE  CInv(kd)'
<1>1. /\ UNCHANGED <<informer, targets, byGVR, calls, worker, rows, flags, raced>>
      /\ rec[t].pc = "filling"
  BY Zenon DEF resyncInformerStore
<1>2. PICK j \in rec[t].list :
         /\ queue' = Append(queue, j)
         /\ rec' = [rec EXCEPT ![t] = IF @.list = {j} THEN IdleRec
                                      ELSE [rec[t] EXCEPT !.list = rec[t].list \ {j}]]
  BY Zenon DEF resyncInformerStore, dispatch
<1>3. TypeOK /\ queue \in Seq(Job) /\ j \in Job /\ j.obj \in Objects /\ rec[t] \in Reconciler
  <2>1. TypeOK /\ queue \in Seq(Job) /\ rec[t] \in Reconciler
    BY Zenon DEF CInv, IInv, TypeOK
  <2>2. j \in Job
    BY <2>1, Zenon DEF Reconciler
  <2> QED
    BY <2>1, <2>2, Zenon DEF Job
<1>4. rec'[t].list = rec[t].list \ {j} /\ rec'[t].pc \in {"idle", "filling"}
  <2>1. CASE rec[t].list = {j}
    BY <1>2, <1>3, <2>1, Zenon DEF IdleRec, TypeOK
  <2>2. CASE rec[t].list # {j}
    BY <1>1, <1>2, <1>3, <2>2, Zenon DEF TypeOK, Reconciler
  <2> QED
    BY <2>1, <2>2, Zenon
<1>5. \A u \in Targets \ {t} : rec'[u] = rec[u]
  BY <1>2, <1>3, Zenon DEF TypeOK
<1>6. ASSUME NEW o
      PROVE  /\ About(queue', o) <=> About(queue, o) \/ j.obj = o
             /\ \A n : j.obj # o /\ LastIs(queue, o, n) => LastIs(queue', o, n)
             /\ j.obj = o => LastIs(queue', o, j)
  BY <1>2, <1>3, AppendFacts, Zenon
<1>7. InformersRun' /\ KindsMeet(kd)'
  BY <1>1, <1>4, <1>5, Zenon DEF CInv, InformersRun, KindsMeet, Beyond, informer
<1>8. KnownJobs'
  <2>1. \A i \in DOMAIN queue' : queue'[i] = j \/ (i \in DOMAIN queue /\ queue'[i] = queue[i])
    BY <1>2, <1>3, AppendMembers, Zenon
  <2>2. \A u \in Targets : rec'[u].list \subseteq rec[u].list
    BY <1>4, <1>5, Zenon
  <2> QED
    BY <1>1, <2>1, <2>2, Zenon DEF CInv, KnownJobs, informer
<1>9. ASSUME NEW o \in Objects \ raced PROVE Converging(kd, o)'
  <2>1. Converging(kd, o) /\ UNCHANGED <<cache, pending, worker, targets, rows>>
    BY <1>1, Zenon DEF CInv, informer
  <2>2. CASE o = j.obj
    <3>1. /\ Now(o)' = Now(o) /\ LastIs(pending'[KindOf[o]], o, Now(o))
          /\ \/ About(pending'[KindOf[o]], o)
             \/ \A u \in Targets : \A n \in rec[u].list : n.obj = o => n = Now(o)
      BY <2>1, Zenon DEF Converging, LastWord, Now
    <3>2. About(queue', o) /\ LastIs(queue', o, j)
      BY <1>6, <2>2, Zenon
    <3>3. ASSUME \A u \in Targets : \A n \in rec[u].list : n.obj = o => n = Now(o)
          PROVE  /\ \A u \in Targets : \A n \in rec'[u].list : n.obj = o => n = Now(o)
                 /\ LastIs(queue', o, Now(o))
      BY <1>2, <1>4, <1>5, <2>2, <3>2, <3>3, Zenon
    <3>4. LastWord(o)'
      BY <3>1, <3>2, <3>3, Zenon DEF LastWord
    <3>5. \A v, w \in Workers : Busy(v, o)' /\ Busy(w, o)' => v = w
      BY <2>1, Zenon DEF Converging, Busy
    <3> QED
      BY <3>2, <3>4, <3>5, Zenon DEF Converging, ToCome
  <2>3. CASE o # j.obj
    <3>1. \A u \in Targets : \A n : n.obj = o => (n \in rec'[u].list <=> n \in rec[u].list)
      BY <1>4, <1>5, <2>3, Zenon
    <3>2. \A u \in Targets : RowIsDue(u, o) => RowIsDue(u, o)'
      BY <1>1, <1>4, <1>5, <2>1, RowsStayDue, Zenon DEF Refilled
    <3>3. \A w \in Workers : Busy(w, o)' <=> Busy(w, o)
      BY <2>1, Zenon DEF Busy
    <3> QED
      BY <1>6, <2>1, <2>3, <3>1, <3>2, <3>3, ConvergingFrame, Zenon
  <2> QED
    BY <2>2, <2>3, Zenon
<1> QED
  BY <1>1, <1>7, <1>8, <1>9, Zenon DEF CInv

LEMMA ListForBackfillConv ==
    ASSUME NEW kd, CInv(kd), IInv', KeepsKind(kd), NEW t \in Targets, ListForBackfill(t)
    PROVE  CInv(kd)'
<1> DEFINE k == targets[t].kind
           jobs == IF rec[t].backfill THEN CachedJobs(cache, k) ELSE {}
           new == IF jobs = {} THEN IdleRec ELSE [pc |-> "filling", backfill |-> TRUE, list |-> jobs]
<1>1. /\ UNCHANGED <<informer, queue, targets, byGVR, calls, worker, rows, flags, raced>>
      /\ rec[t].pc = "informer" /\ k \in started /\ rec' = [rec EXCEPT ![t] = new]
  BY Zenon DEF ListForBackfill
<1>2. /\ rec[t].list = {} /\ targets[t] # NoSpec /\ k = kd[t]
  BY <1>1, Zenon DEF CInv, IInv, CallsAreOrderly, KeepsKind
<1>3. new.list = jobs /\ new.pc \in {"idle", "filling"}
  BY Zenon DEF IdleRec
<1>4. \A j \in jobs : /\ KindOf[j.obj] = k /\ Live(cache[j.obj]) /\ j.obj \in Objects
                      /\ j = JobOf(j.obj, cache[j.obj])
  BY DEF CachedJobs, JobOf
<1>5. ASSUME NEW o \in Objects, rec[t].backfill, KindOf[o] = k, Live(cache[o])
      PROVE  \E j \in jobs : j.obj = o
  <2>1. JobOf(o, cache[o]) \in jobs /\ JobOf(o, cache[o]).obj = o
    BY <1>5, Zenon DEF CachedJobs, JobOf
  <2> QED
    BY <2>1, Zenon
<1> HIDE DEF jobs, new
<1>6. rec'[t] = new /\ \A u \in Targets \ {t} : rec'[u] = rec[u]
  BY <1>1, Zenon DEF CInv, IInv, TypeOK
<1>7. InformersRun' /\ KindsMeet(kd)'
  BY <1>1, <1>3, <1>6, Zenon DEF CInv, InformersRun, KindsMeet, Beyond, informer
<1>8. KnownJobs'
  <2>1. \A j \in rec'[t].list : cache'[j.obj].tag # "absent"
    BY <1>1, <1>3, <1>4, <1>6, Zenon DEF Live, Tags, informer
  <2> QED
    BY <1>1, <1>6, <2>1 DEF CInv, KnownJobs, informer
<1>9. ASSUME NEW o \in Objects \ raced PROVE Converging(kd, o)'
  <2>1. Converging(kd, o) /\ UNCHANGED <<cache, pending, queue, worker, targets, rows>>
    BY <1>1, Zenon DEF CInv, informer
  <2>2. CASE \E j \in jobs : j.obj = o
    <3>1. InBackfill(o)'
      BY <1>3, <1>6, <2>2, Zenon DEF InBackfill
    <3>2. /\ Now(o)' = Now(o) /\ LastIs(pending'[KindOf[o]], o, Now(o))
          /\ \/ About(pending'[KindOf[o]], o)
             \/ \A u \in Targets : \A n \in rec[u].list : n.obj = o => n = Now(o)
      BY <2>1, Zenon DEF Converging, LastWord, Now
    <3>3. ASSUME \A u \in Targets : \A n \in rec[u].list : n.obj = o => n = Now(o)
          PROVE  \A u \in Targets : \A n \in rec'[u].list : n.obj = o => n = Now(o)
      BY <1>3, <1>4, <1>6, <3>3, Zenon DEF Now
    <3>4. LastWord(o)'
      BY <3>1, <3>2, <3>3, Zenon DEF LastWord
    <3>5. \A v, w \in Workers : Busy(v, o)' /\ Busy(w, o)' => v = w
      BY <2>1, Zenon DEF Converging, Busy
    <3> QED
      BY <3>1, <3>4, <3>5, Zenon DEF Converging, ToCome
  <2>3. CASE ~\E j \in jobs : j.obj = o
    <3>1. \A u \in Targets : \A n : n.obj = o => (n \in rec'[u].list <=> n \in rec[u].list)
      BY <1>2, <1>3, <1>6, <2>3, Zenon
    <3>2. ASSUME NEW u \in Targets, kd[u] = KindOf[o], RowIsDue(u, o) PROVE RowIsDue(u, o)'
      <4>1. rec[u].pc = "clear" <=> rec'[u].pc = "clear"
        BY <1>1, <1>3, <1>6, Zenon
      <4>2. Refilled(u, o) => Refilled(u, o)'
        BY <1>2, <1>5, <1>6, <2>1, <2>3, <3>2, Zenon DEF Refilled
      <4> QED
        BY <2>1, <3>2, <4>1, <4>2, RowsStayDue, Zenon
    <3>3. \A w \in Workers : Busy(w, o)' <=> Busy(w, o)
      BY <2>1, Zenon DEF Busy
    <3> QED
      BY <2>1, <3>1, <3>2, <3>3, ConvergingFrame, Zenon
  <2> QED
    BY <2>2, <2>3, Zenon
<1> QED
  BY <1>1, <1>7, <1>8, <1>9, Zenon DEF CInv

LEMMA StartInformerConv ==
    ASSUME NEW kd, CInv(kd), IInv', KeepsKind(kd), NEW t \in Targets, StartInformer(t)
    PROVE  CInv(kd)'
<1> DEFINE k == targets[t].kind
           synced == [o \in Objects |-> IF KindOf[o] = k THEN api[o] ELSE cache[o]]
<1>1. /\ UNCHANGED <<api, queue, targets, byGVR, calls, worker, rows, flags, raced>>
      /\ rec[t].pc = "informer" /\ k \notin started
      /\ started' = started \cup {k} /\ cache' = synced
      /\ rec' = [rec EXCEPT ![t] = IdleRec]
  BY Zenon DEF StartInformer
<1>2. PICK s \in Enumerations(CachedJobs(synced, k)) : pending' = [pending EXCEPT ![k] = s]
  BY Zenon DEF StartInformer
<1>3. /\ TypeOK /\ k \in Kinds /\ rec[t].list = {} /\ targets[t] # NoSpec /\ k = kd[t]
  BY <1>1, Zenon DEF CInv, IInv, CallsAreOrderly, TypeOK, TargetSpec, KeepsKind
<1>4. synced \in [Objects -> Versioned]
  BY <1>3, Zenon DEF TypeOK
<1>5. /\ \A o \in Objects : KindOf[o] = k => cache'[o] = api[o] /\ cache[o] = Absent
      /\ \A o \in Objects : KindOf[o] # k => cache'[o] = cache[o]
  BY <1>1, Zenon DEF CInv, IInv, CacheFollows
<1>6. /\ cache' \in [Objects -> Versioned] /\ s \in Enumerations(CachedJobs(cache', k))
  BY <1>1, <1>4, Zenon
<1> HIDE DEF synced
<1>7. /\ \A i \in DOMAIN s : /\ KindOf[s[i].obj] = k /\ Live(cache'[s[i].obj])
                             /\ s[i].obj \in Objects
      /\ \A o \in Objects : KindOf[o] = k /\ Live(cache'[o]) => About(s, o)
      /\ \A o : LastIs(s, o, JobOf(o, cache'[o]))
  BY <1>6, ListingFacts
<1>8. /\ pending'[k] = s /\ \A l \in Kinds \ {k} : pending'[l] = pending[l]
      /\ rec'[t] = IdleRec /\ IdleRec.list = {} /\ IdleRec.pc = "idle"
      /\ \A u \in Targets \ {t} : rec'[u] = rec[u]
  BY <1>1, <1>2, <1>3, Zenon DEF TypeOK, IdleRec
<1>9. InformersRun' /\ KindsMeet(kd)'
  BY <1>1, <1>8, Zenon DEF CInv, InformersRun, KindsMeet, Beyond
<1>10. KnownJobs'
  <2>1. \A o \in Objects : cache[o].tag # "absent" => cache'[o] = cache[o]
    BY <1>5 DEF Absent
  <2>2. \A i \in DOMAIN s : KindOf[s[i].obj] = k /\ cache'[s[i].obj].tag # "absent"
    BY <1>7, Zenon DEF Live, Tags
  <2>3. ASSUME NEW l \in Kinds, NEW i \in DOMAIN pending'[l]
        PROVE  KindOf[pending'[l][i].obj] = l /\ cache'[pending'[l][i].obj].tag # "absent"
    <3>1. CASE l = k
      BY <1>8, <2>2, <3>1, Zenon
    <3>2. CASE l # k
      <4>1. pending'[l] = pending[l] /\ pending[l][i].obj \in Objects
        BY <1>3, <1>8, <2>3, <3>2, JobObjects, Zenon
      <4>2. KindOf[pending[l][i].obj] = l /\ cache[pending[l][i].obj].tag # "absent"
        BY <2>3, <4>1, Zenon DEF CInv, KnownJobs
      <4> QED
        BY <2>1, <4>1, <4>2, Zenon
    <3> QED
      BY <3>1, <3>2, Zenon
  <2>4. \A u \in Targets : \A n \in rec'[u].list : cache'[n.obj].tag # "absent"
    BY <1>3, <1>8, <2>1, JobObjects, Zenon DEF CInv, KnownJobs
  <2>5. /\ \A i \in DOMAIN queue' : cache'[queue'[i].obj].tag # "absent"
        /\ \A w \in Workers : worker'[w].pc # "idle" => cache'[worker'[w].job.obj].tag # "absent"
    BY <1>1, <1>3, <2>1, JobObjects, Zenon DEF CInv, KnownJobs
  <2> QED
    BY <2>3, <2>4, <2>5, Zenon DEF KnownJobs
<1>11. ASSUME NEW o \in Objects \ raced PROVE Converging(kd, o)'
  <2>1. /\ Converging(kd, o) /\ KindOf[o] \in Kinds
        /\ UNCHANGED <<queue, worker, targets, rows>>
    BY <1>1, CollectionAssumption, Zenon DEF CInv
  <2>2. CASE KindOf[o] # k
    <3>1. cache'[o] = cache[o] /\ pending'[KindOf[o]] = pending[KindOf[o]]
      BY <1>5, <1>8, <2>1, <2>2, Zenon
    <3>2. \A u \in Targets : \A n : n.obj = o => (n \in rec'[u].list <=> n \in rec[u].list)
      BY <1>3, <1>8, Zenon
    <3>3. \A w \in Workers : /\ Busy(w, o)' <=> Busy(w, o)
                             /\ (Beyond(w) /\ Busy(w, o))' <=> Beyond(w) /\ Busy(w, o)
      BY <2>1, Zenon DEF Busy, Beyond
    <3>4. ASSUME NEW u \in Targets, kd[u] = KindOf[o], RowIsDue(u, o) PROVE RowIsDue(u, o)'
      <4>1. rec'[u] = rec[u]
        BY <1>3, <1>8, <2>2, <3>4, Zenon
      <4>2. Refilled(u, o)' <=> Refilled(u, o)
        BY <3>1, <4>1, Zenon DEF Refilled
      <4>3. Due(u, o)' = Due(u, o)
        BY <2>1, <3>1, Zenon DEF Due, Collects
      <4> QED
        BY <2>1, <3>3, <3>4, <4>1, <4>2, <4>3, RowFrame, Zenon
    <3> QED
      BY <2>1, <3>1, <3>2, <3>3, <3>4, ConvergingFrame, Zenon
  <2>3. CASE KindOf[o] = k
    <3>1. cache[o] = Absent /\ cache[o].tag = "absent" /\ cache'[o] = api[o]
      BY <1>5, <2>3 DEF Absent
    <3>2. /\ ~About(pending[k], o) /\ ~About(queue, o) /\ ~InBackfill(o)
          /\ \A w \in Workers : ~Busy(w, o)
      BY <1>3, <3>1 DEF CInv, KnownJobs, About, InBackfill, Busy
    <3>3. /\ \A w \in Workers : ~Busy(w, o)' /\ ~(Beyond(w) /\ worker[w].job.obj = o)
          /\ ~InBackfill(o)' /\ ~About(queue', o)
      BY <1>8, <2>1, <3>2, Zenon DEF Busy, Beyond, InBackfill
    <3>4. LastIs(pending'[k], o, Now(o)')
      BY <1>7, <1>8, Zenon DEF Now
    <3>5. CASE Live(cache'[o])
      <4>1. About(pending'[k], o)
        BY <1>7, <1>8, <2>3, <3>5, Zenon
      <4> QED
        BY <2>3, <3>3, <3>4, <4>1, Zenon DEF Converging, LastWord, ToCome
    <3>6. CASE ~Live(cache'[o])
      <4>1. LastWord(o)'
        BY <2>3, <3>3, <3>4, Zenon DEF LastWord, LastIs, About, InBackfill
      <4>2. ASSUME NEW u \in Targets, kd[u] = KindOf[o] PROVE RowIsDue(u, o)'
        <5>1. RowIsDue(u, o)
          BY <2>1, <2>3, <3>2, <4>2, Zenon DEF Converging, ToCome, Busy
        <5>2. ~Live(cache[o])
          BY <3>1, Zenon DEF Live, Tags
        <5>3. Due(u, o) = 0 /\ Due(u, o)' = 0
          BY <3>6, <5>2, Zenon DEF Due, Live, Tags
        <5>4. rec[u].pc = "clear" \/ rows[u][o] = 0
          BY <3>3, <5>1, <5>2, <5>3, Zenon DEF RowIsDue, Refilled, Held
        <5>5. HeldAreCurrent(u, o)'
          BY <2>1, <3>3, Zenon DEF HeldAreCurrent, Beyond
        <5>6. rec[u].pc = "clear" => rec'[u].pc = "clear"
          BY <1>1, <1>8, Zenon
        <5> QED
          BY <2>1, <5>3, <5>4, <5>5, <5>6, Zenon DEF RowIsDue
      <4> QED
        BY <3>3, <4>1, <4>2, Zenon DEF Converging
    <3> QED
      BY <3>5, <3>6, Zenon
  <2> QED
    BY <2>2, <2>3, Zenon
<1> QED
  BY <1>1, <1>9, <1>10, <1>11, Zenon DEF CInv

\* A step of a worker leaves the objects it is not busy with converging.
LEMMA OthersConverge ==
    ASSUME NEW kd, CInv(kd), NEW w \in Workers, NEW o \in Objects \ raced,
           UNCHANGED <<informer, registry>>, \A v \in Workers \ {w} : worker'[v] = worker[v],
           ~Busy(w, o), ~Busy(w, o)', \A t \in Targets : rows'[t][o] = rows[t][o],
           About(queue', o) <=> About(queue, o),
           \A n : LastIs(queue, o, n) => LastIs(queue', o, n)
    PROVE  Converging(kd, o)'
<1>1. Converging(kd, o) /\ UNCHANGED <<cache, pending, targets, rec>>
  BY Zenon DEF CInv, informer, registry
<1>2. \A v \in Workers : /\ Busy(v, o)' <=> Busy(v, o)
                         /\ (Beyond(v) /\ Busy(v, o))' <=> Beyond(v) /\ Busy(v, o)
                         /\ Busy(v, o) => worker'[v] = worker[v]
  BY Zenon DEF Busy, Beyond
<1>3. \A v \in Workers : worker[v].pc = "taken" /\ worker[v].job.obj = o => Busy(v, o)
  BY Zenon DEF Busy
<1>4. ASSUME NEW t \in Targets, RowIsDue(t, o) PROVE RowIsDue(t, o)'
  <2>1. Refilled(t, o)' <=> Refilled(t, o)
    BY <1>1, Zenon DEF Refilled
  <2>2. Due(t, o)' = Due(t, o)
    BY <1>1, Zenon DEF Due, Collects
  <2> QED
    BY <1>1, <1>2, <1>4, <2>1, <2>2, RowFrame, Zenon
<1> QED
  BY <1>1, <1>2, <1>3, <1>4, ConvergingFrame, Zenon

LEMMA TakeConv ==
    ASSUME NEW kd, CInv(kd), IInv', NEW w \in Workers, Take(w)
    PROVE  CInv(kd)'
<1> DEFINE j == Head(queue)
<1>1. /\ worker[w].pc = "idle" /\ queue # <<>> /\ queue' = Tail(queue)
      /\ worker' = [worker EXCEPT ![w] = [pc |-> "taken", job |-> j, states |-> <<>>]]
      /\ raced' = raced \cup {o \in {j.obj} :
                     \E v \in Workers : worker[v].pc # "idle" /\ worker[v].job.obj = o}
      /\ UNCHANGED <<informer, registry, rows, flags>>
  BY Zenon DEF Take
<1>2. /\ TypeOK /\ queue \in Seq(Job) /\ worker'[w].pc = "taken" /\ worker'[w].job = j
      /\ \A v \in Workers \ {w} : worker'[v] = worker[v]
  BY <1>1, Zenon DEF CInv, IInv, TypeOK
<1>3. j \in Job /\ queue[1] = j /\ 1 \in DOMAIN queue
  BY <1>1, <1>2
<1>4. j.obj \in Objects /\ cache[j.obj].tag # "absent"
  BY <1>2, <1>3, JobObjects, Zenon DEF CInv, KnownJobs
<1>5. ASSUME NEW o
      PROVE  /\ About(queue, o) <=> About(queue', o) \/ j.obj = o
             /\ \A n : LastIs(queue, o, n) => LastIs(queue', o, n)
             /\ \A n : LastIs(queue, o, n) /\ ~About(queue', o) /\ j.obj = o => j = n
  BY <1>1, <1>2, TailFacts, Zenon
<1> HIDE DEF j
<1>6. InformersRun' /\ KindsMeet(kd)'
  BY <1>1, <1>2 DEF CInv, InformersRun, KindsMeet, Beyond, informer, registry
<1>7. KnownJobs'
  <2>1. \A i \in DOMAIN Tail(queue) : i + 1 \in DOMAIN queue /\ Tail(queue)[i] = queue[i + 1]
    BY <1>1, <1>2, TailMembers, Zenon
  <2> QED
    BY <1>1, <1>2, <1>4, <2>1 DEF CInv, KnownJobs, informer, registry
<1>8. ASSUME NEW o \in Objects, o \notin raced' PROVE Converging(kd, o)'
  <2>1. Converging(kd, o) /\ o \in Objects \ raced
    BY <1>1, <1>8, Zenon DEF CInv
  <2>2. CASE o # j.obj
    BY <1>1, <1>2, <1>5, <2>1, <2>2, OthersConverge, Zenon DEF Busy
  <2>3. CASE o = j.obj
    <3>1. \A v \in Workers : ~Busy(v, o)
      BY <1>1, <1>8, <2>3, Zenon DEF Busy
    <3>2. \A v \in Workers : Busy(v, o)' => v = w /\ worker'[v].job = j
      BY <1>2, <3>1, Zenon DEF Busy
    <3>3. UNCHANGED <<cache, pending, rec>>
      BY <1>1, Zenon DEF informer, registry
    <3>4. Now(o)' = Now(o) /\ InBackfill(o)' = InBackfill(o)
      BY <3>3, Zenon DEF Now, InBackfill
    <3>5. LastWord(o)'
      <4>1. CASE About(pending[KindOf[o]], o)
        BY <2>1, <3>3, <3>4, <4>1, Zenon DEF Converging, LastWord
      <4>2. CASE ~About(pending[KindOf[o]], o) /\ InBackfill(o)
        BY <2>1, <3>3, <3>4, <4>2, Zenon DEF Converging, LastWord
      <4>3. CASE ~About(pending[KindOf[o]], o) /\ ~InBackfill(o)
        <5>1. LastIs(queue, o, Now(o))
          BY <2>1, <4>3, Zenon DEF Converging, LastWord
        <5>2. LastIs(queue', o, Now(o)) /\ (About(queue', o) \/ j = Now(o))
          BY <1>5, <2>3, <5>1, Zenon
        <5>3. \A u \in Targets : \A n \in rec[u].list : n.obj = o => n = Now(o)
          BY <2>1, <4>3, Zenon DEF Converging, LastWord
        <5>4. LastIs(pending[KindOf[o]], o, Now(o))
          BY <2>1, Zenon DEF Converging, LastWord
        <5> QED
          BY <3>2, <3>3, <3>4, <5>2, <5>3, <5>4, Zenon DEF LastWord
      <4> QED
        BY <4>1, <4>2, <4>3, Zenon
    <3>6. ToCome(o)'
      BY <1>2, <2>3, Zenon DEF ToCome
    <3> QED
      BY <3>2, <3>5, <3>6, Zenon DEF Converging
  <2> QED
    BY <2>2, <2>3, Zenon
<1> QED
  BY <1>6, <1>7, <1>8, Zenon DEF CInv

\* A worker goes on with its job, or is done with it.
LEMMA GoesOn ==
    ASSUME NEW kd, CInv(kd), NEW w \in Workers, NEW o \in Objects, Converging(kd, o),
           UNCHANGED <<informer, registry, queue>>, \A v \in Workers \ {w} : worker'[v] = worker[v],
           worker'[w].pc # "idle" => worker'[w].job = worker[w].job,
           Busy(w, o), worker'[w].pc # "taken",
           ~ToCome(o)' => \A t \in Targets : kd[t] = KindOf[o] => RowIsDue(t, o)'
    PROVE  Converging(kd, o)'
<1>1. UNCHANGED <<cache, pending, rec, queue>>
  BY Zenon DEF informer, registry
<1>2. \A v \in Workers : Busy(v, o)' => Busy(v, o) /\ worker'[v].job = worker[v].job
  BY Zenon DEF Busy
<1>3. Now(o)' = Now(o) /\ InBackfill(o)' = InBackfill(o)
  BY <1>1, Zenon DEF Now, InBackfill
<1>4. LastWord(o)
  BY Zenon DEF Converging
<1>5. LastWord(o)'
  BY <1>1, <1>2, <1>3, <1>4, Zenon DEF LastWord
<1> QED
  BY <1>2, <1>5, Zenon DEF Converging

LEMMA SnapshotConv ==
    ASSUME NEW kd, CInv(kd), IInv', KeepsKind(kd), NEW w \in Workers, Snapshot(w)
    PROVE  CInv(kd)'
<1>1. TypeOK /\ IndexIsExact /\ NoOrphanRows /\ worker[w] \in WorkerStates
  BY Zenon DEF CInv, IInv, TypeOK, WorkerStates
<1>2. PICK o \in Objects : o = worker[w].job.obj
  BY <1>1, Zenon DEF WorkerStates, Job
<1> DEFINE idx == byGVR[KindOf[o]]
           states == [i \in DOMAIN idx |-> [target |-> idx[i], spec |-> targets[idx[i]]]]
           new == IF states = <<>> THEN IdleWorker
                  ELSE [worker[w] EXCEPT !.pc = "match", !.states = states]
<1>3. /\ worker[w].pc = "taken" /\ worker' = [worker EXCEPT ![w] = new]
      /\ UNCHANGED <<informer, queue, registry, rows, flags, raced>>
  BY <1>2, Zenon DEF Snapshot
<1>4. KindOf[o] \in Kinds
  BY CollectionAssumption, Zenon
<1>5. idx \in Seq(Targets)
  BY <1>1, <1>4, Zenon DEF TypeOK
<1>6. \A t \in Targets : targets[t] # NoSpec /\ targets[t].kind = KindOf[o]
                         => \E i \in DOMAIN idx : idx[i] = t
  BY <1>1, <1>4 DEF IndexIsExact, Indexed
<1>7. ASSUME NEW i \in DOMAIN idx
      PROVE  idx[i] \in Targets /\ targets[idx[i]] # NoSpec /\ targets[idx[i]].kind = KindOf[o]
  <2>1. idx[i] \in Targets
    BY <1>5
  <2> QED
    <3>1. Indexed(KindOf[o], idx[i])
      BY Zenon DEF Indexed
    <3> QED
      BY <1>1, <1>4, <2>1, <3>1 DEF IndexIsExact
<1>8. /\ DOMAIN states = DOMAIN idx
      /\ \A i \in DOMAIN idx : states[i].target = idx[i] /\ states[i].spec = targets[idx[i]]
  BY Zenon
<1> HIDE DEF states
<1>9. states = <<>> => \A i \in DOMAIN idx : FALSE
  BY <1>8
<1>10. \/ new.pc = "idle" /\ states = <<>>
       \/ new.pc = "match" /\ new.job = worker[w].job /\ new.states = states
  <2>1. CASE states = <<>>
    <3>1. new = IdleWorker
      BY <2>1, Zenon
    <3> HIDE DEF new
    <3> QED
      BY <2>1, <3>1 DEF IdleWorker
  <2>2. CASE states # <<>>
    <3>1. new = [worker[w] EXCEPT !.pc = "match", !.states = states]
      BY <2>2, Zenon
    <3> HIDE DEF new
    <3> QED
      BY <1>1, <3>1 DEF WorkerStates
  <2> QED
    BY <2>1, <2>2, Zenon
<1> HIDE DEF new
<1>11. worker'[w] = new /\ \A v \in Workers \ {w} : worker'[v] = worker[v]
  BY <1>3, <1>1, Zenon DEF TypeOK
<1> HIDE DEF idx
<1>12. InformersRun' /\ KnownJobs'
  <2>1. UNCHANGED <<cache, pending, queue, rec>> /\ InformersRun /\ KnownJobs
    BY <1>3, Zenon DEF CInv, informer, registry
  <2>2. InformersRun'
    BY <1>3, <2>1, Zenon DEF InformersRun, informer, registry
  <2>3. ASSUME NEW v \in Workers, worker'[v].pc # "idle"
        PROVE  worker[v].pc # "idle" /\ worker'[v].job = worker[v].job
    <3>1. CASE v = w
      BY <1>3, <1>10, <1>11, <2>3, <3>1
    <3>2. CASE v # w
      BY <1>11, <2>3, <3>2, Zenon
    <3> QED
      BY <3>1, <3>2, Zenon
  <2> QED
    BY <2>1, <2>2, <2>3, StillKnown, Zenon
<1>13. KindsMeet(kd)'
  <2>1. ASSUME Beyond(w)', NEW i \in DOMAIN worker'[w].states
        PROVE  kd[worker'[w].states[i].target] = KindOf[worker'[w].job.obj]
    <3>1. worker'[w].states = states /\ worker'[w].job.obj = o
      BY <1>2, <1>10, <1>11, <2>1, Zenon DEF Beyond
    <3> QED
      BY <1>7, <1>8, <2>1, <3>1 DEF KeepsKind
  <2>2. \A v \in Workers \ {w} : Beyond(v)' <=> Beyond(v)
    BY <1>11, Zenon DEF Beyond
  <2> QED
    BY <1>3, <1>11, <2>1, <2>2 DEF CInv, KindsMeet
<1>14. ASSUME NEW x \in Objects \ raced, x # o PROVE Converging(kd, x)'
  <2>1. ~Busy(w, x) /\ ~Busy(w, x)'
    BY <1>2, <1>10, <1>11, <1>14, Zenon DEF Busy, IdleWorker
  <2> QED
    BY <1>3, <1>11, <2>1, OthersConverge, Zenon
<1>15. ASSUME o \notin raced PROVE Converging(kd, o)'
  <2>1. Converging(kd, o) /\ Busy(w, o)
    BY <1>3, <1>2, <1>15, Zenon DEF CInv, Busy
  <2>2. UNCHANGED <<cache, pending, rec, queue, targets, rows>>
    BY <1>3, Zenon DEF informer, registry
  <2>3. ASSUME ~ToCome(o)', NEW t \in Targets, kd[t] = KindOf[o] PROVE RowIsDue(t, o)'
    <3>1. /\ ~About(pending[KindOf[o]], o) /\ ~InBackfill(o) /\ ~About(queue, o)
      BY <1>4, <2>2, <2>3, Zenon DEF ToCome, InBackfill
    <3>2. \A v \in Workers : Busy(v, o) => v = w
      BY <1>4, <2>1, <3>1, LastJob, Zenon
    <3>3. ASSUME NEW v \in Workers, Beyond(v)', worker'[v].job.obj = o
          PROVE  v = w /\ worker'[v].states = states
      <4>1. v = w
        BY <1>11, <3>2, <3>3, Zenon DEF Busy, Beyond
      <4> QED
        BY <1>10, <1>11, <3>3, <4>1, Zenon DEF Beyond
    <3>4. HeldAreCurrent(t, o)'
      BY <1>8, <2>2, <3>3 DEF HeldAreCurrent
    <3>5. CASE targets[t] = NoSpec
      <4>1. rec[t].pc = "clear" \/ rows[t][o] = 0
        BY <1>1, <1>4, <3>5, Zenon DEF NoOrphanRows
      <4>2. Due(t, o)' = 0
        BY <2>2, <3>5, Zenon DEF Due, Collects
      <4> QED
        BY <2>2, <3>4, <4>1, <4>2, Zenon DEF RowIsDue
    <3>6. CASE targets[t] # NoSpec
      <4>1. PICK i \in DOMAIN idx : idx[i] = t
        BY <1>6, <2>3, <3>6, Zenon DEF KeepsKind
      <4>2. states[i].target = t /\ i \in DOMAIN states /\ states # <<>>
        BY <1>8, <1>9, <4>1, Zenon
      <4>3. Held(w, t, o)'
        BY <1>2, <1>10, <1>11, <4>2, Zenon DEF Held, Beyond
      <4> QED
        BY <2>2, <3>4, <3>6, <4>3, Zenon DEF RowIsDue
    <3> QED
      BY <3>5, <3>6, Zenon
  <2>4. worker'[w].pc # "taken" /\ (worker'[w].pc # "idle" => worker'[w].job = worker[w].job)
    BY <1>10, <1>11, Zenon
  <2> QED
    BY <1>3, <1>4, <1>11, <2>1, <2>3, <2>4, GoesOn, Zenon
<1> QED
  BY <1>3, <1>12, <1>13, <1>14, <1>15, Zenon DEF CInv

\* Match and Extract change nothing but how far the worker is.
LEMMA GotoConv ==
    ASSUME NEW kd, CInv(kd), IInv', NEW w \in Workers, Beyond(w), NEW pc \in {"access", "upsert"},
           Goto(w, pc), UNCHANGED <<informer, queue, registry, rows, raced>>
    PROVE  CInv(kd)'
<1>1. /\ worker' = [worker EXCEPT ![w] = [worker[w] EXCEPT !.pc = pc]]
      /\ [worker[w] EXCEPT !.pc = pc].pc = pc
      /\ [worker[w] EXCEPT !.pc = pc].job = worker[w].job
      /\ [worker[w] EXCEPT !.pc = pc].states = worker[w].states
  BY GotoFacts, Zenon DEF CInv
<1>2. /\ worker'[w].pc = pc /\ worker'[w].job = worker[w].job
      /\ worker'[w].states = worker[w].states
      /\ \A v \in Workers \ {w} : worker'[v] = worker[v]
  BY <1>1, Zenon DEF CInv, IInv, TypeOK
<1>3. \A v \in Workers : /\ Beyond(v)' <=> Beyond(v)
                         /\ worker'[v].job = worker[v].job /\ worker'[v].states = worker[v].states
                         /\ worker'[v].pc = "taken" <=> worker[v].pc = "taken"
                         /\ worker'[v].pc = "idle" <=> worker[v].pc = "idle"
  BY <1>2, Zenon DEF Beyond
<1>4. InformersRun' /\ KnownJobs'
  BY <1>3, Zenon DEF CInv, InformersRun, KnownJobs, informer, registry
<1>5. KindsMeet(kd)'
  BY <1>3, Zenon DEF CInv, KindsMeet
<1>6. ASSUME NEW o \in Objects \ raced PROVE Converging(kd, o)'
  <2>1. Converging(kd, o) /\ UNCHANGED <<cache, pending, queue, rec, targets, rows>>
    BY Zenon DEF CInv, informer, registry
  <2>2. \A v \in Workers : /\ Busy(v, o)' <=> Busy(v, o)
                           /\ (Beyond(v) /\ Busy(v, o))' <=> Beyond(v) /\ Busy(v, o)
    BY <1>3, Zenon DEF Busy
  <2>3. ASSUME NEW t \in Targets, RowIsDue(t, o) PROVE RowIsDue(t, o)'
    <3>1. Refilled(t, o)' <=> Refilled(t, o)
      BY <2>1, Zenon DEF Refilled
    <3>2. Due(t, o)' = Due(t, o)
      BY <2>1, Zenon DEF Due, Collects
    <3> QED
      BY <1>3, <2>1, <2>2, <2>3, <3>1, <3>2, RowFrame, Zenon
  <2> QED
    BY <1>3, <2>1, <2>2, <2>3, ConvergingFrame, Zenon
<1> QED
  BY <1>4, <1>5, <1>6, Zenon DEF CInv

\* Done with its first state, a worker keeps the others.
LEMMA AdvanceFacts ==
    ASSUME IInv, NEW w \in Workers, Beyond(w), Advance(w)
    PROVE  /\ \A v \in Workers \ {w} : worker'[v] = worker[v]
           /\ worker'[w].pc \in {"idle", "match"}
           /\ worker'[w].pc # "idle" => worker'[w].job = worker[w].job
           /\ Beyond(w)' => \A i \in DOMAIN worker'[w].states :
                 i + 1 \in DOMAIN worker[w].states /\ worker'[w].states[i] = worker[w].states[i + 1]
           /\ \A i \in DOMAIN worker[w].states \ {1} :
                 /\ Beyond(w)' /\ i - 1 \in DOMAIN worker'[w].states
                 /\ worker'[w].states[i - 1] = worker[w].states[i]
           /\ 1 \in DOMAIN worker[w].states /\ worker[w].states[1] = Cur(w)
<1> DEFINE old == worker[w].states
           new == NextState(worker[w])
<1>1. /\ new.pc \in {"idle", "match"}
      /\ new.pc = "match" => new.job = worker[w].job /\ new.states = Tail(old)
      /\ new.pc = "idle" => Len(old) = 1
  BY NextStateFacts, Zenon
<1>2. old \in Seq(State) /\ old # <<>>
  BY CurrentFacts, Zenon
<1>3. worker'[w] = new /\ \A v \in Workers \ {w} : worker'[v] = worker[v]
  BY Zenon DEF Advance, IInv, TypeOK
<1> HIDE DEF new
<1>4. /\ Len(old) \in Nat \ {0} /\ DOMAIN old = 1..Len(old)
      /\ Tail(old) \in Seq(State) /\ Len(Tail(old)) = Len(old) - 1
      /\ \A i \in 1..Len(Tail(old)) : Tail(old)[i] = old[i + 1]
  BY <1>2
<1>5. DOMAIN Tail(old) = 1..(Len(old) - 1)
  BY <1>4
<1>6. 1 \in DOMAIN old /\ old[1] = Cur(w)
  BY <1>2, <1>4 DEF Cur
<1>7. \A i \in DOMAIN Tail(old) : i + 1 \in DOMAIN old /\ Tail(old)[i] = old[i + 1]
  BY <1>4, <1>5
<1>8. ASSUME NEW i \in DOMAIN old \ {1}
      PROVE  Len(old) # 1 /\ i - 1 \in DOMAIN Tail(old) /\ Tail(old)[i - 1] = old[i]
  <2>1. i \in 2..Len(old) /\ Len(old) # 1 /\ i - 1 \in DOMAIN Tail(old) /\ (i - 1) + 1 = i
    BY <1>4, <1>5
  <2>2. Tail(old)[i - 1] = old[(i - 1) + 1]
    BY <1>7, <2>1, Zenon
  <2> QED
    BY <2>1, <2>2, Zenon
<1> HIDE DEF old
<1>9. Beyond(w)' => new.pc = "match"
  BY <1>1, <1>3, Zenon DEF Beyond
<1>10. Len(old) # 1 => new.pc = "match" /\ Beyond(w)'
  BY <1>1, <1>3, Zenon DEF Beyond
<1>11. Beyond(w)' => \A i \in DOMAIN worker'[w].states :
                        i + 1 \in DOMAIN old /\ worker'[w].states[i] = old[i + 1]
  BY <1>1, <1>3, <1>7, <1>9, Zenon
<1>12. ASSUME NEW i \in DOMAIN old \ {1}
       PROVE  /\ Beyond(w)' /\ i - 1 \in DOMAIN worker'[w].states
              /\ worker'[w].states[i - 1] = old[i]
  BY <1>1, <1>3, <1>8, <1>10, Zenon
<1> QED
  BY <1>1, <1>3, <1>6, <1>11, <1>12, Zenon DEF old

\* A worker is done with a state: it left its row alone or, unless the object has
\* raced, made it what the latest state of the object calls for.
LEMMA AdvanceConv ==
    ASSUME NEW kd, CInv(kd), IInv', NEW w \in Workers, Beyond(w), Advance(w),
           UNCHANGED <<informer, queue, registry>>, raced \subseteq raced',
           NEW t \in Targets, t = Cur(w).target, NEW o \in Objects, o = worker[w].job.obj,
           \A u \in Targets, x \in Objects : (u # t \/ x # o) => rows'[u][x] = rows[u][x],
           (o \notin raced' /\ worker[w].job = Now(o) /\ HeldAreCurrent(t, o) /\ kd[t] = KindOf[o])
               => (rec[t].pc = "clear" \/ rows'[t][o] = Due(t, o))
    PROVE  CInv(kd)'
<1>1. IInv
  BY Zenon DEF CInv
<1>2. /\ \A v \in Workers \ {w} : worker'[v] = worker[v]
      /\ worker'[w].pc \in {"idle", "match"}
      /\ worker'[w].pc # "idle" => worker'[w].job = worker[w].job
      /\ Beyond(w)' => \A i \in DOMAIN worker'[w].states :
            i + 1 \in DOMAIN worker[w].states /\ worker'[w].states[i] = worker[w].states[i + 1]
      /\ \A i \in DOMAIN worker[w].states \ {1} :
            /\ Beyond(w)' /\ i - 1 \in DOMAIN worker'[w].states
            /\ worker'[w].states[i - 1] = worker[w].states[i]
      /\ 1 \in DOMAIN worker[w].states /\ worker[w].states[1] = Cur(w)
  BY <1>1, AdvanceFacts, Zenon
<1>3. worker[w].pc \notin {"idle", "taken"} /\ Busy(w, o)
  BY Zenon DEF Beyond, Busy
<1>4. UNCHANGED <<cache, pending, rec, queue, targets>>
  BY Zenon DEF informer, registry
<1>5. InformersRun' /\ KnownJobs'
  <2>1. \A v \in Workers : worker'[v].pc # "idle" =>
           worker[v].pc # "idle" /\ worker'[v].job = worker[v].job
    BY <1>2, <1>3, Zenon
  <2>2. InformersRun /\ KnownJobs
    BY Zenon DEF CInv
  <2>3. InformersRun'
    BY <2>2, Zenon DEF InformersRun, informer, registry
  <2> QED
    BY <1>4, <2>1, <2>2, <2>3, StillKnown, Zenon
<1>6. KindsMeet(kd)'
  <2>1. \A i \in DOMAIN worker[w].states : kd[worker[w].states[i].target] = KindOf[o]
    BY Zenon DEF CInv, KindsMeet
  <2>2. kd[t] = KindOf[o]
    <3>1. 1 \in DOMAIN worker[w].states /\ worker[w].states[1].target = t
      BY <1>2, Zenon
    <3> QED
      BY <2>1, <3>1, Zenon
  <2>3. Beyond(w)' => worker'[w].job = worker[w].job
    BY <1>2, Zenon DEF Beyond
  <2>4. ASSUME Beyond(w)', NEW i \in DOMAIN worker'[w].states
        PROVE  kd[worker'[w].states[i].target] = KindOf[worker'[w].job.obj]
    <3>1. i + 1 \in DOMAIN worker[w].states /\ worker'[w].states[i] = worker[w].states[i + 1]
      BY <1>2, <2>4, Zenon
    <3> QED
      BY <2>1, <2>3, <2>4, <3>1, Zenon
  <2>5. \A v \in Workers \ {w} : Beyond(v)' <=> Beyond(v)
    BY <1>2, Zenon DEF Beyond
  <2>6. \A u \in Targets, x \in Objects : kd[u] # KindOf[x] => rows'[u][x] = 0
    <3> SUFFICES ASSUME NEW u \in Targets, NEW x \in Objects, kd[u] # KindOf[x]
                 PROVE  rows'[u][x] = 0
      BY Zenon
    <3>1. rows[u][x] = 0
      BY Zenon DEF CInv, KindsMeet
    <3>2. u # t \/ x # o
      BY <2>2, Zenon
    <3>3. rows'[u][x] = rows[u][x]
      BY <3>2, Zenon
    <3> QED
      BY <3>1, <3>3, Zenon
  <2>7. ASSUME NEW v \in Workers, Beyond(v)', NEW i \in DOMAIN worker'[v].states
        PROVE  kd[worker'[v].states[i].target] = KindOf[worker'[v].job.obj]
    <3>1. CASE v = w
      BY <2>4, <2>7, <3>1, Zenon
    <3>2. CASE v # w
      <4>1. worker'[v] = worker[v] /\ Beyond(v)
        BY <1>2, <2>5, <2>7, <3>2, Zenon
      <4>2. kd[worker[v].states[i].target] = KindOf[worker[v].job.obj]
        BY <2>7, <4>1 DEF CInv, KindsMeet
      <4> QED
        BY <4>1, <4>2, Zenon
    <3> QED
      BY <3>1, <3>2, Zenon
  <2> QED
    BY <2>6, <2>7, Zenon DEF KindsMeet
<1>7. ASSUME NEW x \in Objects, x \notin raced', x # o PROVE Converging(kd, x)'
  <2>1. ~Busy(w, x) /\ ~Busy(w, x)' /\ x \in Objects \ raced
    BY <1>2, <1>7, Zenon DEF Busy
  <2> QED
    BY <1>2, <1>7, <2>1, OthersConverge, Zenon
<1>8. ASSUME o \notin raced' PROVE Converging(kd, o)'
  <2>1. Converging(kd, o)
    BY <1>8, Zenon DEF CInv
  <2>2. ASSUME ~ToCome(o)', NEW u \in Targets, kd[u] = KindOf[o] PROVE RowIsDue(u, o)'
    <3>1. ~About(pending[KindOf[o]], o) /\ ~InBackfill(o) /\ ~About(queue, o)
      BY <1>4, <2>2, Zenon DEF ToCome, InBackfill
    <3>2. worker[w].job = Now(o) /\ \A v \in Workers : Busy(v, o) => v = w
      BY <1>3, <2>1, <3>1, LastJob, Zenon
    <3>3. RowIsDue(u, o)
      <4>1. ~ToCome(o)
        BY <1>3, <3>1, <3>2, Zenon DEF ToCome, Busy
      <4> QED
        BY <2>1, <2>2, <4>1, Zenon DEF Converging
    <3>4. Due(u, o)' = Due(u, o) /\ (Refilled(u, o)' <=> Refilled(u, o))
      BY <1>4, Zenon DEF Due, Collects, Refilled
    <3>5. ASSUME NEW v \in Workers, Beyond(v)', worker'[v].job.obj = o PROVE v = w
      BY <1>2, <3>2, <3>5, Zenon DEF Busy, Beyond
    <3>6. ASSUME HeldAreCurrent(u, o) PROVE HeldAreCurrent(u, o)'
      <4>1. ASSUME Beyond(w)', NEW i \in DOMAIN worker'[w].states, worker'[w].states[i].target = u
            PROVE  \/ worker'[w].states[i].spec = targets'[u] \/ targets'[u] = NoSpec
                   \/ Deleted(worker'[w].job)
        <5>1. /\ i + 1 \in DOMAIN worker[w].states /\ worker'[w].states[i] = worker[w].states[i + 1]
              /\ worker'[w].job = worker[w].job
          BY <1>2, <4>1, Zenon DEF Beyond
        <5> QED
          BY <1>4, <3>6, <4>1, <5>1, Zenon DEF HeldAreCurrent
      <4> QED
        BY <3>5, <4>1, Zenon DEF HeldAreCurrent
    <3>7. CASE rec[u].pc = "clear" \/ Refilled(u, o)
      BY <1>4, <3>4, <3>7, Zenon DEF RowIsDue
    <3>8. CASE HeldAreCurrent(u, o) /\ u = t
      BY <1>4, <1>8, <2>2, <3>2, <3>4, <3>6, <3>8, Zenon DEF RowIsDue
    <3>9. CASE /\ HeldAreCurrent(u, o) /\ u # t
               /\ \/ rows[u][o] = Due(u, o)
                  \/ targets[u] # NoSpec /\ \E v \in Workers : Held(v, u, o)
      <4>1. ASSUME NEW v \in Workers, Held(v, u, o) PROVE Held(w, u, o)'
        <5>1. v = w
          BY <3>2, <4>1, Zenon DEF Held, Busy, Beyond
        <5>2. PICK i \in DOMAIN worker[w].states : worker[w].states[i].target = u
          BY <4>1, <5>1, Zenon DEF Held
        <5>3. i # 1
          BY <1>2, <3>9, <5>2, Zenon
        <5>4. /\ Beyond(w)' /\ i - 1 \in DOMAIN worker'[w].states
              /\ worker'[w].states[i - 1].target = u
          BY <1>2, <5>2, <5>3, Zenon
        <5>5. worker'[w].job.obj = o
          BY <1>2, <5>4, Zenon DEF Beyond
        <5> QED
          BY <5>4, <5>5, Zenon DEF Held
      <4>2. rows'[u][o] = rows[u][o]
        BY <3>9, Zenon
      <4> QED
        BY <1>4, <3>4, <3>6, <3>9, <4>1, <4>2, Zenon DEF RowIsDue
    <3> QED
      BY <3>3, <3>7, <3>8, <3>9, Zenon DEF RowIsDue
  <2>3. worker'[w].pc # "taken"
    BY <1>2, Zenon
  <2> QED
    BY <1>2, <1>3, <2>1, <2>2, <2>3, GoesOn, Zenon
<1> QED
  BY <1>5, <1>6, <1>7, <1>8, Zenon DEF CInv

\* The state before a worker is the registration, unless that is gone or the object is.
LEMMA CurrentState ==
    ASSUME IInv, NEW w \in Workers, Beyond(w), NEW t, t = Cur(w).target,
           NEW o, o = worker[w].job.obj, HeldAreCurrent(t, o)
    PROVE  Cur(w).spec = targets[t] \/ targets[t] = NoSpec \/ Deleted(worker[w].job)
<1>1. 1 \in DOMAIN worker[w].states /\ worker[w].states[1] = Cur(w)
  BY CurrentFacts DEF Cur
<1> QED
  BY <1>1, Zenon DEF HeldAreCurrent

LEMMA DropConv ==
    ASSUME NEW kd, CInv(kd), IInv', NEW w \in Workers, Drop(w)
    PROVE  CInv(kd)'
<1>1. IInv /\ TypeOK /\ Beyond(w)
  BY Zenon DEF CInv, IInv, Drop, At, Beyond
<1>2. PICK t \in Targets : t = Cur(w).target
  BY <1>1, CurrentFacts, Zenon
<1>3. PICK o \in Objects : o = worker[w].job.obj
  BY <1>1, CurrentFacts, Zenon
<1>4. /\ Deleted(worker[w].job) \/ ~matchesTarget(Cur(w).spec, worker[w].job)
      /\ RemoveItem(t, o) /\ Advance(w)
      /\ UNCHANGED <<informer, queue, registry, forbidden, accessErr, raced>>
  BY <1>2, <1>3, Zenon DEF Drop
<1>5. \A u \in Targets, x \in Objects :
         rows'[u][x] = IF u = t /\ x = o THEN 0 ELSE rows[u][x]
  BY <1>1, <1>4, RemoveItemFacts, Zenon
<1>6. ASSUME worker[w].job = Now(o), HeldAreCurrent(t, o) PROVE rows'[t][o] = Due(t, o)
  <2>1. rows'[t][o] = 0
    BY <1>5, Zenon
  <2>2. Cur(w).spec = targets[t] \/ targets[t] = NoSpec \/ Deleted(worker[w].job)
    BY <1>1, <1>2, <1>3, <1>6, CurrentState, Zenon
  <2>3. worker[w].job.tag = cache[o].tag /\ worker[w].job.obj = o
    BY <1>6 DEF Now, JobOf
  <2>4. Due(t, o) = 0
    BY <1>4, <2>2, <2>3, Zenon DEF Deleted, matchesTarget, Due, Collects
  <2> QED
    BY <2>1, <2>4, Zenon
<1>7. /\ raced \subseteq raced' /\ UNCHANGED <<informer, queue, registry>>
      /\ \A u \in Targets, x \in Objects : (u # t \/ x # o) => rows'[u][x] = rows[u][x]
  BY <1>4, <1>5, Zenon
<1> QED
  BY <1>1, <1>2, <1>3, <1>4, <1>6, <1>7, AdvanceConv

LEMMA RefusedConv ==
    ASSUME NEW kd, CInv(kd), IInv', NEW w \in Workers,
           AccessFails(w) \/ AccessDenied(w) \/ ExtractFails(w)
    PROVE  CInv(kd)'
<1>1. IInv /\ TypeOK /\ Beyond(w) /\ Advance(w) /\ UNCHANGED <<informer, queue, registry>>
  BY Zenon DEF CInv, IInv, AccessFails, AccessDenied, ExtractFails, At, Beyond
<1>2. PICK t \in Targets : t = Cur(w).target
  BY <1>1, CurrentFacts, Zenon
<1>3. PICK o \in Objects : o = worker[w].job.obj
  BY <1>1, CurrentFacts, Zenon
<1>4. \A u \in Targets, x \in Objects : (u # t \/ x # o) => rows'[u][x] = rows[u][x]
  <2>1. CASE AccessFails(w)
    BY <2>1, Zenon DEF AccessFails
  <2>2. CASE AccessDenied(w) \/ ExtractFails(w)
    <3>1. RemoveItem(t, o)
      BY <1>2, <1>3, <2>2, Zenon DEF AccessDenied, ExtractFails
    <3> QED
      BY <1>1, <3>1, RemoveItemFacts
  <2> QED
    BY <2>1, <2>2, Zenon
<1>5. raced \subseteq raced'
  BY Zenon DEF AccessFails, AccessDenied, ExtractFails
<1>6. ASSUME o \notin raced', worker[w].job = Now(o) PROVE rows'[t][o] = Due(t, o)
  <2>1. ExtractFails(w)
    BY <1>3, <1>6, Zenon DEF AccessFails, AccessDenied
  <2>2. RemoveItem(t, o) /\ worker[w].job.tag = "bad"
    BY <1>2, <1>3, <2>1, Zenon DEF ExtractFails
  <2>3. rows'[t][o] = 0
    BY <1>1, <2>2, RemoveItemFacts, Zenon
  <2>4. cache[o].tag = "bad"
    BY <1>6, <2>2 DEF Now, JobOf
  <2>5. Due(t, o) = 0
    BY <2>4, Zenon DEF Due
  <2> QED
    BY <2>3, <2>5, Zenon
<1> QED
  BY <1>1, <1>2, <1>3, <1>4, <1>5, <1>6, AdvanceConv

LEMMA UpsertConv ==
    ASSUME NEW kd, CInv(kd), IInv', KeepsKind(kd), NEW w \in Workers, upsertIfRegistered(w)
    PROVE  CInv(kd)'
<1>1. IInv /\ TypeOK /\ Beyond(w) /\ worker[w].pc = "upsert"
  BY Zenon DEF CInv, IInv, upsertIfRegistered, At, Beyond
<1>2. PICK t \in Targets : t = Cur(w).target
  BY <1>1, CurrentFacts, Zenon
<1>3. PICK o \in Objects : o = worker[w].job.obj
  BY <1>1, CurrentFacts, Zenon
<1>4. /\ Advance(w) /\ UNCHANGED <<informer, queue, registry, flags, raced>>
      /\ rows' = IF targets[t] = NoSpec THEN rows ELSE [rows EXCEPT ![t][o] = worker[w].job.ver]
  BY <1>2, <1>3, Zenon DEF upsertIfRegistered
<1>5. /\ \A u \in Targets, x \in Objects : (u # t \/ x # o) => rows'[u][x] = rows[u][x]
      /\ rows'[t][o] = IF targets[t] = NoSpec THEN rows[t][o] ELSE worker[w].job.ver
  BY <1>1, <1>4, Zenon DEF TypeOK
<1>6. ASSUME worker[w].job = Now(o), HeldAreCurrent(t, o), kd[t] = KindOf[o]
      PROVE  rec[t].pc = "clear" \/ rows'[t][o] = Due(t, o)
  <2>1. CASE targets[t] = NoSpec
    BY <1>1, <1>5, <2>1, Zenon DEF IInv, NoOrphanRows, Due, Collects
  <2>2. CASE targets[t] # NoSpec
    <3>1. /\ ~Deleted(worker[w].job) /\ matchesTarget(Cur(w).spec, worker[w].job)
          /\ worker[w].job.tag = "match"
      BY <1>1, Zenon DEF IInv, WorkersAreOrderly
    <3>2. Cur(w).spec = targets[t]
      BY <1>1, <1>2, <1>3, <1>6, <2>2, <3>1, CurrentState, Zenon
    <3>3. Collects(t, o)
      BY <1>3, <1>6, <2>2, <3>1, <3>2, Zenon DEF Collects, matchesTarget, KeepsKind
    <3>4. cache[o].tag = "match" /\ worker[w].job.ver = cache[o].ver
      BY <1>6, <3>1 DEF Now, JobOf
    <3> QED
      BY <1>5, <2>2, <3>3, <3>4, Zenon DEF Due
  <2> QED
    BY <2>1, <2>2, Zenon
<1>7. /\ Advance(w) /\ raced \subseteq raced' /\ UNCHANGED <<informer, queue, registry>>
      /\ \A u \in Targets, x \in Objects : (u # t \/ x # o) => rows'[u][x] = rows[u][x]
  BY <1>4, <1>5, Zenon
<1> QED
  BY <1>1, <1>2, <1>3, <1>6, <1>7, AdvanceConv

LEMMA NextCInv ==
    ASSUME NEW kd, CInv(kd), KeepsKind(kd), KeepsKind(kd)', [Next]_vars
    PROVE  CInv(kd)'
<1>1. IInv'
  BY NextIInv, Zenon DEF CInv
<1>2. CASE UNCHANGED vars
  BY <1>1, <1>2, SameConv, Zenon DEF vars, informer, registry
<1>3. ASSUME NEW o \in Objects, (\E tag \in Tags : WriteObject(o, tag)) \/ DeleteObject(o)
      PROVE  CInv(kd)'
  BY <1>1, <1>3, SameConv, Zenon DEF WriteObject, DeleteObject, registry
<1>4. ASSUME NEW o \in Objects, Observe(o) PROVE CInv(kd)'
  BY <1>1, <1>4, ObserveConv, Zenon
<1>5. ASSUME NEW k \in Kinds, Resync(k) \/ Deliver(k) PROVE CInv(kd)'
  BY <1>1, <1>5, ResyncConv, DeliverConv, Zenon
<1>6. ASSUME NEW t \in Targets,
             \/ \E spec \in TargetSpec : RegisterTarget(t, spec)
             \/ UnregisterTarget(t) \/ RemoveTarget(t)
             \/ InformerCall(t) \/ resyncInformerStore(t)
      PROVE  CInv(kd)'
  BY <1>1, <1>6, RegisterConv, UnregisterConv, RemoveTargetConv, StartInformerConv,
     ListForBackfillConv, BackfillConv, Zenon DEF InformerCall
<1>7. ASSUME NEW w \in Workers, Match(w) \/ Extract(w) PROVE CInv(kd)'
  <2>1. Beyond(w)
    BY <1>7, Zenon DEF Match, Extract, At, Beyond
  <2>2. \E pc \in {"access", "upsert"} : Goto(w, pc)
    BY <1>7, Zenon DEF Match, Extract
  <2>3. UNCHANGED <<informer, queue, registry, rows, raced>>
    BY <1>7, Zenon DEF Match, Extract
  <2> QED
    BY <1>1, <2>1, <2>2, <2>3, GotoConv, Zenon
<1>8. ASSUME NEW w \in Workers, processDispatch(w) PROVE CInv(kd)'
  BY <1>1, <1>7, <1>8, TakeConv, SnapshotConv, DropConv, RefusedConv, UpsertConv, Zenon
     DEF processDispatch
<1> QED
  BY <1>2, <1>3, <1>4, <1>5, <1>6, <1>8, Zenon DEF Next

\* With nothing on its way, a row that is due is right.
LEMMA QuietIsConverged ==
    ASSUME NEW kd, CInv(kd), KeepsKind(kd)
    PROVE  Converged
<1> SUFFICES ASSUME Quiet, NEW t \in Targets, NEW o \in Objects, o \notin raced
             PROVE  rows[t][o] = Expected(t, o)
  BY Zenon DEF Converged
<1>1. CASE kd[t] # KindOf[o]
  BY <1>1, Zenon DEF CInv, KindsMeet, KeepsKind, Expected, Collects
<1>2. CASE kd[t] = KindOf[o]
  <2>1. KindOf[o] \in Kinds /\ Converging(kd, o)
    BY CollectionAssumption, Zenon DEF CInv
  <2>2. ~ToCome(o)
    BY <2>1 DEF ToCome, About, InBackfill, Quiet, CInv, IInv, CallsAreOrderly
  <2>3. RowIsDue(t, o) /\ rec[t].pc = "idle" /\ \A w \in Workers : ~Beyond(w)
    BY <1>2, <2>1, <2>2, Zenon DEF Converging, Quiet, Beyond
  <2>4. rows[t][o] = Due(t, o)
    BY <2>3, Zenon DEF RowIsDue, Refilled, Held
  <2>5. Collects(t, o) => cache[o] = api[o]
    BY <2>3, Zenon DEF Collects, CInv, InformersRun, Quiet
  <2> QED
    BY <2>4, <2>5, Zenon DEF Due, Expected
<1> QED
  BY <1>1, <1>2, Zenon

\* As long as every target keeps the kind it collects, and whatever else is
\* registered, changed, unregistered, resynced and processed meanwhile, the store
\* converges: with nothing on its way, every object that did not race has in every
\* target exactly the row its latest version calls for (RegisterTarget, Observe,
\* processDispatch).
THEOREM StoreConverges ==
    ASSUME NEW kd
    PROVE  Spec /\ []KeepsKind(kd) => []Converged
<1>1. Init => CInv(kd)
  BY InitCInv, Zenon
<1>2. CInv(kd) /\ KeepsKind(kd) /\ KeepsKind(kd)' /\ [Next]_vars => CInv(kd)'
  BY NextCInv, Zenon
<1>3. CInv(kd) /\ KeepsKind(kd) => Converged
  BY QuietIsConverged, Zenon
<1> QED
  BY <1>1, <1>2, <1>3, PTL DEF Spec

\* In particular with a single kind, as in the runs.
THEOREM OneKindConverges ==
    ASSUME \A a, b \in Kinds : a = b
    PROVE  Spec => []Converged
<1> DEFINE kd == [t \in Targets |-> CHOOSE k \in Kinds : TRUE]
<1>1. TypeOK => KeepsKind(kd)
  <2> SUFFICES ASSUME TypeOK, NEW t \in Targets, targets[t] # NoSpec
               PROVE  targets[t].kind = kd[t]
    BY Zenon DEF KeepsKind
  <2>1. targets[t].kind \in Kinds
    BY Zenon DEF TypeOK, TargetSpec
  <2> QED
    BY <2>1, Zenon
<1> HIDE DEF kd
<1>2. Init => CInv(kd)
  BY InitCInv, Zenon
<1>3. CInv(kd) /\ KeepsKind(kd) /\ KeepsKind(kd)' /\ [Next]_vars => CInv(kd)'
  BY NextCInv, Zenon
<1>4. CInv(kd) /\ KeepsKind(kd) => Converged
  BY QuietIsConverged, Zenon
<1> QED
  BY <1>1, <1>2, <1>3, <1>4, CollectionTypes, PTL DEF Spec
=============================================================================
