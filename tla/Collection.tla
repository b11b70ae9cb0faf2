----------------------------- MODULE Collection -----------------------------
(***************************************************************************)
(* The collection engine and its store (internal/collect/engine.go,        *)
(* store.go): targets are registered and unregistered by their reconciler, *)
(* one informer per kind mirrors the API server and feeds a bounded queue, *)
(* and the dispatch workers turn every queued object into a row, or into   *)
(* the absence of one, for each target registered for its kind.            *)
(*                                                                         *)
(* Every section that holds Engine.mu or a shard's mutex is atomic; two    *)
(* such sections are one action where nothing between them blocks.  The    *)
(* access check calls the API server and is a step of its own.  Informers  *)
(* watch all namespaces; replacing a namespace-scoped one is not modelled. *)
(***************************************************************************)
EXTENDS Integers, Sequences, FiniteSets

CONSTANTS
    Targets,         \* engine keys of targets (targetKey)
    NoSpec,          \* the registration of a target that is not registered
    Objects,         \* UIDs; a recreated object is another member
    Kinds,           \* the GVRs
    KindOf,          \* the kind of each object
    Workers,         \* dispatch workers
    QueueCap,        \* DispatchQueueSize
    AccessOutcomes,  \* what CanAccess may answer: "allowed", "denied", "error"
    MaxVersion,      \* bound: writes of one object
    MaxCalls         \* bound: RegisterTarget and UnregisterTarget calls

ASSUME CollectionAssumption ==
    /\ IsFiniteSet(Objects) /\ Objects # {} /\ Cardinality(Objects) \in Nat
    /\ KindOf \in [Objects -> Kinds]
    /\ NoSpec \notin [kind : Kinds, sel : SUBSET Objects]
    /\ QueueCap \in Nat \ {0} /\ MaxVersion \in Nat /\ MaxCalls \in Nat
    /\ AccessOutcomes \subseteq {"allowed", "denied", "error"}

VARIABLES
    api,         \* the objects in the API server
    started,     \* kinds whose informer runs
    cache,       \* the informers' indexers
    pending,     \* kind -> notifications its handler goroutine has not dispatched
    queue,       \* dispatchCh
    targets,     \* target -> its registration (Engine.targets)
    byGVR,       \* kind -> targets in index order (Engine.targetsByGVR)
    rec,         \* the reconciler of each target, inside its engine call
    worker,      \* the locals of each dispatch worker
    rows,        \* target -> object -> version of its row, 0 if none (Store)
    forbidden,   \* targets flagged as denied
    accessErr,   \* targets flagged as access check failed
    extractErr,  \* target -> objects recorded as failing extraction
    calls,       \* number of engine calls so far
    raced        \* history: objects of which two jobs overlapped, or access was refused

informer == <<api, started, cache, pending>>
registry == <<targets, byGVR, rec, calls>>
flags == <<forbidden, accessErr, extractErr>>
vars == <<informer, queue, registry, worker, rows, flags, raced>>

\* What a target makes of a live object: "match" is collected, "filtered" is
\* turned away by a selector, rule or watch label, "bad" fails extraction.
Tags == {"match", "filtered", "bad"}

Versioned == [ver : 0..MaxVersion, tag : Tags \cup {"absent", "gone"}]
Live(x) == x.tag \in Tags
Absent == [ver |-> 0, tag |-> "absent"]

\* dispatchJob: the object as it was notified or listed.
Job == [obj : Objects, ver : 0..MaxVersion, tag : Tags \cup {"gone"}]
JobOf(o, x) == [obj |-> o, ver |-> x.ver, tag |-> x.tag]
Deleted(j) == j.tag = "gone"

\* targetState: the kind of the profile and the objects in the effective
\* namespaces.  The fingerprint is the spec itself: equal iff unchanged.
TargetSpec == [kind : Kinds, sel : SUBSET Objects]
State == [target : Targets, spec : TargetSpec]
Reconciler == [pc : {"idle", "informer", "filling", "clear"},
               backfill : BOOLEAN, list : SUBSET Job]
IdleRec == [pc |-> "idle", backfill |-> FALSE, list |-> {}]
NoJob == [obj |-> CHOOSE o \in Objects : TRUE, ver |-> 0, tag |-> "gone"]
IdleWorker == [pc |-> "idle", job |-> NoJob, states |-> <<>>]

\* Every component has the shape of its Go type.
TypeOK ==
    /\ api \in [Objects -> Versioned]
    /\ started \in SUBSET Kinds
    /\ cache \in [Objects -> Versioned]
    /\ pending \in [Kinds -> Seq(Job)]
    /\ queue \in Seq(Job) /\ Len(queue) <= QueueCap
    /\ targets \in [Targets -> TargetSpec \cup {NoSpec}]
    /\ byGVR \in [Kinds -> Seq(Targets)]
    /\ rec \in [Targets -> Reconciler]
    /\ worker \in [Workers -> [pc : {"idle", "taken", "match", "access", "upsert"},
                               job : Job, states : Seq(State)]]
    /\ rows \in [Targets -> [Objects -> 0..MaxVersion]]
    /\ forbidden \in SUBSET Targets /\ accessErr \in SUBSET Targets
    /\ extractErr \in [Targets -> SUBSET Objects]
    /\ calls \in 0..MaxCalls
    /\ raced \in SUBSET Objects

Init ==
    /\ api = [o \in Objects |-> Absent]
    /\ started = {}
    /\ cache = [o \in Objects |-> Absent]
    /\ pending = [k \in Kinds |-> <<>>]
    /\ queue = <<>>
    /\ targets = [t \in Targets |-> NoSpec]
    /\ byGVR = [k \in Kinds |-> <<>>]
    /\ rec = [t \in Targets |-> IdleRec]
    /\ worker = [w \in Workers |-> IdleWorker]
    /\ rows = [t \in Targets |-> [o \in Objects |-> 0]]
    /\ forbidden = {} /\ accessErr = {}
    /\ extractErr = [t \in Targets |-> {}]
    /\ calls = 0
    /\ raced = {}

-----------------------------------------------------------------------------
(* The API server and the informers. *)

WriteObject(o, tag) ==
    /\ api[o].tag # "gone" /\ api[o].ver < MaxVersion
    /\ api' = [api EXCEPT ![o] = [ver |-> @.ver + 1, tag |-> tag]]
    /\ UNCHANGED <<started, cache, pending, queue, registry, worker, rows, flags, raced>>

DeleteObject(o) ==
    /\ Live(api[o])
    /\ api' = [api EXCEPT ![o].tag = "gone"]
    /\ UNCHANGED <<started, cache, pending, queue, registry, worker, rows, flags, raced>>

\* The indexer takes the newest state (a relist skips the ones in between) and
\* the handler is notified, of a deletion only if the object was in the indexer.
Observe(o) ==
    LET k == KindOf[o] IN
    /\ k \in started /\ cache[o] # api[o]
    /\ cache' = [cache EXCEPT ![o] = api[o]]
    /\ pending' = IF Live(api[o]) \/ Live(cache[o])
                  THEN [pending EXCEPT ![k] = Append(@, JobOf(o, api[o]))]
                  ELSE pending
    /\ UNCHANGED <<api, started, queue, registry, worker, rows, flags, raced>>

CachedJobs(c, k) == {JobOf(o, c[o]) : o \in {x \in Objects : KindOf[x] = k /\ Live(c[x])}}

\* The orders in which a set of jobs, one per object, can be enumerated.
Enumerations(S) ==
    {s \in UNION {[1..n -> S] : n \in 0..Cardinality(Objects)} :
        /\ \A i, j \in DOMAIN s : s[i] = s[j] => i = j
        /\ \A e \in S : \E i \in DOMAIN s : s[i] = e}

\* Mutant: the update handler ignores what isInformerResync recognises.
Resync_Ignored(k) == k \in started /\ UNCHANGED vars

\* The resync period elapses: every object in the indexer is notified again.
Resync(k) ==
    /\ k \in started /\ pending[k] = <<>>
    /\ \E s \in Enumerations(CachedJobs(cache, k)) :
          s # <<>> /\ pending' = [pending EXCEPT ![k] = s]
    /\ UNCHANGED <<api, started, cache, queue, registry, worker, rows, flags, raced>>

\* Mutant: a job that finds the queue full is queued all the same.
dispatch_Unbounded(j) == queue' = Append(queue, j)

\* dispatch blocks, in the informer's handler or in a reconciler, until the
\* queue has room.
dispatch(j) ==
    /\ Len(queue) < QueueCap
    /\ queue' = Append(queue, j)

\* The object is also in a backfill that was listed earlier and not dispatched yet.
InBackfill(o) == \E t \in Targets : \E j \in rec[t].list : j.obj = o

Deliver(k) ==
    /\ pending[k] # <<>>
    /\ dispatch(Head(pending[k]))
    /\ pending' = [pending EXCEPT ![k] = Tail(@)]
    /\ raced' = raced \cup {o \in {Head(pending[k]).obj} : InBackfill(o)}
    /\ UNCHANGED <<api, started, cache, registry, worker, rows, flags>>

-----------------------------------------------------------------------------
(* RegisterTarget and UnregisterTarget, called by the target's reconciler. *)

\* keys[:i], keys[i+1:]... for the first i at which the key is listed.
Without(keys, t) ==
    IF \A i \in DOMAIN keys : keys[i] # t THEN keys
    ELSE LET i == CHOOSE n \in DOMAIN keys : keys[n] = t /\ \A m \in 1..(n - 1) : keys[m] # t
         IN SubSeq(keys, 1, i - 1) \o SubSeq(keys, i + 1, Len(keys))

\* The key leaves the list of the kind it is registered with, if it is registered.
unindexTargetLocked(t) ==
    IF targets[t] = NoSpec THEN byGVR
    ELSE [byGVR EXCEPT ![targets[t].kind] = Without(@, t)]

indexTargetLocked(idx, t, k) ==
    IF \E i \in DOMAIN idx[k] : idx[k][i] = t THEN idx ELSE [idx EXCEPT ![k] = Append(@, t)]

\* Mutant: a registered target is never backfilled again.
RegisterTarget_NoRefill(t, spec) ==
    /\ rec[t].pc = "idle" /\ calls < MaxCalls
    /\ calls' = calls + 1
    /\ targets' = [targets EXCEPT ![t] = spec]
    /\ byGVR' = indexTargetLocked(unindexTargetLocked(t), t, spec.kind)
    /\ rec' = [rec EXCEPT ![t] = [pc |-> "informer", backfill |-> targets[t] = NoSpec,
                                  list |-> {}]]
    /\ UNCHANGED <<informer, queue, worker, rows, flags, raced>>

RegisterTarget(t, spec) ==
    /\ rec[t].pc = "idle" /\ calls < MaxCalls
    /\ calls' = calls + 1
    /\ targets' = [targets EXCEPT ![t] = spec]
    /\ byGVR' = indexTargetLocked(unindexTargetLocked(t), t, spec.kind)
    /\ rec' = [rec EXCEPT ![t] = [pc |-> "informer", backfill |-> targets[t] # spec,
                                  list |-> {}]]
    /\ UNCHANGED <<informer, queue, worker, rows, flags, raced>>

\* informerMu is held from here to the end of the backfill.
InformerMuFree == \A t \in Targets : rec[t].pc # "filling"

\* No informer for the kind yet: start one and wait for its first list, which is
\* notified as adds.
StartInformer(t) ==
    LET k == targets[t].kind
        synced == [o \in Objects |-> IF KindOf[o] = k THEN api[o] ELSE cache[o]]
    IN
    /\ rec[t].pc = "informer" /\ InformerMuFree
    /\ k \notin started
    /\ started' = started \cup {k}
    /\ cache' = synced
    /\ \E s \in Enumerations(CachedJobs(synced, k)) : pending' = [pending EXCEPT ![k] = s]
    /\ rec' = [rec EXCEPT ![t] = IdleRec]
    /\ UNCHANGED <<api, queue, targets, byGVR, calls, worker, rows, flags, raced>>

\* The running informer covers the target: list its indexer if a backfill is due.
ListForBackfill(t) ==
    LET jobs == IF rec[t].backfill THEN CachedJobs(cache, targets[t].kind) ELSE {} IN
    /\ rec[t].pc = "informer" /\ InformerMuFree
    /\ targets[t].kind \in started
    /\ rec' = [rec EXCEPT ![t] = IF jobs = {} THEN IdleRec
                                 ELSE [pc |-> "filling", backfill |-> TRUE, list |-> jobs]]
    /\ UNCHANGED <<informer, queue, targets, byGVR, calls, worker, rows, flags, raced>>

\* Go lists the indexer, a map, in any order.
resyncInformerStore(t) ==
    /\ rec[t].pc = "filling"
    /\ \E j \in rec[t].list :
          /\ dispatch(j)
          /\ rec' = [rec EXCEPT ![t] = IF @.list = {j} THEN IdleRec
                                       ELSE [rec[t] EXCEPT !.list = rec[t].list \ {j}]]
    /\ UNCHANGED <<informer, targets, byGVR, calls, worker, rows, flags, raced>>

\* The registration and the flags go under Engine.mu ...
UnregisterTarget(t) ==
    /\ rec[t].pc = "idle" /\ targets[t] # NoSpec /\ calls < MaxCalls
    /\ calls' = calls + 1
    /\ targets' = [targets EXCEPT ![t] = NoSpec]
    /\ byGVR' = unindexTargetLocked(t)
    /\ rec' = [rec EXCEPT ![t].pc = "clear"]
    /\ forbidden' = forbidden \ {t}
    /\ accessErr' = accessErr \ {t}
    /\ extractErr' = [extractErr EXCEPT ![t] = {}]
    /\ UNCHANGED <<informer, queue, worker, rows, raced>>

\* ... and the rows after it was released.
RemoveTarget(t) ==
    /\ rec[t].pc = "clear"
    /\ rows' = [rows EXCEPT ![t] = [o \in Objects |-> 0]]
    /\ rec' = [rec EXCEPT ![t] = IdleRec]
    /\ UNCHANGED <<informer, queue, targets, byGVR, calls, worker, flags, raced>>

-----------------------------------------------------------------------------
(* processDispatch, run by the dispatch workers. *)

\* Mutant: a worker needs informerMu to take a job.
Take_NeedsInformerMu(w) ==
    /\ worker[w].pc = "idle" /\ queue # <<>> /\ InformerMuFree
    /\ worker' = [worker EXCEPT ![w] = [pc |-> "taken", job |-> Head(queue), states |-> <<>>]]
    /\ queue' = Tail(queue)
    /\ UNCHANGED <<informer, registry, rows, flags, raced>>

Take(w) ==
    /\ worker[w].pc = "idle" /\ queue # <<>>
    /\ worker' = [worker EXCEPT ![w] = [pc |-> "taken", job |-> Head(queue), states |-> <<>>]]
    /\ queue' = Tail(queue)
    /\ raced' = raced \cup {o \in {Head(queue).obj} :
                    \E v \in Workers : worker[v].pc # "idle" /\ worker[v].job.obj = o}
    /\ UNCHANGED <<informer, registry, rows, flags>>

\* The worker once it is done with the first of the states it has left.
NextState(wk) ==
    IF Len(wk.states) <= 1 THEN IdleWorker
    ELSE [wk EXCEPT !.pc = "match", !.states = Tail(@)]

\* The registered states of the object's kind, copied under Engine.mu.
Snapshot(w) ==
    LET idx == byGVR[KindOf[worker[w].job.obj]]
        states == [i \in DOMAIN idx |-> [target |-> idx[i], spec |-> targets[idx[i]]]]
    IN
    /\ worker[w].pc = "taken"
    /\ worker' = [worker EXCEPT ![w] = IF states = <<>> THEN IdleWorker
                                       ELSE [@ EXCEPT !.pc = "match", !.states = states]]
    /\ UNCHANGED <<informer, queue, registry, rows, flags, raced>>

matchesTarget(spec, j) == j.obj \in spec.sel /\ j.tag # "filtered"

At(w, pc) == worker[w].pc = pc
Cur(w) == Head(worker[w].states)
RemoveItem(t, o) == rows' = [rows EXCEPT ![t][o] = 0]
clearExtractFailure(t, o) == extractErr' = [extractErr EXCEPT ![t] = @ \ {o}]
recordExtractFailure(t, o) == extractErr' = [extractErr EXCEPT ![t] = @ \cup {o}]
Advance(w) == worker' = [worker EXCEPT ![w] = NextState(@)]
Goto(w, pc) == worker' = [worker EXCEPT ![w].pc = pc]

\* A deleted object, or one the target does not match, loses its row.
Drop(w) ==
    LET t == Cur(w).target  j == worker[w].job IN
    /\ At(w, "match")
    /\ Deleted(j) \/ ~matchesTarget(Cur(w).spec, j)
    /\ RemoveItem(t, j.obj)
    /\ clearExtractFailure(t, j.obj)
    /\ Advance(w)
    /\ UNCHANGED <<informer, queue, registry, forbidden, accessErr, raced>>

Match(w) ==
    /\ At(w, "match")
    /\ ~Deleted(worker[w].job) /\ matchesTarget(Cur(w).spec, worker[w].job)
    /\ Goto(w, "access")
    /\ UNCHANGED <<informer, queue, registry, rows, flags, raced>>

\* CanAccess fails: the row stays and the target is flagged.
AccessFails(w) ==
    /\ At(w, "access") /\ "error" \in AccessOutcomes
    /\ accessErr' = accessErr \cup {Cur(w).target}
    /\ Advance(w)
    /\ raced' = raced \cup {worker[w].job.obj}
    /\ UNCHANGED <<informer, queue, registry, rows, forbidden, extractErr>>

\* CanAccess says no: the row goes.
AccessDenied(w) ==
    LET t == Cur(w).target IN
    /\ At(w, "access") /\ "denied" \in AccessOutcomes
    /\ accessErr' = accessErr \ {t}
    /\ forbidden' = forbidden \cup {t}
    /\ RemoveItem(t, worker[w].job.obj)
    /\ Advance(w)
    /\ raced' = raced \cup {worker[w].job.obj}
    /\ UNCHANGED <<informer, queue, registry, extractErr>>

\* Access is granted and Extract fails: fail closed, the row goes.
ExtractFails(w) ==
    LET t == Cur(w).target  j == worker[w].job IN
    /\ At(w, "access") /\ "allowed" \in AccessOutcomes
    /\ j.tag = "bad"
    /\ accessErr' = accessErr \ {t} /\ forbidden' = forbidden \ {t}
    /\ RemoveItem(t, j.obj)
    /\ recordExtractFailure(t, j.obj)
    /\ Advance(w)
    /\ UNCHANGED <<informer, queue, registry, raced>>

Extract(w) ==
    LET t == Cur(w).target  j == worker[w].job IN
    /\ At(w, "access") /\ "allowed" \in AccessOutcomes
    /\ j.tag = "match"
    /\ accessErr' = accessErr \ {t} /\ forbidden' = forbidden \ {t}
    /\ clearExtractFailure(t, j.obj)
    /\ Goto(w, "upsert")
    /\ UNCHANGED <<informer, queue, registry, rows, raced>>

\* Mutant: the row is written whether or not the target is still registered.
upsertIfRegistered_Always(w) ==
    /\ At(w, "upsert")
    /\ rows' = [rows EXCEPT ![Cur(w).target][worker[w].job.obj] = worker[w].job.ver]
    /\ Advance(w)
    /\ UNCHANGED <<informer, queue, registry, flags, raced>>

upsertIfRegistered(w) ==
    LET t == Cur(w).target  j == worker[w].job IN
    /\ At(w, "upsert")
    /\ rows' = IF targets[t] = NoSpec THEN rows ELSE [rows EXCEPT ![t][j.obj] = j.ver]
    /\ Advance(w)
    /\ UNCHANGED <<informer, queue, registry, flags, raced>>

processDispatch(w) ==
    \/ Take(w) \/ Snapshot(w) \/ Drop(w) \/ Match(w)
    \/ AccessFails(w) \/ AccessDenied(w) \/ ExtractFails(w) \/ Extract(w)
    \/ upsertIfRegistered(w)

InformerCall(t) == StartInformer(t) \/ ListForBackfill(t)

Next ==
    \/ \E o \in Objects : (\E tag \in Tags : WriteObject(o, tag)) \/ DeleteObject(o) \/ Observe(o)
    \/ \E k \in Kinds : Resync(k) \/ Deliver(k)
    \/ \E t \in Targets : \/ \E spec \in TargetSpec : RegisterTarget(t, spec)
                          \/ UnregisterTarget(t) \/ RemoveTarget(t)
                          \/ InformerCall(t) \/ resyncInformerStore(t)
    \/ \E w \in Workers : processDispatch(w)

Spec == Init /\ [][Next]_vars

\* Goroutines run.  A sender blocked on the queue is strongly fair: Go serves
\* the senders of a channel in the order they blocked.
FairSpec ==
    /\ Spec
    /\ \A o \in Objects : WF_vars(Observe(o))
    /\ \A k \in Kinds : WF_vars(Resync(k)) /\ SF_vars(Deliver(k))
    /\ \A t \in Targets : WF_vars(RemoveTarget(t)) /\ SF_vars(InformerCall(t))
                          /\ SF_vars(resyncInformerStore(t))
    /\ \A w \in Workers : WF_vars(processDispatch(w))

-----------------------------------------------------------------------------
(* Properties. *)

\* No event, notification, job or engine call is on its way.
Quiet ==
    /\ \A o \in Objects : KindOf[o] \in started => cache[o] = api[o]
    /\ \A k \in Kinds : pending[k] = <<>>
    /\ queue = <<>>
    /\ \A t \in Targets : rec[t].pc = "idle"
    /\ \A w \in Workers : worker[w].pc = "idle"

Collects(t, o) ==
    /\ targets[t] # NoSpec
    /\ targets[t].kind = KindOf[o]
    /\ o \in targets[t].sel

\* The row the target should have for the object.
Expected(t, o) == IF Collects(t, o) /\ api[o].tag = "match" THEN api[o].ver ELSE 0

\* A target that is not registered has no rows once UnregisterTarget has
\* returned, whatever the workers were doing with their snapshots of it
\* (upsertIfRegistered, engine.go:1000).
NoOrphanRows ==
    \A t \in Targets : targets[t] = NoSpec /\ rec[t].pc # "clear"
                          => \A o \in Objects : rows[t][o] = 0

\* When nothing is on its way, every object of which no two jobs ever overlapped
\* and to which access was never refused has exactly the row its latest version
\* calls for, in every target of its kind: no registration change, filter change,
\* deletion or backfill leaves a row too many, one too few or an old one
\* (RegisterTarget, processDispatch).
Converged ==
    Quiet => \A t \in Targets, o \in Objects :
                o \notin raced => rows[t][o] = Expected(t, o)

\* Items removed from the watch set are dropped from the store on update events
\* (ADR-0205): when nothing is on its way, a filtered object has no row.
WatchSetDropped ==
    Quiet => \A t \in Targets, o \in Objects :
                api[o].tag = "filtered" => rows[t][o] = 0

\* Every RegisterTarget and UnregisterTarget call returns, though it may hold
\* informerMu while it waits for room in a full queue (dispatch, engine.go:772).
CallReturns == \A t \in Targets : []<>(rec[t].pc = "idle")

\* The resync repairs what overlapping jobs left behind, for objects that exist:
\* in the end, where access is granted, every live object has the row its latest
\* version calls for.
ResyncHeals ==
    <>[](\A t \in Targets, o \in Objects : Live(api[o]) => rows[t][o] = Expected(t, o))

\* The resync is a correctness backstop: in the end every object has the row it
\* should have, and a deleted one has none (performance.md:92).
ResyncIsBackstop ==
    <>[](\A t \in Targets, o \in Objects : rows[t][o] = Expected(t, o))
=============================================================================
