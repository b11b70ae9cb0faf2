------------------------------ MODULE Targets ------------------------------
(***************************************************************************)
(* The KollectTarget and KollectClusterTarget reconcilers                  *)
(* (internal/controller/kollecttarget_controller.go,                       *)
(* kollectclustertarget_controller.go) in front of the collection engine:  *)
(* finalizers, profile and scope resolution, the namespaces a target       *)
(* covers, its registration, its conditions and counts.                    *)
(*                                                                         *)
(* A reconcile is four steps: the object is read (Load), everything it     *)
(* refers to is read (Resolve), the engine is called (Register), and the   *)
(* status is written (Commit).  Users, the engine, API faults, a panic and *)
(* a restart of the manager come in between.  A work queue key is never    *)
(* processed twice at once; a key added meanwhile is processed again.      *)
(***************************************************************************)
EXTENDS Integers, FiniteSetsExt

CONSTANTS
    NS,              \* workload namespaces
    Targets,         \* KollectTargets: <<tenant namespace, name>>
    ClusterTargets,  \* KollectClusterTargets: names
    GVKs,            \* versions of the one profile: the kind it collects
    ScopeSpec,       \* the KollectScopes there may be, by name (a number)
    ClusterScopeSpec,\* the KollectClusterScopes there may be, by name
    Filters,         \* values of spec.collectionFilter and namespaceSelector
    Defaults,        \* NamespaceDefaults of the engine
    Sinks,           \* sinks bound by the inventories of the tenant namespace
    Signals,         \* what the engine may report of a registered target
    Absent,          \* no object, no registration
    MaxEdits,        \* bound: changes by users and by the engine
    MaxFaults        \* bound: API errors, panics and restarts

VARIABLES
    obj,        \* the target objects
    status,     \* their status subresource
    profile,    \* the profile's kind, or Absent
    scopes,     \* KollectScopes that exist in the tenant namespace
    cscopes,    \* KollectClusterScopes that exist
    ns,         \* namespaces: the ones that exist, and which carry the label
    sinks,      \* sink -> what its reference resolves to
    reg,        \* engine key -> registration (Engine.targets)
    sig,        \* engine key -> item count and failure flags
    queue,      \* keys waiting in the work queues
    rec,        \* the reconcile in progress of each object
    edits, faults

world == <<obj, status, profile, scopes, cscopes, ns, sinks>>
engine == <<reg, sig>>
vars == <<world, engine, queue, rec, edits, faults>>

Objs == Targets \cup ClusterTargets
Names == ClusterTargets \cup {t[2] : t \in Targets}
Keys == (NS \X Names) \cup Targets
Quiet == [count |-> 0, forbidden |-> FALSE, access |-> FALSE, extract |-> FALSE]
Gone == [phase |-> "absent", fin |-> FALSE, suspend |-> FALSE,
         filter |-> CHOOSE f \in Filters : TRUE]
Blank == [cond |-> "none", reason |-> "none", msg |-> 0, current |-> FALSE,
          synced |-> "none", sink |-> "none", count |-> -1, eff |-> {}]
\* Written by a release that had no collectedCount field.
Upgraded == [Blank EXCEPT !.cond = "Ready", !.reason = "Collecting",
             !.current = TRUE, !.synced = "Collecting", !.sink = "ok"]
NoCeiling == [allowed |-> {}, denied |-> {}]
Idle == [pc |-> "idle", read |-> Gone, do |-> "none", gvk |-> Absent,
         eff |-> {}, ceiling |-> NoCeiling, stale |-> FALSE]

\* Type correctness.
TypeOK ==
    /\ obj \in [Objs -> [phase : {"absent", "live", "deleting"}, fin : BOOLEAN,
                         suspend : BOOLEAN, filter : Filters]]
    /\ \A o \in Objs : /\ status[o].cond \in {"none", "Ready", "Degraded"}
                       /\ status[o].eff \subseteq NS /\ status[o].count \in Int
    /\ profile \in GVKs \cup {Absent}
    /\ scopes \subseteq DOMAIN ScopeSpec /\ cscopes \subseteq DOMAIN ClusterScopeSpec
    /\ ns.labelled \subseteq ns.exist /\ ns.exist \subseteq NS
    /\ DOMAIN reg = Keys /\ sig \in [Keys -> Signals \cup {Quiet}]
    /\ \A k \in Keys : reg[k] # Absent => reg[k] \in [gvk : GVKs, eff : SUBSET NS, enforced : BOOLEAN]
    /\ queue \subseteq Objs
    /\ \A o \in Objs : rec[o].pc \in {"idle", "loaded", "resolved", "acted"}
    /\ edits \in 0..MaxEdits /\ faults \in 0..MaxFaults

Exists(o) == obj[o].phase # "absent"

Init ==
    /\ obj \in [Objs -> {Gone} \cup {[Gone EXCEPT !.phase = "live", !.fin = TRUE, !.filter = f] : f \in Filters}]
    /\ status = [o \in Objs |-> IF Exists(o) THEN Upgraded ELSE Blank]
    /\ profile \in GVKs \cup {Absent}
    /\ scopes = {} /\ cscopes = {}
    /\ ns = [exist |-> NS, labelled |-> NS]
    /\ sinks = [s \in Sinks |-> "resolved"]
    /\ reg = [k \in Keys |-> Absent] /\ sig = [k \in Keys |-> Quiet]
    /\ queue = {o \in Objs : Exists(o)} /\ rec = [o \in Objs |-> Idle]
    /\ edits = 0 /\ faults = 0

-----------------------------------------------------------------------------
(* Namespaces and scopes. *)

\* scope.Load, LoadCluster: the lowest-named object of all is the one enforced.
Enforced(S) == CHOOSE s \in S : \A x \in S : s <= x

EnforcedCluster(S) == CHOOSE s \in S : \A x \in S : s <= x

ScopeCeilingFromScope(spec) == [allowed |-> spec.allowed, denied |-> spec.denied]
ScopeCeilingFromClusterScope(spec) == [allowed |-> spec.allowed, denied |-> spec.denied]

\* The ceiling of a namespaced target, when its scopes can be listed.
scopeCeilingForTarget ==
    IF scopes = {} THEN NoCeiling ELSE ScopeCeilingFromScope(ScopeSpec[Enforced(scopes)])

clusterScopeCeiling ==
    IF cscopes = {} THEN NoCeiling ELSE ScopeCeilingFromClusterScope(ClusterScopeSpec[EnforcedCluster(cscopes)])

\* A label selector of the filter selects the labelled namespaces.
MatchIntentNamespaces(f) ==
    LET included == IF f.included # {} THEN f.included ELSE Defaults.included
    IN {n \in ns.exist : /\ included = {} \/ n \in included
                         /\ f.selector => n \in ns.labelled
                         /\ n \notin f.excluded \cup Defaults.excluded
                         /\ ~(f.excludeSelector /\ n \in ns.labelled)}

EffectiveNamespaces(matched, ceiling, f) ==
    {n \in matched \ (f.excluded \cup Defaults.excluded \cup ceiling.denied) :
        ceiling.allowed = {} \/ n \in ceiling.allowed}

\* The namespaces a filter collects from, before and after the ceiling.
ComputeFilterStatus(f, ceiling) == EffectiveNamespaces(MatchIntentNamespaces(f), ceiling, f)

CeilingRestricts(ceiling) == ceiling # NoCeiling

\* The kinds of the resource rules, or the profile's.
CollectRuleGVKs(f, gvk) == IF f.rules = {} THEN {gvk} ELSE f.rules

\* An empty allow list allows everything.
ValidateResourceRuleGVKs(spec, K) == spec.gvks = {} \/ K \subseteq spec.gvks
ValidateClusterScopeGVKs(spec, K) == spec.gvks = {} \/ K \subseteq spec.gvks
ValidateWorkloadNamespaces(spec, N) == spec.allowed = {} \/ N \subseteq spec.allowed
ValidateDeniedNamespaces(spec, N) == N \cap spec.denied = {}

ValidateTargetIncludedNamespaces(spec, N) ==
    ValidateDeniedNamespaces(spec, N) /\ ValidateWorkloadNamespaces(spec, N)

\* The namespace of the profile a cluster target names.
ValidateClusterScopeStaticRefNamespace(spec) == spec.staticRef

\* enforceTarget: the reason of the deny, or "ok".  A target that matches no
\* namespace yet is judged by its own.
enforceTarget(t, f, gvk) ==
    IF scopes = {} THEN "ok"
    ELSE LET spec == ScopeSpec[Enforced(scopes)]
             matched == MatchIntentNamespaces(f)
             intent == IF matched # {} THEN matched ELSE {t[1]}
         IN IF ~ValidateResourceRuleGVKs(spec, CollectRuleGVKs(f, gvk)) THEN "ScopeGVKDenied"
            ELSE IF \/ ~ValidateTargetIncludedNamespaces(spec, intent)
                    \/ ~ValidateWorkloadNamespaces(spec, ComputeFilterStatus(f, scopeCeilingForTarget))
                 THEN "ScopeNamespaceDenied"
            ELSE "ok"

\* The profile's namespace and the kinds must be allowed.
loadClusterScopeBinding(f, gvk) ==
    IF cscopes = {} THEN "ok"
    ELSE LET spec == ClusterScopeSpec[EnforcedCluster(cscopes)]
         IN IF ~ValidateClusterScopeStaticRefNamespace(spec) THEN "ScopeNamespaceDenied"
            ELSE IF ~ValidateClusterScopeGVKs(spec, CollectRuleGVKs(f, gvk)) THEN "ScopeGVKDenied"
            ELSE "ok"

\* A sink that was found and has not failed its last probe.
familySinkReachable(s) == sinks[s] \notin {"SinkNotFound", "SinkForbidden", "SinkUnreachable"}

\* checkTargetNamespaceSinksReachable: the first sink that is not, in any order.
Unreachable == {s \in Sinks : ~familySinkReachable(s)}

-----------------------------------------------------------------------------
(* The engine, as the reconcilers use it. *)

\* The names are compared, whatever kind registered the key.
NamespacesForClusterTarget(c) == {k \in Keys : k[2] = c}

KeysOf(o) == IF o \in Targets THEN {o} ELSE NamespacesForClusterTarget(o)

Unregister(K) ==
    /\ reg' = [k \in Keys |-> IF k \in K THEN Absent ELSE reg[k]]
    /\ sig' = [k \in Keys |-> IF k \in K THEN Quiet ELSE sig[k]]

\* RegisterTarget: an empty set is recomputed under the ceiling.
Registration(o, k) ==
    LET r == rec[o]
        f == r.read.filter
        eff == IF o \in ClusterTargets THEN {k[1]}
               ELSE IF r.eff # {} THEN r.eff
               ELSE ComputeFilterStatus(f, r.ceiling)
    IN [gvk |-> r.gvk, eff |-> eff, enforced |-> CeilingRestricts(r.ceiling)]

ItemCount(k) == sig[k].count

collectedCount(c) == MapThenSumSet(LAMBDA n : ItemCount(<<n, c>>), rec[c].eff)

CollectedCount(o) == IF o \in Targets THEN ItemCount(o) ELSE collectedCount(o)

-----------------------------------------------------------------------------
(* Users, the engine's dispatch, and the events the watches turn into keys. *)

Edit == edits < MaxEdits /\ edits' = edits + 1 /\ UNCHANGED faults
Fault == faults < MaxFaults /\ faults' = faults + 1 /\ UNCHANGED edits
Enqueue(S) == queue' = queue \cup {o \in S : Exists(o)}

\* A write of the object: the generation moves on, a reconcile in progress
\* will be refused its status update.
Touch(o, new) ==
    /\ obj' = [obj EXCEPT ![o] = new]
    /\ status' = [status EXCEPT ![o] = IF new = Gone THEN Blank ELSE [@ EXCEPT !.current = FALSE]]
    /\ rec' = [rec EXCEPT ![o].stale = rec[o].pc # "idle"]
    /\ queue' = queue \cup {o}

WriteSpec(o, suspend, f) ==
    /\ Edit /\ obj[o].phase # "deleting"
    /\ Touch(o, [obj[o] EXCEPT !.phase = "live", !.suspend = suspend, !.filter = f])
    /\ UNCHANGED <<profile, scopes, cscopes, ns, sinks, engine>>

\* Without a finalizer the object is removed at once.
DeleteTarget(o) ==
    /\ Edit /\ obj[o].phase = "live"
    /\ Touch(o, IF obj[o].fin THEN [obj[o] EXCEPT !.phase = "deleting"] ELSE Gone)
    /\ UNCHANGED <<profile, scopes, cscopes, ns, sinks, engine>>

mapProfileToTargets == {t \in Targets : obj[t].filter.ref}
mapProfileToClusterTargets == {c \in ClusterTargets : obj[c].filter.ref}

WriteProfile(p) ==
    /\ Edit /\ p # profile /\ profile' = p
    /\ Enqueue(mapProfileToTargets \cup mapProfileToClusterTargets)
    /\ UNCHANGED <<obj, status, scopes, cscopes, ns, sinks, engine, rec>>

mapScopeToTargets == Targets

WriteScopes(S) ==
    /\ Edit /\ S # scopes /\ scopes' = S
    /\ Enqueue(mapScopeToTargets)
    /\ UNCHANGED <<obj, status, profile, cscopes, ns, sinks, engine, rec>>

mapClusterScopeToClusterTargets == ClusterTargets

WriteClusterScopes(S) ==
    /\ Edit /\ S # cscopes /\ cscopes' = S
    /\ Enqueue(mapClusterScopeToClusterTargets)
    /\ UNCHANGED <<obj, status, profile, scopes, ns, sinks, engine, rec>>

\* Only the cluster controller watches namespaces.
mapNamespaceToClusterTargets == ClusterTargets

WriteNamespaces(exist, labelled) ==
    /\ Edit /\ ns' = [exist |-> exist, labelled |-> labelled] /\ ns' # ns
    /\ Enqueue(mapNamespaceToClusterTargets)
    /\ UNCHANGED <<obj, status, profile, scopes, cscopes, sinks, engine, rec>>

\* Neither controller watches sinks or inventories.
SinkChanges(s, state) ==
    /\ Edit /\ sinks[s] # state /\ sinks' = [sinks EXCEPT ![s] = state]
    /\ UNCHANGED <<obj, status, profile, scopes, cscopes, ns, engine, queue, rec>>

\* Rows, access checks and extraction of a registered target.
Dispatch(k, s) ==
    /\ Edit /\ reg[k] # Absent /\ sig[k] # s
    /\ sig' = [sig EXCEPT ![k] = s]
    /\ UNCHANGED <<world, reg, queue, rec>>

\* The informers of the manager re-deliver every object (SyncPeriod).
SyncPeriod ==
    /\ \E o \in Objs : Exists(o) /\ o \notin queue
    /\ Enqueue(Objs)
    /\ UNCHANGED <<world, engine, rec, edits, faults>>

-----------------------------------------------------------------------------
(* One reconcile. *)

Ready(o) == rec[o].pc = "idle" /\ o \in queue
Step(o, new) == rec' = [rec EXCEPT ![o] = new]

\* Reconcile on an object that is gone: only the namespaced one unregisters.
LoadGone(o) ==
    /\ Ready(o) /\ ~Exists(o)
    /\ queue' = queue \ {o}
    /\ IF o \in Targets THEN Unregister({o}) ELSE UNCHANGED engine
    /\ UNCHANGED <<world, rec, edits, faults>>

\* The object goes with its last finalizer; a conflict on the update is retried.
removeFinalizerAndUpdate(o) ==
    /\ \/ /\ obj' = [obj EXCEPT ![o] = Gone] /\ status' = [status EXCEPT ![o] = Blank]
          /\ UNCHANGED <<edits, faults>>
       \/ Fault /\ UNCHANGED <<obj, status>>
    /\ UNCHANGED <<profile, scopes, cscopes, ns, sinks, queue, rec>>

\* Unregister, then let go of the object.
finalizeTargetDeletion(t) ==
    /\ Ready(t) /\ obj[t].phase = "deleting"
    /\ Unregister({t})
    /\ removeFinalizerAndUpdate(t)

finalizeClusterTargetDeletion(c) ==
    /\ Ready(c) /\ obj[c].phase = "deleting"
    /\ Unregister(NamespacesForClusterTarget(c))
    /\ removeFinalizerAndUpdate(c)

\* The finalizer is on the object before anything is registered for it; adding
\* it is a write, so the key comes back.
ensureFinalizer(o) ==
    /\ Ready(o) /\ obj[o].phase = "live"
    /\ \/ /\ obj' = [obj EXCEPT ![o].fin = TRUE]
          /\ queue' = IF obj[o].fin THEN queue \ {o} ELSE queue
          /\ Step(o, [Idle EXCEPT !.pc = "loaded", !.read = [obj[o] EXCEPT !.fin = TRUE]])
          /\ UNCHANGED <<edits, faults>>
       \/ ~obj[o].fin /\ Fault /\ UNCHANGED <<obj, queue, rec>>
    /\ UNCHANGED <<status, profile, scopes, cscopes, ns, sinks, engine>>

Decide(o, reason) == Step(o, [rec[o] EXCEPT !.pc = "acted", !.do = reason])
Retry(o) == Step(o, Idle) /\ queue' = queue \cup {o}

Plan(o, ceiling) ==
    LET f == rec[o].read.filter
    IN Step(o, [rec[o] EXCEPT !.pc = "resolved", !.gvk = profile, !.ceiling = ceiling,
                !.eff = ComputeFilterStatus(f, ceiling)])

\* The namespaced target.  A missing profile degrades it and leaves it registered.
ResolveTarget(t) ==
    LET f == rec[t].read.filter
        deny == enforceTarget(t, f, profile)
    IN
    /\ rec[t].pc = "loaded"
    /\ \/ /\ rec[t].read.suspend
          /\ Decide(t, "Suspended") /\ Unregister({t})
          /\ UNCHANGED <<queue, edits, faults>>
       \/ /\ ~rec[t].read.suspend /\ ~f.ref
          /\ Decide(t, "MissingProfileRef")
          /\ UNCHANGED <<engine, queue, edits, faults>>
       \/ /\ ~rec[t].read.suspend /\ f.ref /\ profile = Absent
          /\ Decide(t, "ProfileNotFound")
          /\ UNCHANGED <<engine, queue, edits, faults>>
       \/ /\ ~rec[t].read.suspend /\ f.ref
          /\ Fault /\ Retry(t) /\ UNCHANGED engine        \* the profile is not readable
       \/ /\ ~rec[t].read.suspend /\ f.ref /\ profile # Absent
          /\ \/ /\ deny # "ok" /\ Decide(t, deny) /\ Unregister({t})
                /\ UNCHANGED <<edits, faults>>
             \/ Fault /\ Decide(t, "ScopeLookupFailed") /\ Unregister({t})
             \/ /\ deny = "ok" /\ Plan(t, scopeCeilingForTarget)
                /\ UNCHANGED <<engine, edits, faults>>
             \/ deny = "ok" /\ Fault /\ Plan(t, NoCeiling) /\ UNCHANGED engine
          /\ UNCHANGED queue
    /\ UNCHANGED world

\* The cluster target.  Any failure to read the profile unregisters and stops;
\* a failure to read the scopes is retried.
ResolveClusterTarget(c) ==
    LET f == rec[c].read.filter
        deny == loadClusterScopeBinding(f, profile)
    IN
    /\ rec[c].pc = "loaded"
    /\ \/ /\ rec[c].read.suspend
          /\ Decide(c, "Suspended") /\ Unregister(KeysOf(c))
          /\ UNCHANGED <<queue, edits, faults>>
       \/ /\ ~rec[c].read.suspend /\ profile = Absent
          /\ Decide(c, "ProfileNotFound") /\ Unregister(KeysOf(c))
          /\ UNCHANGED <<queue, edits, faults>>
       \/ /\ ~rec[c].read.suspend /\ Fault
          /\ Decide(c, "ProfileForbidden") /\ Unregister(KeysOf(c))
          /\ UNCHANGED queue
       \/ /\ ~rec[c].read.suspend /\ profile # Absent
          /\ Fault /\ Retry(c) /\ UNCHANGED engine
       \/ /\ ~rec[c].read.suspend /\ profile # Absent /\ UNCHANGED <<queue, edits, faults>>
          /\ \/ deny # "ok" /\ Decide(c, deny) /\ Unregister(KeysOf(c))
             \/ deny = "ok" /\ Plan(c, clusterScopeCeiling) /\ UNCHANGED engine
    /\ UNCHANGED world

\* RegisterTarget may fail before or after it stored the registration.
RegisterTarget(t) ==
    /\ rec[t].pc = "resolved"
    /\ UNCHANGED <<world, sig, queue>>
    /\ LET stored == [reg EXCEPT ![t] = Registration(t, t)]
       IN \/ reg' = stored /\ Decide(t, "registered") /\ UNCHANGED <<edits, faults>>
          \/ reg' \in {reg, stored} /\ Decide(t, "InformerRegistrationFailed") /\ Fault

\* syncEngineTargets: one synthetic target per namespace, then the namespaces no
\* longer wanted; an error leaves the loop at once and skips the second part.
syncEngineTargets(c) ==
    LET Want == {<<n, c>> : n \in rec[c].eff}
        With(K) == [k \in Keys |-> IF k \in K THEN Registration(c, k) ELSE reg[k]]
        Surplus == KeysOf(c) \ Want
    IN
    /\ rec[c].pc = "resolved"
    /\ UNCHANGED <<world, queue>>
    /\ \/ /\ reg' = [k \in Keys |-> IF k \in Surplus THEN Absent ELSE With(Want)[k]]
          /\ sig' = [k \in Keys |-> IF k \in Surplus THEN Quiet ELSE sig[k]]
          /\ Decide(c, "registered") /\ UNCHANGED <<edits, faults>>
       \/ /\ \E K \in SUBSET Want : reg' = With(K)
          /\ UNCHANGED sig
          /\ Decide(c, "InformerRegistrationFailed") /\ Fault

\* applyTargetReadyState: what a registered target reports.
TargetReadyState(t) ==
    IF sig[t].access THEN "AccessCheckFailed"
    ELSE IF sig[t].extract THEN "ExtractionFailed"
    ELSE IF Unreachable # {} THEN sinks[CHOOSE s \in Unreachable : TRUE]
    ELSE "Collecting"

Outcome(o) == IF rec[o].do # "registered" THEN rec[o].do
              ELSE IF o \in Targets THEN TargetReadyState(o) ELSE "Collecting"

\* matched, effective and active rules are set once the filter is resolved.
EffStatus(o) == IF rec[o].do \in {"registered", "InformerRegistrationFailed"}
                THEN rec[o].eff ELSE status[o].eff

setDegraded(t) ==
    [status[t] EXCEPT !.cond = "Degraded", !.reason = Outcome(t), !.msg = 0, !.current = TRUE,
     !.synced = "none", !.sink = "failed", !.eff = EffStatus(t)]

setClusterDegraded(c) ==
    [status[c] EXCEPT !.cond = "Degraded", !.reason = Outcome(c), !.msg = 0, !.current = TRUE,
     !.synced = "none", !.eff = EffStatus(c)]

setReady(t) ==
    [cond |-> "Ready", reason |-> "Collecting", msg |-> CollectedCount(t), current |-> TRUE,
     synced |-> IF sig[t].forbidden THEN "ScopeForbidden" ELSE "Collecting",
     sink |-> "ok", count |-> CollectedCount(t), eff |-> EffStatus(t)]

setClusterReady(c) ==
    [cond |-> "Ready", reason |-> "Collecting", msg |-> collectedCount(c), current |-> TRUE,
     synced |-> "Collecting", sink |-> status[c].sink,
     count |-> collectedCount(c), eff |-> EffStatus(c)]

\* The one condition that was given is compared.
setTargetCondition(old, new) ==
    /\ old.cond = new.cond /\ old.reason = new.reason
    /\ old.msg = new.msg /\ old.current = new.current

\* A count that moved is written though the condition is the same.
syncCollectedCountFields(old, new) == new.cond = "Ready" /\ old.count # new.count

\* Mutant: a changed filter is never written by itself.
clusterTargetFilterChanged_Never(old, new) == FALSE

\* For the cluster target so is a filter that resolved differently.
clusterTargetFilterChanged(old, new) == old.eff # new.eff

persistFilterStatusIfSkipped(o, old, new) ==
    \/ syncCollectedCountFields(old, new)
    \/ o \in ClusterTargets /\ clusterTargetFilterChanged(old, new)

NewStatus(o) ==
    IF o \in Targets THEN IF Outcome(o) = "Collecting" THEN setReady(o) ELSE setDegraded(o)
    ELSE IF Outcome(o) = "Collecting" THEN setClusterReady(o) ELSE setClusterDegraded(o)

\* A write is an event for the key.  A conflict, a failed scope lookup and the
\* count resync of a collecting target bring it back as well.
Commit(o) ==
    LET new == NewStatus(o)
        write == ~setTargetCondition(status[o], new) \/ persistFilterStatusIfSkipped(o, status[o], new)
        requeue == \/ write \/ rec[o].do = "ScopeLookupFailed"
                   \/ o \in Targets /\ new.cond = "Ready"
    IN
    /\ rec[o].pc = "acted"
    /\ Step(o, Idle)
    /\ status' = IF write /\ ~rec[o].stale THEN [status EXCEPT ![o] = new] ELSE status
    /\ queue' = IF requeue THEN queue \cup {o} ELSE queue
    /\ UNCHANGED <<obj, profile, scopes, cscopes, ns, sinks, engine, edits, faults>>

\* guardReconcile: a recovered panic is retried; what was done stays done.
Panic(o) ==
    /\ rec[o].pc # "idle" /\ Fault /\ Retry(o)
    /\ UNCHANGED <<world, engine>>

\* The manager starts again: the engine is empty, every object is delivered.
Restart ==
    /\ Fault
    /\ reg' = [k \in Keys |-> Absent] /\ sig' = [k \in Keys |-> Quiet]
    /\ rec' = [o \in Objs |-> Idle] /\ Enqueue(Objs)
    /\ UNCHANGED world

-----------------------------------------------------------------------------
ReconcileTarget(t) ==
    \/ LoadGone(t) \/ finalizeTargetDeletion(t) \/ ensureFinalizer(t)
    \/ ResolveTarget(t) \/ RegisterTarget(t) \/ Commit(t)

ReconcileClusterTarget(c) ==
    \/ LoadGone(c) \/ finalizeClusterTargetDeletion(c) \/ ensureFinalizer(c)
    \/ ResolveClusterTarget(c) \/ syncEngineTargets(c) \/ Commit(c)

Reconcile(o) ==
    \/ o \in Targets /\ ReconcileTarget(o)
    \/ o \in ClusterTargets /\ ReconcileClusterTarget(o)

Environment ==
    \/ \E o \in Objs : DeleteTarget(o) \/ \E f \in Filters : WriteSpec(o, TRUE, f) \/ WriteSpec(o, FALSE, f)
    \/ \E p \in GVKs \cup {Absent} : WriteProfile(p)
    \/ \E S \in SUBSET DOMAIN ScopeSpec : WriteScopes(S)
    \/ \E S \in SUBSET DOMAIN ClusterScopeSpec : WriteClusterScopes(S)
    \/ \E exist \in SUBSET NS : \E labelled \in SUBSET exist : WriteNamespaces(exist, labelled)
    \/ \E s \in Sinks, x \in {"resolved", "ConnectionVerified", "SinkNotFound", "SinkForbidden", "SinkUnreachable"} : SinkChanges(s, x)
    \/ \E k \in Keys, s \in Signals : Dispatch(k, s)

Next ==
    \/ \E o \in Objs : Reconcile(o) \/ Panic(o)
    \/ Environment \/ SyncPeriod \/ Restart

\* A queued key is reconciled, and the caches are re-delivered every SyncPeriod.
Fairness == WF_vars(SyncPeriod) /\ \A o \in Objs : WF_vars(Reconcile(o))
Spec == Init /\ [][Next]_vars /\ Fairness

-----------------------------------------------------------------------------
(* Properties. *)

\* The finalizer outlives every registration: while the engine collects for a
\* key, an object that owns it exists and carries the finalizer whose removal
\* unregisters it.  (A deletion cannot strand a registration.)
FinalizerGuards ==
    \A k \in Keys : reg[k] # Absent =>
        \E o \in Objs : k \in KeysOf(o) /\ Exists(o) /\ obj[o].fin

\* What a target at rest says of itself is still so, and if it is denied,
\* suspended or without readable profile it collects nothing - without waiting for the
\* next SyncPeriod.  (Namespaces are exempt for the namespaced target: it
\* does not watch them; and its missing profile leaves it registered.)
RestIsTrue ==
    \A o \in Objs : LET o1 == obj[o] st == status[o] IN
        (rec[o].pc = "idle" /\ o \notin queue /\ o1.phase = "live") =>
            /\ st.current /\ st.cond # "none"
            /\ st.reason = "Suspended" <=> o1.suspend
            /\ st.reason = "ProfileNotFound" => profile = Absent
            /\ (o \in ClusterTargets /\ st.reason \in {"ScopeGVKDenied", "ScopeNamespaceDenied"}) =>
                    loadClusterScopeBinding(o1.filter, profile) = st.reason
            /\ (o \in Targets /\ st.reason = "ScopeGVKDenied") =>
                    enforceTarget(o, o1.filter, profile) = st.reason
            /\ st.reason \in {"Suspended", "ScopeGVKDenied", "ScopeNamespaceDenied"} =>
                    \A k \in KeysOf(o) : reg[k] = Absent
            /\ (o \in ClusterTargets /\ st.cond = "Ready") =>
                    LET f == o1.filter
                        eff == ComputeFilterStatus(f, clusterScopeCeiling)
                    IN /\ {k[1] : k \in {x \in KeysOf(o) : reg[x] # Absent}} = eff
                       /\ st.eff = eff
                       /\ \A k \in KeysOf(o) : reg[k] # Absent => reg[k].gvk = profile

\* What keeps a target from collecting, as things are.
Wanted(o) ==
    /\ obj[o].phase = "live" /\ ~obj[o].suspend /\ profile # Absent
    /\ IF o \in Targets
       THEN obj[o].filter.ref /\ enforceTarget(o, obj[o].filter, profile) = "ok"
       ELSE loadClusterScopeBinding(obj[o].filter, profile) = "ok"

Barred(o) == obj[o].phase # "live" \/ obj[o].suspend \/ (profile # Absent /\ ~Wanted(o) /\ obj[o].filter.ref)

Collects(o) ==
    LET f == obj[o].filter
        M == MatchIntentNamespaces(f)
    IN IF o \in Targets
       THEN /\ reg[o] # Absent /\ reg[o].gvk = profile
            /\ reg[o].eff = EffectiveNamespaces(M, scopeCeilingForTarget, f)
            /\ (\/ sig[o].access \/ sig[o].extract \/ Unreachable # {}
                \/ status[o].cond = "Ready" /\ status[o].count = sig[o].count)
       ELSE /\ {k \in KeysOf(o) : reg[k] # Absent} =
                {<<n, o>> : n \in EffectiveNamespaces(M, clusterScopeCeiling, f)}
            /\ status[o].cond = "Ready"
            /\ status[o].count = MapThenSumSet(LAMBDA n : sig[<<n, o>>].count, NS)

\* Once the changes and faults stop, every target that should collect does, over
\* exactly the namespaces its filter and its scope leave, and has published its
\* count; every target that should not has no registration.
Settled ==
    \A o \in Objs : /\ Wanted(o) => Collects(o)
                    /\ Barred(o) => \A k \in KeysOf(o) : reg[k] = Absent
Settles == <>[]Settled
=============================================================================
