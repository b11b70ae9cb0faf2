---------------------------- MODULE MCControllers ----------------------------
(***************************************************************************)
(* The reconcilers of targets, sinks and connection tests, one at a time:  *)
(* a behaviour is one of Targets (with a namespaced or a cluster target)   *)
(* or of SinkProbe (with a sink or a connection test).  part tells which.  *)
(***************************************************************************)
EXTENDS Integers

CONSTANTS
    Absent

VARIABLES
    part,  \* the component
    obj, status, profile, scopes, cscopes, ns, sinks, reg, sig, queue, rec, edits, faults,
    cache, world, refs, lately, age, second, timer

all == <<part, obj, status, profile, scopes, cscopes, ns, sinks, reg, sig, queue, rec, edits, faults,
         cache, world, refs, lately, age, second, timer>>

(* Targets: one namespaced or one cluster target, two namespaces. *)
Namespaces == {"n1", "n2"}
Target == <<"team", "ta">>
ClusterTarget == "ca"
ScopesOf == <<[allowed |-> {"n1"}, denied |-> {}, gvks |-> {}, staticRef |-> TRUE],
              [allowed |-> {}, denied |-> {"n2"}, gvks |-> {"g2"}, staticRef |-> FALSE]>>
NoFilter == [included |-> {}, excluded |-> {}, selector |-> FALSE, excludeSelector |-> FALSE,
             rules |-> {}, ref |-> FALSE]
FiltersOf == {[NoFilter EXCEPT !.selector = TRUE, !.ref = TRUE]}
DefaultsOf == [included |-> {}, excluded |-> {}]
Fine == [count |-> 1, forbidden |-> FALSE, access |-> FALSE, extract |-> FALSE]
SignalsOf == {Fine} \cup {[Fine EXCEPT !.count = 0, ![f] = TRUE] : f \in {"forbidden", "access", "extract"}}

(* SinkProbe: a sink that is edited, or a sink with a connection test. *)
WorldsOf == {[secret |-> "good", up |-> TRUE], [secret |-> "bad", up |-> TRUE],
             [secret |-> "good", up |-> FALSE]}
Answering == {w \in WorldsOf : w.up}
Emptied == [secret |-> "empty", up |-> TRUE]

targetsVars == <<obj, status, profile, scopes, cscopes, ns, sinks, reg, sig, queue, rec, edits, faults>>
probesVars == <<obj, cache, world, refs, lately, age, second, timer, queue, rec, edits, faults>>

T == INSTANCE Targets WITH NS <- Namespaces, Targets <- {Target}, ClusterTargets <- {}, GVKs <- {"g1"},
         ScopeSpec <- ScopesOf, ClusterScopeSpec <- ScopesOf, Filters <- FiltersOf \cup {NoFilter},
         Defaults <- DefaultsOf, Sinks <- {1}, Signals <- SignalsOf, MaxEdits <- 2, MaxFaults <- 1
U == INSTANCE Targets WITH NS <- Namespaces, Targets <- {}, ClusterTargets <- {ClusterTarget}, GVKs <- {"g1"},
         ScopeSpec <- ScopesOf, ClusterScopeSpec <- ScopesOf, Filters <- FiltersOf,
         Defaults <- DefaultsOf, Sinks <- {1}, Signals <- SignalsOf, MaxEdits <- 2, MaxFaults <- 1
P == INSTANCE SinkProbe WITH Sinks <- {1}, Test <- 0, Types <- {"git", "s3"}, Novel <- {"s3"}, Applied <- FALSE,
         SinkFields <- {"test", "insecure"}, Marks <- {"ann", "preview"}, GitCLI <- TRUE,
         TTLs <- {1}, Worlds <- WorldsOf \cup {Emptied}, CacheTTL <- 1, MaxEdits <- 2, MaxFaults <- 1
Q == INSTANCE SinkProbe WITH Sinks <- {1}, Test <- 0, Types <- {"git"}, Novel <- {}, Applied <- TRUE,
         SinkFields <- {}, Marks <- {}, GitCLI <- TRUE,
         TTLs <- {1}, Worlds <- Answering, CacheTTL <- 1, MaxEdits <- 2, MaxFaults <- 1

(* The variables that are not of a component hold nothing while it runs. *)
not_targets == <<cache, world, refs, lately, age, second, timer>>
not_probes == <<status, profile, scopes, cscopes, ns, sinks, reg, sig>>

Start ==
    \/ /\ (part = "target" /\ T!Init) \/ (part = "cluster target" /\ U!Init)
       /\ cache = 0 /\ world = 0 /\ refs = 0 /\ lately = 0 /\ age = 0 /\ second = 0
       /\ timer = 0
    \/ /\ (part = "sink" /\ P!Init) \/ (part = "test" /\ Q!Init)
       /\ status = 0 /\ profile = 0 /\ scopes = 0 /\ cscopes = 0 /\ ns = 0 /\ sinks = 0
       /\ reg = 0 /\ sig = 0

(* Only the variables of the component change. *)
only_targets == UNCHANGED <<part, not_targets>>
only_probes == UNCHANGED <<part, not_probes>>

Step ==
    \/ part = "target" /\ T!Next /\ only_targets
    \/ part = "cluster target" /\ U!Next /\ only_targets
    \/ part = "sink" /\ P!Next /\ only_probes
    \/ part = "test" /\ Q!Next /\ only_probes

MCFairness ==
    /\ WF_targetsVars(part = "target" /\ T!SyncPeriod)
    /\ WF_targetsVars(part = "target" /\ T!Reconcile(Target))
    /\ WF_targetsVars(part = "cluster target" /\ U!SyncPeriod)
    /\ WF_targetsVars(part = "cluster target" /\ U!Reconcile(ClusterTarget))
    /\ WF_probesVars(part = "sink" /\ P!SinkStep(1))
    /\ WF_probesVars(part = "sink" /\ P!Deliver(1))
    /\ WF_probesVars(part = "sink" /\ P!Tick)
    /\ WF_probesVars(part = "test" /\ Q!SinkStep(1))
    /\ WF_probesVars(part = "test" /\ Q!TestStep)
    /\ \A o \in {0, 1} : WF_probesVars(part = "test" /\ Q!Deliver(o))
    /\ WF_probesVars(part = "test" /\ Q!CollectGarbage)
    /\ WF_probesVars(part = "test" /\ Q!Tick)

MCSpec == Start /\ [][Step]_all /\ MCFairness

-----------------------------------------------------------------------------
\* While the engine collects for a target, the target exists and carries the
\* finalizer whose removal unregisters it (ensureFinalizer, finalizeTarget); and
\* what the status of a target at rest says is still so: the watches and their
\* predicates miss no change that would make it untrue before the SyncPeriod
\* (clusterTargetFilterChanged and the map functions).
RestIsTrue ==
    /\ part = "target" => T!TypeOK /\ T!FinalizerGuards /\ T!RestIsTrue
    /\ part = "cluster target" => U!TypeOK /\ U!FinalizerGuards /\ U!RestIsTrue
    /\ part = "sink" => P!TypeOK
    /\ part = "test" => Q!TypeOK

\* A generation of a connection test gets one verdict, about the sink that it
\* names, from stale caches, repeated reconciles and restarts too
\* (updateTestStatus), except from the reconcile that patches the test's owner
\* reference and goes on with what the patch returns (ensureOwnerReference);
\* and a git probe reports an answer of the remote no older than the cache's
\* TTL (refCacheGet).
VerdictsHold ==
    [][/\ part = "sink" => P!Recent
       /\ part = "test" => Q!Recent /\ Q!VerdictKept]_all

\* The reconcilers settle.  Once changes and faults stop, every target collects
\* over exactly the namespaces its filter and scope leave, or not at all
\* (syncEngineTargets); a connection test is never left without a verdict for
\* ever (setProbeFailed); the status of a sink catches up with its spec
\* (probeSink), and writing it does not keep the reconciler busy, as long as the
\* sink asks for no preview and its probe does not fail with a new text every
\* time (setConnectionFailed, updateSinkStatus).
ReconcilersSettle ==
    /\ <>[]((part = "target" => T!Settled) /\ (part = "cluster target" => U!Settled))
    /\ []<>(part = "test" => Q!Ended)
    /\ []<>(part = "sink" => P!StatusIsCurrent(1))
    /\ <>[](part = "sink" => P!Undemanding) => <>[](part = "sink" => P!AtRest)
=============================================================================
