-------------------------- MODULE ClusterInventory --------------------------
(***************************************************************************)
(* The KollectClusterInventory reconciler: it rolls the rows of the        *)
(* selected KollectClusterTargets up, per namespace and then over the      *)
(* cluster, and exports the roll-up to every bound sink                    *)
(* (internal/controller/kollectclusterinventory_controller.go,             *)
(* cluster_scope_enforce.go, export_spill.go, internal/aggregate).         *)
(*                                                                         *)
(* A reconcile reads the API and the engine at several points; each read   *)
(* is a step of its own.  Namespaces and Secrets are not watched, and the  *)
(* store does not notify this controller, so what it sees of them depends  *)
(* on the delay each return asks for (timer).                              *)
(***************************************************************************)
EXTENDS Naturals, Sequences, FiniteSets, SequencesExt

CONSTANTS
    NS,            \* namespaces, numbered in name order
    Targets,       \* cluster targets, numbered in list order
    TargetSel,     \* target -> namespaces its selector matches
    Uids,          \* resource UIDs within a namespace
    GlobalUids,    \* those of them that belong to cluster-scoped resources
    Sinks,         \* the sinks a spec may bind
    ObjectStores,  \* those of them that are S3 or GCS snapshot sinks
    Specs,         \* the inventory specs an edit may write
    Scopes,        \* the KollectClusterScopes: [nsOK, allowed], {} allows every sink
    SpillRows,     \* above this size a payload has to spill to an object store
    CapRows,       \* above this size it is not exported
    Absent,
    MaxEdits,      \* bound on API, namespace and store changes, failed calls included
    MaxFaults      \* bound on failed calls

VARIABLES
    inv,      \* the inventory's spec, with its generation
    young,    \* it is within clusterTargetBootstrapWindow
    labels,   \* namespaces whose labels the inventory's selector matches
    ready,    \* target -> "absent" | "ready" | "degraded"
    store,    \* <<namespace, target, uid>>: rows of registered targets
    scope,    \* the KollectClusterScope in force
    sick,     \* sink -> "ok" | "gone" | "terminal": how exports end
    tracker,  \* sink -> export baseline | Absent
    dest,     \* sink -> rows delivered
    status,   \* the written status
    due, timer,
    rec,      \* the reconcile in flight | Absent
    edits, faults

cluster == <<inv, young, labels, ready, store, scope, sick>>
vars == <<cluster, tracker, dest, status, due, timer, rec, edits, faults>>

Rows == NS \X Targets \X Uids

\* Type correctness.
TypeOK ==
    /\ labels \subseteq NS /\ store \subseteq Rows
    /\ ready \in [Targets -> {"absent", "ready", "degraded"}]
    /\ sick \in [Sinks -> {"ok", "gone", "terminal"}]
    /\ \A s \in Sinks : dest[s] \subseteq Rows
    /\ status.phase \in {"none", "Ready", "Partial", "Degraded"}
    /\ scope \in Scopes
    /\ {young, due, timer} \subseteq BOOLEAN

-----------------------------------------------------------------------------
(* Selection *)

\* selectedInventoryNamespaces: explicit names narrow the label selector.
selectedInventoryNamespaces(spec) ==
    {n \in labels : spec.explicit = {} \/ n \in spec.explicit}

\* targetIncluded: no reference includes every target.
targetIncluded(spec, t) == spec.refs = {} \/ t \in spec.refs

\* Mutant: a target matches whatever namespaces it selects.
clusterTargetMatchesInventoryNS_Any(t, nss) == TRUE

clusterTargetMatchesInventoryNS(t, nss) == TargetSel[t] \cap nss # {}

selectedClusterTargets(spec, nss) ==
    {t \in Targets : /\ ready[t] # "absent"
                     /\ targetIncluded(spec, t)
                     /\ clusterTargetMatchesInventoryNS(t, nss)}

clusterTargetReady(t) == ready[t] = "ready"

\* clusterInventorySinkBindings: the refs of the three families, in order.
clusterInventorySinkBindings(spec) == spec.bindings

\* ValidateClusterInventoryClusterScopeSinkRefs and the namespaces of the refs.
ValidateClusterInventoryClusterScopeSinkRefs(spec) ==
    scope.allowed = {} \/ Range(clusterInventorySinkBindings(spec)) \subseteq scope.allowed

ScopeAllows(spec) == scope.nsOK /\ ValidateClusterInventoryClusterScopeSinkRefs(spec)

(* The roll-up *)

\* Engine.NamespacesForClusterTarget; an empty selection is no
\* filter.
RollupNamespaces(t, nss) ==
    {n \in NS : /\ \E u \in Uids : <<n, t, u>> \in store
                /\ nss = {} \/ n \in nss}

\* The rows of the targets, as a set; their places are what merging reads.
RowsOf(n, tgts, nss) == {r \in store : r[1] = n /\ r[2] \in tgts /\ n \in RollupNamespaces(r[2], nss)}

ResourceKeyFromItem(row) == IF row[3] \in GlobalUids THEN <<0, row[3]>> ELSE <<row[1], row[3]>>

\* A row is later than another in the order of the given columns (1 the
\* namespace, 2 the target).
Later(q, r, order) ==
    \E k \in DOMAIN order : /\ q[order[k]] > r[order[k]]
                            /\ \A j \in 1..(k - 1) : q[order[j]] = r[order[j]]

\* MergeRows: of the rows of one resource the last in the given order stays.
MergeRows(items, byUid, order) ==
    {r \in items : byUid => ~\E q \in items : /\ ResourceKeyFromItem(q) = ResourceKeyFromItem(r)
                                              /\ Later(q, r, order)}

composeNamespaceRollup(tgts, nss, byUid) ==
    MergeRows(UNION {MergeRows(RowsOf(n, tgts, nss), byUid, <<2>>) : n \in NS},
              byUid, <<1, 2>>)

\* The targets that are not ready.  (The count of rows beside them is of use
\* only to a reconciler without a store, which the operator never builds.)
rollupCounts(tgts) == {t \in tgts : ~clusterTargetReady(t)}

\* AssessSpill: the payload is measured by its rows.
AssessSpill(size) == [cap |-> size > CapRows, spill |-> size > SpillRows]

hasObjectStoreSink(spec) == Range(clusterInventorySinkBindings(spec)) \cap ObjectStores # {}

\* assessExportSpill: whether the inventory degrades instead of exporting.
assessExportSpill(spec, rows) ==
    LET a == AssessSpill(Cardinality(rows))
    IN  a.cap \/ (a.spill /\ ~hasObjectStoreSink(spec))

-----------------------------------------------------------------------------
(* The cluster around the reconciler *)

Init ==
    /\ inv \in {[s EXCEPT !.gen = 1] : s \in Specs}
    /\ young \in BOOLEAN
    /\ labels = NS
    /\ ready = [t \in Targets |-> "ready"]
    /\ store \in {{}, {r \in Rows : r[1] \in TargetSel[r[2]]}}
    /\ scope = [nsOK |-> TRUE, allowed |-> {}]
    /\ sick = [s \in Sinks |-> "ok"]
    /\ tracker = [s \in Sinks |-> Absent]
    /\ dest = [s \in Sinks |-> {}]
    /\ status = [phase |-> "none", count |-> 0]
    /\ due = TRUE /\ timer = FALSE
    /\ rec = Absent
    /\ edits = 0 /\ faults = 0

Edit == edits + faults < MaxEdits /\ edits' = edits + 1
Fault == faults < MaxFaults /\ edits + faults < MaxEdits /\ faults' = faults + 1

\* A change of a namespace, a scope or the store wakes nobody up.
Unwatched ==
    /\ Edit
    /\ \/ \E n \in NS :
             /\ labels' = IF n \in labels THEN labels \ {n} ELSE labels \cup {n}
             /\ UNCHANGED <<store, scope, young>>
       \/ \E r \in Rows :
             /\ r[1] \in TargetSel[r[2]] /\ ready[r[2]] # "absent"
             /\ store' = IF r \in store THEN store \ {r} ELSE store \cup {r}
             /\ UNCHANGED <<labels, scope, young>>
       \/ \E p \in Scopes \ {scope} : scope' = p /\ UNCHANGED <<labels, store, young>>
       \/ young /\ young' = FALSE /\ UNCHANGED <<labels, store, scope>>
    /\ UNCHANGED <<inv, ready, sick, tracker, dest, status, due, timer, rec, faults>>

EditInventory ==
    /\ Edit
    /\ \E s \in Specs : inv' = [s EXCEPT !.gen = inv.gen + 1]
    /\ due' = TRUE
    /\ UNCHANGED <<young, labels, ready, store, scope, sick, tracker, dest, status, timer, rec, faults>>

\* The engine drops the rows of a target that is deleted; every cluster
\* inventory is enqueued.
mapClusterTargetToInventories ==
    /\ Edit
    /\ \E t \in Targets, r \in {"absent", "ready", "degraded"} :
          /\ r # ready[t]
          /\ ready' = [ready EXCEPT ![t] = r]
          /\ store' = IF r = "absent" THEN {row \in store : row[2] # t} ELSE store
    /\ due' = TRUE
    /\ UNCHANGED <<inv, young, labels, scope, sick, tracker, dest, status, timer, rec, faults>>

\* indexClusterInventorySinkBindings: the sinks whose events find the inventory.
indexClusterInventorySinkBindings(spec) == Range(clusterInventorySinkBindings(spec))

\* A sink is edited, deleted or re-created: the identity of its baseline is no
\* longer the sink's.
mapClusterFamilySinkToInventories ==
    /\ Edit
    /\ \E s \in Sinks, h \in {"ok", "gone", "terminal"} :
          /\ h # sick[s]
          /\ sick' = [sick EXCEPT ![s] = h]
          /\ tracker' = [tracker EXCEPT ![s] = IF @ = Absent THEN @ ELSE [@ EXCEPT !.same = FALSE]]
          /\ due' = (due \/ s \in indexClusterInventorySinkBindings(inv))
    /\ UNCHANGED <<inv, young, labels, ready, store, scope, dest, status, timer, rec, faults>>

\* The export interval of the baseline elapses.
IntervalElapses ==
    /\ \E s \in Sinks :
          /\ tracker[s] # Absent /\ tracker[s].fresh
          /\ tracker' = [tracker EXCEPT ![s].fresh = FALSE]
    /\ UNCHANGED <<cluster, dest, status, due, timer, rec, edits, faults>>

-----------------------------------------------------------------------------
(* Reconcile *)

Start ==
    /\ rec = Absent
    /\ \/ due /\ due' = FALSE /\ UNCHANGED timer
       \/ timer /\ timer' = FALSE /\ UNCHANGED due
    /\ rec' = [pc |-> "namespaces", spec |-> inv, nss |-> {}, tgts |-> {}, rows |-> {},
               todo |-> clusterInventorySinkBindings(inv), ok |-> {}, skipped |-> {}, failed |-> {}, terminal |-> FALSE,
               allowed |-> FALSE]
    /\ UNCHANGED <<cluster, tracker, dest, status, edits, faults>>

\* RequeueAfterForZeroInterval: every delay is positive.
RequeueAfterForZeroInterval(spec) == TRUE

\* A Result asks for a later reconcile, or (zero) for none.
Return(asks) == rec' = Absent /\ timer' = (timer \/ asks)

\* The API server refuses the status: Reconcile returns at once and retries.
StatusRefused ==
    /\ Fault
    /\ Return(TRUE)
    /\ UNCHANGED status

setDegraded(asks) ==
    \/ /\ status' = [phase |-> "Degraded", count |-> status.count]
       /\ Return(asks)
       /\ UNCHANGED faults
    \/ StatusRefused

\* The list fails; the error requeues.
ReadFails ==
    /\ rec # Absent /\ rec.pc \in {"namespaces", "targets", "scope"}
    /\ Fault
    /\ Return(TRUE)
    /\ UNCHANGED <<cluster, tracker, dest, status, due, edits>>

ReadNamespaces ==
    /\ rec # Absent /\ rec.pc = "namespaces"
    /\ \/ /\ rec.spec.suspend
          /\ setDegraded(RequeueAfterForZeroInterval(rec.spec))
       \/ /\ ~rec.spec.suspend
          /\ rec' = [rec EXCEPT !.pc = "targets", !.nss = selectedInventoryNamespaces(rec.spec)]
          /\ UNCHANGED <<timer, status, faults>>
    /\ UNCHANGED <<cluster, tracker, dest, due, edits>>

ReadTargets ==
    /\ rec # Absent /\ rec.pc = "targets"
    /\ LET tgts == selectedClusterTargets(rec.spec, rec.nss)
       IN  \/ /\ tgts = {} /\ young
              /\ Return(TRUE)
              /\ UNCHANGED <<status, faults>>
           \/ /\ (tgts = {} /\ ~young) \/ rollupCounts(tgts) # {}
              /\ setDegraded(RequeueAfterForZeroInterval(rec.spec))
           \/ /\ tgts # {} /\ rollupCounts(tgts) = {}
              /\ rec' = [rec EXCEPT !.pc = "scope", !.tgts = tgts]
              /\ UNCHANGED <<timer, status, faults>>
    /\ UNCHANGED <<cluster, tracker, dest, due, edits>>

\* The reconcile stops when the result that
\* setDegraded returned is not the zero Result.
enforceClusterScopePolicy ==
    /\ rec # Absent /\ rec.pc = "scope"
    /\ \/ /\ ScopeAllows(rec.spec)
          /\ rec' = [rec EXCEPT !.pc = "sinks", !.allowed = TRUE]
          /\ UNCHANGED <<timer, status, faults>>
       \/ /\ ~ScopeAllows(rec.spec) /\ RequeueAfterForZeroInterval(rec.spec)
          /\ setDegraded(TRUE)
       \/ /\ ~ScopeAllows(rec.spec) /\ ~RequeueAfterForZeroInterval(rec.spec)
          /\ status' = [phase |-> "Degraded", count |-> status.count]
          /\ rec' = [rec EXCEPT !.pc = "sinks"]
          /\ UNCHANGED <<timer, faults>>
    /\ UNCHANGED <<cluster, tracker, dest, due, edits>>

checkClusterInventorySinksReachable(spec) ==
    \A s \in Range(clusterInventorySinkBindings(spec)) : sick[s] # "gone"

CheckSinks ==
    /\ rec # Absent /\ rec.pc = "sinks"
    /\ \/ /\ ~checkClusterInventorySinksReachable(rec.spec)
          /\ setDegraded(RequeueAfterForZeroInterval(rec.spec))
       \/ /\ checkClusterInventorySinksReachable(rec.spec)
          /\ rec' = [rec EXCEPT !.pc = "compose"]
          /\ UNCHANGED <<timer, status, faults>>
    /\ UNCHANGED <<cluster, tracker, dest, due, edits>>

Compose ==
    /\ rec # Absent /\ rec.pc = "compose"
    /\ LET rows == composeNamespaceRollup(rec.tgts, rec.nss, rec.spec.byUid)
       IN  \/ /\ assessExportSpill(rec.spec, rows)
              /\ setDegraded(RequeueAfterForZeroInterval(rec.spec))
           \/ /\ ~assessExportSpill(rec.spec, rows)
              /\ rec' = [rec EXCEPT !.pc = "export", !.rows = rows]
              /\ UNCHANGED <<timer, status, faults>>
    /\ UNCHANGED <<cluster, tracker, dest, due, edits>>

\* perSinkCoalesceTracker.shouldSkip
shouldSkip(s) ==
    /\ tracker[s] # Absent
    /\ tracker[s].gen = rec.spec.gen /\ tracker[s].same /\ tracker[s].sum = rec.rows
    /\ rec.spec.interval = 0 \/ tracker[s].fresh

Next1(field, s) == [rec EXCEPT ![field] = @ \cup {s}, !.todo = Tail(@)]

\* exportClusterToSinks, one binding.
ExportSink ==
    /\ rec # Absent /\ rec.pc = "export" /\ rec.todo # <<>>
    /\ LET s == Head(rec.todo)
       IN  \/ /\ sick[s] # "gone" /\ shouldSkip(s)
              /\ rec' = Next1("skipped", s)
              /\ UNCHANGED <<dest, tracker, faults>>
           \/ /\ sick[s] = "ok" /\ ~shouldSkip(s)
              /\ dest' = [dest EXCEPT ![s] = rec.rows]
              /\ tracker' = [tracker EXCEPT ![s] =
                                [gen |-> rec.spec.gen, sum |-> rec.rows, same |-> TRUE, fresh |-> TRUE]]
              /\ rec' = Next1("ok", s)
              /\ UNCHANGED faults
           \/ /\ sick[s] # "ok"
              /\ sick[s] = "gone" \/ ~shouldSkip(s)
              /\ rec' = [Next1("failed", s) EXCEPT !.terminal = (rec.failed = {} \/ rec.terminal)]
              /\ tracker' = [tracker EXCEPT ![s] = Absent]
              /\ UNCHANGED <<dest, faults>>
           \/ /\ Fault
              /\ ~shouldSkip(s)
              /\ rec' = [Next1("failed", s) EXCEPT !.terminal = (rec.failed # {} /\ rec.terminal)]
              /\ tracker' = [tracker EXCEPT ![s] = Absent]
              /\ UNCHANGED dest
    /\ UNCHANGED <<cluster, status, due, timer, edits>>

\* mergeRequeueAfter over the bindings: an exported one asks for its interval or
\* the watchdog, a debounced one for its nextDue, a failed one for nothing of
\* its own.
mergeRequeueAfter ==
    \/ rec.spec.interval > 0
    \/ rec.ok \cup rec.skipped # {}

\* updateStatus: the phase the conditions tell.
updateStatus ==
    status' = [phase |-> IF rec.failed = {} THEN "Ready"
                         ELSE IF rec.ok # {} THEN "Partial" ELSE "Degraded",
               count |-> Cardinality(rec.rows)]

isTotalExportFailure == rec.failed # {} /\ rec.ok \cup rec.skipped = {}

\* reconcileRollupExport after the loop; a status the API server refuses takes
\* the baselines of this pass with it.
Finish ==
    /\ rec # Absent /\ rec.pc = "export" /\ rec.todo = <<>>
    /\ \/ /\ isTotalExportFailure
          /\ setDegraded(~rec.terminal)
          /\ UNCHANGED tracker
       \/ /\ ~isTotalExportFailure
          /\ updateStatus
          /\ Return(mergeRequeueAfter)
          /\ UNCHANGED <<tracker, faults>>
       \/ /\ ~isTotalExportFailure
          /\ StatusRefused
          /\ tracker' = [s \in Sinks |-> IF s \in rec.ok THEN Absent ELSE tracker[s]]
    /\ UNCHANGED <<cluster, dest, due, edits>>

Steps ==
    \/ ReadNamespaces \/ ReadTargets \/ enforceClusterScopePolicy \/ CheckSinks
    \/ Compose \/ ExportSink \/ Finish

Next ==
    \/ Unwatched \/ EditInventory \/ IntervalElapses
    \/ mapClusterTargetToInventories \/ mapClusterFamilySinkToInventories
    \/ Start \/ Steps \/ ReadFails

Spec == Init /\ [][Next]_vars

Fairness == WF_vars(Start) /\ WF_vars(Steps)

FairSpec == Spec /\ Fairness

-----------------------------------------------------------------------------
(* Properties *)

\* The rows an export delivers come from namespaces the pass selected, and
\* with dedupe byResourceUID no resource is delivered twice, a cluster-scoped
\* one seen from two namespaces included.  An empty selection is "no filter"
\* for composeNamespaceRollup, so this rests on the target selection.
OfTheSelection ==
    \A s \in Sinks : dest'[s] # dest[s] =>
       /\ \A r \in dest'[s] : r[1] \in rec.nss
       /\ rec.spec.byUid =>
            \A q, r \in dest'[s] : ResourceKeyFromItem(q) = ResourceKeyFromItem(r) => q = r
RollupIsOfTheSelection == [][OfTheSelection]_vars

\* A cluster inventory whose sink namespace a KollectClusterScope denies
\* exports nothing in the pass that read the denial, whatever its interval:
\* Reconcile stops on a Result that is not zero.
NotDenied == \A s \in Sinks : dest'[s] # dest[s] => rec.allowed
DeniedScopeStopsExport == [][NotDenied]_vars

\* A sink that the pass counts as up to date, exported or debounced, holds the
\* roll-up whose size the pass then writes: the debounce baselines that earlier
\* passes left are true of what the sinks hold (shouldSkip).
UpToDateIsDelivered ==
    rec # Absent => \A s \in rec.ok \cup rec.skipped : dest[s] = rec.rows

Wanted ==
    LET nss == selectedInventoryNamespaces(inv)
        tgts == selectedClusterTargets(inv, nss)
    IN  composeNamespaceRollup(tgts, nss, inv.byUid)

Unblocked ==
    LET tgts == selectedClusterTargets(inv, selectedInventoryNamespaces(inv))
    IN  /\ ~inv.suspend /\ ScopeAllows(inv) /\ ~assessExportSpill(inv, Wanted)
        /\ tgts # {} /\ \A t \in tgts : clusterTargetReady(t)
        /\ \A s \in Range(inv.bindings) : sick[s] = "ok"

\* Once the cluster stops changing, every sink of an inventory that nothing
\* blocks holds the current roll-up, although namespaces, scopes and rows
\* change without a watch event.
RolledUp == Unblocked => \A s \in Range(inv.bindings) : dest[s] = Wanted
RollupConverges == <>[]RolledUp
=============================================================================
