-------------------------- MODULE InventoryExport --------------------------
(***************************************************************************)
(* One KollectInventory and its sinks: the reconcile pass that reads the   *)
(* namespace's rows and exports them to every sink that is not debounced   *)
(* (internal/controller/kollectinventory_controller.go, per_sink_export.go)*)
(*                                                                         *)
(* A pass reads the inventory from a cache that may lag, the version, the  *)
(* fingerprint and the rows of a store that keeps changing, and the debounce *)
(* baselines, and writes the sinks and the status, each in a step of its   *)
(* own.  Passes of one inventory never overlap (the workqueue's promise).  *)
(*                                                                         *)
(* A payload is the set of its rows and a checksum is the payload, marked  *)
(* with what computed it: ItemsFingerprint or PartitionsChecksum.  Time is *)
(* abstracted to whether a baseline is fresh, that is, younger than the    *)
(* interval of its sink.                                                   *)
(***************************************************************************)
EXTENDS Integers, FiniteSets

CONSTANTS
    Rows,            \* rows the cluster calls for; a row that left never returns
    Volatile,        \* rows a target may drop and collect again (selectors, access)
    Sinks,           \* bound sinks
    SnapshotSets,    \* sets of sinks: which ones may be of the snapshot family
    ZeroInterval,    \* those with exportMinInterval 0s
    None,            \* no baseline, no cache entry, no record
    FailureClasses,  \* classes of export errors: "transient", "terminal"
    MaxMutations,    \* bound: changes of the store
    MaxEdits,        \* bound: edits of the inventory, its annotation or a sink
    MaxFailures,     \* bound: failed exports, blocked passes and lost status writes
    MaxRestarts      \* bound: restarts of the operator

ASSUME ExportAssumption ==
    /\ Volatile \subseteq Rows
    /\ SnapshotSets \subseteq SUBSET Sinks /\ ZeroInterval \subseteq Sinks
    /\ Sinks # {} /\ IsFiniteSet(Sinks)
    /\ FailureClasses \subseteq {"transient", "terminal"}
    /\ MaxMutations \in Nat /\ MaxEdits \in Nat
    /\ MaxFailures \in Nat /\ MaxRestarts \in Nat

VARIABLES
    store,      \* Store: the namespace's rows and their mutation version
    fpCache,    \* nsFingerprintCache entry of the namespace
    tracker,    \* sinkCoalesce: sink -> debounce baseline
    inv,        \* the inventory in the API server
    invCache,   \* the inventory as the manager's cache shows it
    sinkId,     \* sink -> its identity: family, UID and metadata.generation
    dest,       \* sink -> rows at the destination its spec names now
    pass,       \* the locals of the reconcile pass
    due,        \* the inventory is in the workqueue
    timer,      \* a RequeueAfter is pending
    edits, failures, restarts

counters == <<edits, failures, restarts>>
vars == <<store, fpCache, tracker, inv, invCache, sinkId, dest, pass, due, timer, counters>>

Payload == SUBSET Rows

\* ItemsFingerprint of the rows, or PartitionsChecksum of their parts: the two
\* digests never coincide.
Checksum == [by : {"items", "parts"}, rows : Payload]
ItemsFingerprint(rows) == [by |-> "items", rows |-> rows]
PartitionsChecksum(rows) == [by |-> "parts", rows |-> rows]

\* sinkCoalesceState, with the sink's part of the identity in id.
SinkIdentity == [snapshot : BOOLEAN, generation : Nat]
Baseline == [id : SinkIdentity, generation : Nat, requestedAt : {0, 1}, checksum : Checksum,
             fresh : BOOLEAN]

\* status.sinkExports[] entries and the aggregate Synced condition.
Entry == [checksum : Checksum \cup {None}, synced : {"none", "Exported", "Debounced", "Failed"}]
Status == [sinkExports : [Sinks -> Entry], synced : {"none", "true", "false"}]
Inventory == [generation : Nat, requestedAt : {0, 1}, status : Status]

NoStatus == [sinkExports |-> [s \in Sinks |-> [checksum |-> None, synced |-> "none"]],
             synced |-> "none"]
NewInventory == [generation |-> 1, requestedAt |-> 0, status |-> NoStatus]

\* perSinkExportOutcome and the locals of Reconcile and exportToSinks.
Pass == [pc : {"idle", "fingerprint", "preview", "items", "sinks", "export", "status"},
         read : Inventory, version : Nat, fingerprint : Checksum, items : Payload \cup {None},
         id : [Sinks -> SinkIdentity], jobs : SUBSET Sinks, exported : SUBSET Sinks,
         debounced : SUBSET Sinks, failed : [Sinks -> {"no", "transient", "terminal"}]]

IdlePass == [pc |-> "idle", read |-> NewInventory, version |-> 0,
             fingerprint |-> ItemsFingerprint({}), items |-> None,
             id |-> [s \in Sinks |-> [snapshot |-> FALSE, generation |-> 0]], jobs |-> {}, exported |-> {}, debounced |-> {},
             failed |-> [s \in Sinks |-> "no"]]

\* Every component has the shape of its Go type.
TypeOK ==
    /\ store \in [rows : Payload, gone : Payload, version : 0..MaxMutations]
    /\ fpCache \in [version : Nat, fingerprint : Checksum] \cup {None}
    /\ tracker \in [Sinks -> Baseline \cup {None}]
    /\ inv \in Inventory /\ invCache \in Inventory
    /\ sinkId \in [Sinks -> SinkIdentity]
    /\ dest \in [Sinks -> Payload]
    /\ pass \in Pass
    /\ due \in BOOLEAN /\ timer \in BOOLEAN
    /\ edits \in 0..MaxEdits /\ failures \in 0..MaxFailures /\ restarts \in 0..MaxRestarts

Init ==
    /\ store = [rows |-> {}, gone |-> {}, version |-> 0]
    /\ fpCache = None
    /\ tracker = [s \in Sinks |-> None]
    /\ inv = NewInventory /\ invCache = NewInventory
    /\ \E set \in SnapshotSets :
          sinkId = [s \in Sinks |-> [snapshot |-> s \in set, generation |-> 1]]
    /\ dest = [s \in Sinks |-> {}]
    /\ pass = IdlePass
    /\ due = TRUE /\ timer = FALSE
    /\ edits = 0 /\ failures = 0 /\ restarts = 0

-----------------------------------------------------------------------------
(* The rest of the operator, the users and the API server. *)

\* Content and version change together under the shard's lock.  The namespace
\* notification that follows is dropped when the subscriber's channel is full.
Mutate(rows, gone) ==
    /\ store.version < MaxMutations
    /\ store' = [rows |-> rows, gone |-> gone, version |-> store.version + 1]
    /\ due' \in {due, TRUE}
    /\ UNCHANGED <<fpCache, tracker, inv, invCache, sinkId, dest, pass, timer, counters>>

Upsert(r) == r \notin store.rows \cup store.gone /\ Mutate(store.rows \cup {r}, store.gone)

Remove(r) ==
    /\ r \in store.rows
    /\ Mutate(store.rows \ {r}, IF r \in Volatile THEN store.gone ELSE store.gone \cup {r})

\* Every edit of the inventory or of a bound sink enqueues the inventory.
Edit ==
    /\ edits < MaxEdits
    /\ edits' = edits + 1
    /\ due' = TRUE
    /\ UNCHANGED <<store, fpCache, tracker, invCache, pass, timer, failures, restarts>>

EditInventory ==
    /\ Edit
    /\ inv' = [inv EXCEPT !.generation = @ + 1]
    /\ UNCHANGED <<sinkId, dest>>

SetRequestedAt ==
    /\ Edit
    /\ inv' = [inv EXCEPT !.requestedAt = 1 - @]
    /\ UNCHANGED <<sinkId, dest>>

\* A sink's spec is edited, or the sink is replaced: another destination, empty.
EditSink(s) ==
    /\ Edit
    /\ sinkId' = [sinkId EXCEPT ![s].generation = @ + 1]
    /\ dest' = [dest EXCEPT ![s] = {}]
    /\ UNCHANGED inv

CacheCatchesUp ==
    /\ invCache # inv
    /\ invCache' = inv
    /\ due' = TRUE
    /\ UNCHANGED <<store, fpCache, tracker, inv, sinkId, dest, pass, timer, counters>>

IntervalElapses(s) ==
    /\ tracker[s] # None /\ tracker[s].fresh
    /\ tracker' = [tracker EXCEPT ![s].fresh = FALSE]
    /\ UNCHANGED <<store, fpCache, inv, invCache, sinkId, dest, pass, due, timer, counters>>

RequeueAfter ==
    /\ timer
    /\ timer' = FALSE /\ due' = TRUE
    /\ UNCHANGED <<store, fpCache, tracker, inv, invCache, sinkId, dest, pass, counters>>

\* The operator restarts: what it held in memory is gone, the rows it collected
\* included, and the initial list enqueues every inventory.
Restart ==
    /\ restarts < MaxRestarts
    /\ restarts' = restarts + 1
    /\ store' = [store EXCEPT !.rows = {}, !.version = 0]
    /\ fpCache' = None
    /\ tracker' = [s \in Sinks |-> None]
    /\ pass' = IdlePass
    /\ invCache' = inv
    /\ due' = TRUE /\ timer' = FALSE
    /\ UNCHANGED <<inv, sinkId, dest, edits, failures>>

-----------------------------------------------------------------------------
(* The debounce tracker. *)

shouldSkip(s, id, read, checksum) ==
    /\ tracker[s] # None
    /\ tracker[s].generation = read.generation
    /\ tracker[s].id = id
    /\ tracker[s].checksum = checksum
    /\ tracker[s].requestedAt = read.requestedAt
    /\ s \in ZeroInterval \/ tracker[s].fresh

\* A skip under a 0s interval counts as activity of the baseline.
Skipped(tr, S) ==
    [s \in Sinks |-> IF s \in S \cap ZeroInterval THEN [tr[s] EXCEPT !.fresh = TRUE] ELSE tr[s]]

\* record drops any baselines that have been idle for the TTL, then sets its own.
record(s, baseline) ==
    \E idle \in SUBSET {x \in Sinks \ {s} : tracker[x] # None /\ ~tracker[x].fresh} :
        tracker' = [x \in Sinks |-> IF x = s THEN baseline
                                    ELSE IF x \in idle THEN None ELSE tracker[x]]

forget(tr, S) == [s \in Sinks |-> IF s \in S THEN None ELSE tr[s]]

-----------------------------------------------------------------------------
(* The reconcile pass. *)

Begin ==
    /\ due /\ pass.pc = "idle"
    /\ due' = FALSE /\ timer' = FALSE
    /\ pass' = [IdlePass EXCEPT !.pc = "fingerprint", !.read = invCache,
                                !.version = store.version]
    /\ UNCHANGED <<store, fpCache, tracker, inv, invCache, sinkId, dest, counters>>

\* Update of the status subresource: refused unless the object is still the one read
\* (its content stands for its resourceVersion; a refusal of the same content looks like a lost write).
\* A write whose answer is lost may have been applied.
StatusWrite(status, lost) ==
    /\ lost => failures < MaxFailures
    /\ failures' = IF lost THEN failures + 1 ELSE failures
    /\ \/ pass.read = inv /\ inv' = [inv EXCEPT !.status = status]
       \/ (pass.read # inv \/ lost) /\ UNCHANGED inv

\* setInventoryDegraded leaves the entries the last export pass wrote.
Degraded(st) == [st EXCEPT !.synced = "false"]

\* Suspended, denied by the scope, a sink missing or unreachable, or the payload too
\* large without a spill sink: the pass stops before it exports and retries later.
Blocked ==
    /\ pass.pc \in {"fingerprint", "items"} /\ failures < MaxFailures
    /\ StatusWrite(Degraded(pass.read.status), TRUE)
    /\ pass' = IdlePass
    /\ timer' = TRUE
    /\ UNCHANGED <<store, fpCache, tracker, invCache, sinkId, dest, due, edits, restarts>>

\* getOrCompute: on a hit the rows are not read here.
getOrCompute ==
    LET hit == fpCache # None /\ fpCache.version = pass.version
        fp == ItemsFingerprint(store.rows)
    IN
    /\ pass.pc = "fingerprint"
    /\ \/ /\ hit
          /\ pass' = [pass EXCEPT !.pc = "preview", !.fingerprint = fpCache.fingerprint]
          /\ UNCHANGED fpCache
       \/ /\ ~hit
          /\ pass' = [pass EXCEPT !.pc = "preview", !.fingerprint = fp, !.items = store.rows]
          /\ fpCache' = [version |-> pass.version, fingerprint |-> fp]
    /\ UNCHANGED <<store, tracker, inv, invCache, sinkId, dest, due, timer, counters>>

Debounceable == {s \in Sinks : shouldSkip(s, sinkId[s], pass.read, pass.fingerprint)}

\* Every sink is debounced: the status is all that is left to write.
previewAllSinksDebounced ==
    /\ pass.pc = "preview"
    /\ Debounceable = Sinks
    /\ pass' = [pass EXCEPT !.pc = "status", !.debounced = Sinks, !.id = sinkId]
    /\ tracker' = Skipped(tracker, Sinks)
    /\ UNCHANGED <<store, fpCache, inv, invCache, sinkId, dest, due, timer, counters>>

\* Some sink is not.  The loop stops at the first such sink it meets.
PreviewFails ==
    /\ pass.pc = "preview"
    /\ Debounceable # Sinks
    /\ \E seen \in SUBSET Debounceable : tracker' = Skipped(tracker, seen)
    /\ pass' = [pass EXCEPT !.pc = "items"]
    /\ UNCHANGED <<store, fpCache, inv, invCache, sinkId, dest, due, timer, counters>>

\* No rows are a nil slice, the same as rows not read: they are read again.
SnapshotNamespace ==
    /\ pass.pc = "items"
    /\ pass' = [pass EXCEPT !.pc = "sinks",
                            !.items = IF @ \in {None, {}} THEN store.rows ELSE @]
    /\ UNCHANGED <<store, fpCache, tracker, inv, invCache, sinkId, dest, due, timer, counters>>

\* Snapshot sinks compare the digest of the parts they would write, the others
\* the fingerprint of the namespace.
Snapshots == {s \in Sinks : sinkId[s].snapshot}
sinkChecksum(s) == IF s \in Snapshots THEN PartitionsChecksum(pass.items) ELSE pass.fingerprint

\* The loop of exportToSinks over the bindings.
exportToSinks ==
    LET skip == {s \in Sinks : shouldSkip(s, sinkId[s], pass.read, sinkChecksum(s))} IN
    /\ pass.pc = "sinks"
    /\ pass' = [pass EXCEPT !.pc = IF skip = Sinks THEN "status" ELSE "export",
                            !.id = sinkId, !.debounced = skip, !.jobs = Sinks \ skip]
    /\ tracker' = Skipped(tracker, skip)
    /\ UNCHANGED <<store, fpCache, inv, invCache, sinkId, dest, due, timer, counters>>

Finish(p, s) == [p EXCEPT !.jobs = @ \ {s}, !.pc = IF p.jobs = {s} THEN "status" ELSE @]

\* An export that began before the sink was edited goes to the former destination.
Written(s) == [dest EXCEPT ![s] = IF pass.id[s] = sinkId[s] THEN pass.items ELSE @]

RunExportEnvelope(s) ==
    /\ pass.pc = "export" /\ s \in pass.jobs
    /\ dest' = Written(s)
    /\ record(s, [id |-> pass.id[s], generation |-> pass.read.generation,
                  requestedAt |-> pass.read.requestedAt, checksum |-> sinkChecksum(s),
                  fresh |-> TRUE])
    /\ pass' = [Finish(pass, s) EXCEPT !.exported = @ \cup {s}]
    /\ UNCHANGED <<store, fpCache, inv, invCache, sinkId, due, timer, counters>>

\* Mutant: a failed export leaves the debounce baseline alone.
failSinkExport_KeepsBaseline(s, class) ==
    /\ pass.pc = "export" /\ s \in pass.jobs
    /\ failures < MaxFailures /\ failures' = failures + 1
    /\ dest' \in {dest, Written(s)}
    /\ pass' = [Finish(pass, s) EXCEPT !.failed[s] = class]
    /\ UNCHANGED <<store, fpCache, tracker, inv, invCache, sinkId, due, timer, edits, restarts>>

\* Mutant: the class of the error is lost.
failSinkExport_Unclassified(s, class) ==
    /\ pass.pc = "export" /\ s \in pass.jobs
    /\ failures < MaxFailures /\ failures' = failures + 1
    /\ dest' \in {dest, Written(s)}
    /\ tracker' = forget(tracker, {s})
    /\ pass' = [Finish(pass, s) EXCEPT !.failed[s] = "unknown"]
    /\ UNCHANGED <<store, fpCache, inv, invCache, sinkId, due, timer, edits, restarts>>

\* The export fails, before or after it changed the destination.
failSinkExport(s, class) ==
    /\ pass.pc = "export" /\ s \in pass.jobs
    /\ failures < MaxFailures /\ failures' = failures + 1
    /\ dest' \in {dest, Written(s)}
    /\ tracker' = forget(tracker, {s})
    /\ pass' = [Finish(pass, s) EXCEPT !.failed[s] = class]
    /\ UNCHANGED <<store, fpCache, inv, invCache, sinkId, due, timer, edits, restarts>>

Failed == {s \in Sinks : pass.failed[s] # "no"}

isTotalExportFailure == Failed # {} /\ pass.exported = {} /\ pass.debounced = {}

\* aggregateExportErrs: terminal only if every failure is.
IsTerminal == \A s \in Failed : pass.failed[s] = "terminal"

\* carryOverSinkExport: only a successful export replaces the record.
SinkExports ==
    [s \in Sinks |->
        [checksum |-> IF s \in pass.exported THEN sinkChecksum(s)
                      ELSE pass.read.status.sinkExports[s].checksum,
         synced |-> IF s \in pass.exported THEN "Exported"
                    ELSE IF s \in pass.debounced THEN "Debounced" ELSE "Failed"]]

\* Mutant: the aggregate counts the sinks of this pass that exported.
aggregateInventorySync_Any ==
    IF pass.exported # {} \/ Failed = {} THEN "true" ELSE "false"

aggregateInventorySync == IF Failed = {} THEN "true" ELSE "false"

\* Mutant: baselines outlive the status write that should have recorded them.
forgetUnpersistedExports_Not(written) == tracker

forgetUnpersistedExports(written) ==
    IF written THEN tracker ELSE forget(tracker, pass.exported)

\* Mutant: a pass that succeeded is not requeued.
updateStatus_NoRequeue ==
    \E lost \in BOOLEAN :
        /\ pass.pc = "status"
        /\ StatusWrite([sinkExports |-> SinkExports, synced |-> aggregateInventorySync], lost)
        /\ tracker' = forgetUnpersistedExports(pass.read = inv /\ ~lost)
        /\ timer' = (lost \/ pass.read # inv \/ Failed # {})
        /\ pass' = IdlePass
        /\ UNCHANGED <<store, fpCache, invCache, sinkId, dest, due, edits, restarts>>

\* updateStatus, or setInventoryDegraded on a total failure, which is not retried
\* if it is terminal, not even on a conflict; the edit behind that enqueues.
updateStatus ==
    \E lost \in BOOLEAN :
        /\ pass.pc = "status"
        /\ StatusWrite([sinkExports |-> SinkExports, synced |-> aggregateInventorySync], lost)
        /\ tracker' = forgetUnpersistedExports(pass.read = inv /\ ~lost)
        /\ timer' = ~(isTotalExportFailure /\ IsTerminal /\ ~lost)
        /\ pass' = IdlePass
        /\ UNCHANGED <<store, fpCache, invCache, sinkId, dest, due, edits, restarts>>

Reconcile ==
    \/ Begin \/ getOrCompute \/ previewAllSinksDebounced \/ PreviewFails
    \/ SnapshotNamespace \/ exportToSinks
    \/ \E s \in Sinks : RunExportEnvelope(s)
    \/ updateStatus

Next ==
    \/ \E r \in Rows : Upsert(r) \/ Remove(r)
    \/ EditInventory \/ SetRequestedAt \/ \E s \in Sinks : EditSink(s)
    \/ CacheCatchesUp \/ \E s \in Sinks : IntervalElapses(s)
    \/ RequeueAfter \/ Restart
    \/ Blocked \/ \E s \in Sinks, class \in FailureClasses : failSinkExport(s, class)
    \/ Reconcile

Spec == Init /\ [][Next]_vars

\* A pass that began goes on; the cache catches up, timers fire and time passes.
FairSpec ==
    /\ Spec
    /\ WF_vars(Reconcile) /\ WF_vars(CacheCatchesUp) /\ WF_vars(RequeueAfter)
    /\ \A s \in Sinks : WF_vars(IntervalElapses(s))

-----------------------------------------------------------------------------
(* Properties. *)

\* The debounce baseline of a snapshot sink tells what its destination holds: as
\* long as the baseline is about the sink as it is now, skipping it because the
\* digest is the same is right (SDC-4; shouldSkip and record).
SnapshotBaselineHolds ==
    \A s \in Snapshots : tracker[s] # None /\ tracker[s].id = sinkId[s]
                            => dest[s] = tracker[s].checksum.rows

\* A snapshot sink that is reported as debounced, "payload unchanged since the
\* last export", holds the payload of the pass (SDC-4).
SnapshotDebounceIsTrue ==
    pass.pc = "status" => \A s \in pass.debounced \cap Snapshots :
        pass.id[s] = sinkId[s] => dest[s] = pass.items

\* A debounce never rests on an export the persisted status does not record:
\* between passes every baseline is the one of the entry (SDC-5.4).
BaselineIsRecorded ==
    pass.pc = "idle" =>
        \A s \in Sinks : tracker[s] # None
                            => inv.status.sinkExports[s].checksum = tracker[s].checksum

\* The aggregate Synced is True only while no sink's entry says it failed, also
\* after blocked passes, lost writes and conflicts (SDC-2, SDC-3).
AggregateIsHonest ==
    inv.status.synced = "true" =>
        \A s \in Sinks : inv.status.sinkExports[s].synced \in {"Exported", "Debounced"}

\* Only a successful export of the pass replaces a sink's export record (SDC-5.3).
RecordKept ==
    [][\A s \in Sinks : inv'.status.sinkExports[s].checksum # inv.status.sinkExports[s].checksum
                            => s \in pass.exported]_vars

\* Once the rows, the specs and the sinks settle, every sink ends up with the
\* rows of the store, though notifications are lost, status writes conflict and
\* exports fail on the way.  A database or event sink without an interval is left
\* out: what it records is the digest of an earlier read than the rows it exports.
SinksConverge ==
    <>[](\A s \in Snapshots \cup (Sinks \ ZeroInterval) : dest[s] = store.rows)

\* A restart loses only what was in memory: no export drops a row that the last
\* recorded one had and the cluster still has (NFR-REL-5).
RestartKeepsExports ==
    pass.pc = "status" => \A s \in pass.exported :
        LET last == pass.read.status.sinkExports[s].checksum IN
        pass.id[s] = sinkId[s] /\ last # None
            => last.rows \ (store.gone \cup Volatile) \subseteq dest[s]
=============================================================================
