------------------------------ MODULE Cleanup ------------------------------
(***************************************************************************)
(* What happens to exported data when an inventory is deleted              *)
(* (internal/controller/sink_cleanup.go, inventory_finalizer.go,           *)
(* cluster_inventory_finalizer.go, internal/sink/cleanup.go).              *)
(*                                                                         *)
(* The inventories of the model render ONE export identity: a              *)
(* KollectClusterInventory X and the KollectInventory X of namespace       *)
(* "cluster".  An object of a destination is a path <<template,            *)
(* generation, part>> (part 0 is the unsplit document) and holds the       *)
(* inventory that wrote it last.  A cleanup pass walks the bindings; each  *)
(* binding takes two steps (load the sink and look for the other           *)
(* inventory, then contact the backend), because the API objects may       *)
(* change in between.                                                      *)
(***************************************************************************)
EXTENDS Naturals, Sequences, FiniteSets, SequencesExt

CONSTANTS
    Inventories,   \* the inventories that may render the shared identity
    Cluster,       \* the KollectClusterInventories among them
    AllSinks,      \* the sinks
    Deployments,   \* the deployments checked: [invs : those in use, bindings : sinks in
                   \* spec order, reconciled : those whose kind and namespace the operator
                   \* reconciles (tenant mode and the watch list leave some out), legacy :
                   \* an earlier release, which recorded no paths, may have exported]
    SinkType,      \* sink -> "object" | "dir" | "git" | "mr" | "rows" | "stream"
    Templates,     \* spec.pathTemplate values; "gen" contains {generation}, "hive" is
                   \* an object store with format parquet, which ignores the template
    Absent,
    maxRecordedExportPaths,  \* the bound of the path list in the status
    MaxExports,    \* bound on exports
    MaxEdits,      \* bound on edits of sinks, inventories and Secrets, with the faults
    MaxFaults      \* bound on failed calls and crashes

VARIABLES
    env,      \* the deployment
    obj,      \* inventory -> its API object
    evid,     \* inventory -> sink -> status.sinkExports entry
    open,     \* inventory -> the running export pass | Absent
    wrote,    \* inventory -> sink -> history: the paths its last export wrote, whether the
              \* status says so, and whether the sink's template changed before it did
    snk,      \* sink -> its API object
    data,     \* sink -> the objects there: <<path, inventory that wrote it last>>
    record,   \* git sink -> inventory -> paths its ownership record lists
    pass,     \* inventory -> the running cleanup pass | Absent
    due,      \* inventory -> the workqueue holds it
    events,   \* inventory -> announcements <<sink, reason>> made so far
    exports, edits, faults

vars == <<env, obj, evid, open, wrote, snk, data, record, pass, due, events, exports, edits, faults>>
exporting == <<open, wrote>>
apiVars == <<env, obj, evid, snk, exporting, exports, edits>>

Sinks == Range(env.bindings)
MaxGen == 3
Paths == (Templates \cup {"tree", "rows"}) \X (0..MaxGen) \X (0..2)
Snapshot == {"object", "dir", "git", "mr"}
GitFamily == {"git", "mr"}

Exists(i) == obj[i].phase # "absent"
NoEvidence == [exported |-> FALSE, paths |-> {}]
NoExport == [paths |-> {}, saved |-> TRUE, astray |-> FALSE]
NoInventory == [phase |-> "absent", gen |-> 0, fin |-> FALSE, force |-> FALSE]

\* Type correctness.
TypeOK ==
    /\ obj \in [Inventories -> [phase : {"absent", "live", "deleting"}, gen : 0..MaxGen,
                                fin : BOOLEAN, force : BOOLEAN]]
    /\ evid \in [Inventories -> [AllSinks -> [exported : BOOLEAN, paths : SUBSET Paths]]]
    /\ wrote \in [Inventories -> [AllSinks -> [paths : SUBSET Paths, saved : BOOLEAN, astray : BOOLEAN]]]
    /\ \A i \in Inventories : open[i] # Absent => Exists(i) /\ pass[i] = Absent
    /\ snk \in [AllSinks -> [present : BOOLEAN, policy : {"Retain", "Delete"},
                          tmpl : Templates, tree : BOOLEAN, secret : BOOLEAN]]
    /\ data \in [AllSinks -> SUBSET (Paths \X Inventories)]
    /\ \A i \in Inventories :
          pass[i] # Absent =>
             /\ Len(pass[i].todo) <= Len(env.bindings)
             /\ pass[i].err \in {"none", "transient", "terminal"}
             /\ pass[i].shared \in {"unknown", "yes", "no"}
    /\ edits \in 0..MaxEdits /\ exports \in 0..MaxExports /\ faults \in 0..MaxFaults

-----------------------------------------------------------------------------
(* Paths.  ObjectPath and layout.Resolve render the template with the       *)
(* generation of the inventory; an export above the part limit writes the   *)
(* .part-NNNN-of-NNNN siblings instead of the document.                     *)
RenderPathTemplate(tmpl, gen) == <<tmpl, IF tmpl = "gen" THEN gen ELSE 0, 0>>

ParquetObjectPath(gen) == <<"hive", gen, 0>>

ObjectPath(tmpl, gen) ==
    IF tmpl = "hive" THEN ParquetObjectPath(gen) ELSE RenderPathTemplate(tmpl, gen)

Parts(path) == {<<path[1], path[2], 1>>, <<path[1], path[2], 2>>}

\* CleanupMatchers: the exact path and its part siblings; of a hive partition
\* every generation, and the part partitions beside it.
CleanupMatchers(path) ==
    IF path[1] = "hive" THEN {q \in Paths : q[1] = "hive"} ELSE {path} \cup Parts(path)

Matched(paths) == UNION {CleanupMatchers(path) : path \in paths}

TreePath == <<"tree", 0, 0>>
RowsPath == <<"rows", 0, 0>>

\* The path sets one export may write through sink s: rows, a document, its
\* parts, or the per-resource tree.  With layout.mode unset a git export whose
\* items embed one object upgrades itself to the tree.  A snapshot of no items is
\* skipped, or empties the tree.
Written(s, gen) ==
    LET doc == ObjectPath(snk[s].tmpl, gen)
        document == {{doc}, Parts(doc), {}}
    IN  CASE SinkType[s] = "rows" -> {{RowsPath}}
          [] SinkType[s] = "stream" -> {{}}
          [] SinkType[s] \in {"object", "dir"} -> document
          [] snk[s].tree -> {{TreePath}, {}}
          [] OTHER -> document \cup {{TreePath}}

\* What the status lists: the first paths of the set, in order; those before
\* when nothing was written.
recordExportPaths(written, previous) ==
    IF written = {} THEN previous
    ELSE {p \in written : Cardinality({q \in written : q[3] < p[3]}) < maxRecordedExportPaths}

\* The layout sidecars (index, set manifest) go with the document.
cleanupCandidatePaths(spec, gen) == {ObjectPath(spec.tmpl, gen)}

Stored(s) == {d[1] : d \in data[s]}
Owned(s, i) == {d[1] : d \in {e \in data[s] : e[2] = i}}
\* EffectiveDeletionPolicy and RetractsOnDeletion.
RetractsOnDeletion(s, spec) == SinkType[s] \in Snapshot /\ spec.policy = "Delete"

-----------------------------------------------------------------------------
(* The rest of the system, reduced to what a deletion meets.                *)
Init ==
    /\ env \in Deployments
    /\ \E live \in SUBSET env.invs, old \in env.invs \cup {Absent}, s \in Sinks,
          p \in {"Retain", "Delete"}, secrets \in BOOLEAN :
          \* "old" was exported by the earlier release.
          /\ old # Absent => env.legacy /\ old \in live \cap env.reconciled /\ SinkType[s] \in Snapshot
          /\ old = Absent => secrets
          /\ obj = [i \in Inventories |->
                      IF i \in live THEN [NoInventory EXCEPT !.phase = "live", !.gen = 1, !.fin = (i = old)]
                      ELSE NoInventory]
          /\ evid = [i \in Inventories |-> [k \in AllSinks |->
                      [exported |-> i = old /\ k = s, paths |-> {}]]]
          /\ data = [k \in AllSinks |-> IF k = s /\ old # Absent THEN {<<ObjectPath("doc", 1), old>>} ELSE {}]
          /\ wrote = [i \in Inventories |-> [k \in AllSinks |->
                      [NoExport EXCEPT !.paths = IF i = old /\ k = s THEN {ObjectPath("doc", 1)} ELSE {}]]]
          /\ snk = [k \in AllSinks |-> [present |-> TRUE, policy |-> p, tmpl |-> "doc",
                                        tree |-> FALSE, secret |-> secrets \/ SinkType[k] = "dir"]]
    /\ open = [i \in Inventories |-> Absent]
    /\ record = [s \in AllSinks |-> [i \in Inventories |-> {}]]
    /\ pass = [i \in Inventories |-> Absent]
    /\ due = [i \in Inventories |-> FALSE]
    /\ events = [i \in Inventories |-> {}]
    /\ exports = 0 /\ edits = 0 /\ faults = 0

Edit == edits + faults < MaxEdits /\ edits' = edits + 1
Fault == faults < MaxFaults /\ edits + faults < MaxEdits /\ faults' = faults + 1

CreateInventory(i) ==
    /\ Edit
    /\ ~Exists(i) /\ i \in env.invs
    /\ obj' = [obj EXCEPT ![i] = [NoInventory EXCEPT !.phase = "live", !.gen = 1]]
    /\ evid' = [evid EXCEPT ![i] = [s \in AllSinks |-> NoEvidence]]
    /\ wrote' = [wrote EXCEPT ![i] = [s \in AllSinks |-> NoExport]]
    /\ events' = [events EXCEPT ![i] = {}]
    /\ UNCHANGED <<env, open, snk, data, record, pass, due, exports, faults>>

EditInventory(i) ==
    /\ Edit
    /\ obj[i].phase = "live" /\ obj[i].gen < MaxGen - 1
    /\ obj' = [obj EXCEPT ![i].gen = @ + 1]
    /\ UNCHANGED <<env, evid, exporting, snk, data, record, pass, due, events, exports, faults>>

\* The pass that exports: the inventory as it read it (ensureInventoryFinalizer
\* ran before) and the status it is to write (carryOverSinkExport).
carryOverSinkExport(i) ==
    IF open[i] # Absent THEN open[i]
    ELSE [read |-> [obj[i] EXCEPT !.fin = TRUE], status |-> evid[i], done |-> {}]

\* One sink of the pass is exported; the status waits until the pass ends.
Export(i, s) ==
    LET p == carryOverSinkExport(i)
    IN  /\ exports < MaxExports /\ exports' = exports + 1
        /\ i \in env.reconciled /\ p.read.phase = "live" /\ s \notin p.done
        /\ snk[s].present /\ snk[s].secret
        /\ obj' = IF open[i] = Absent THEN [obj EXCEPT ![i] = p.read] ELSE obj
        /\ \E paths \in Written(s, p.read.gen) :
              LET emptied == IF paths = {} /\ SinkType[s] \in GitFamily /\ snk[s].tree
                             THEN record[s][i] ELSE {}
              IN  /\ data' = [data EXCEPT ![s] = {d \in @ : d[1] \notin paths \cup emptied} \cup (paths \X {i})]
                  /\ open' = [open EXCEPT ![i] = [p EXCEPT !.done = @ \cup {s},
                        !.status[s] = [exported |-> TRUE, paths |-> recordExportPaths(paths, @.paths)]]]
                  /\ wrote' = IF paths = {} THEN wrote
                              ELSE [wrote EXCEPT ![i][s] = [NoExport EXCEPT !.paths = paths, !.saved = FALSE]]
                  /\ record' = IF SinkType[s] \in GitFamily /\ (TreePath \in paths \/ emptied # {})
                               THEN [record EXCEPT ![s][i] = paths] ELSE record
        /\ UNCHANGED <<env, evid, snk, pass, due, events, edits, faults>>

\* What a status write makes known: the last exports that it lists.
Saved(i) ==
    [s \in AllSinks |-> IF open[i].status[s].paths = recordExportPaths(wrote[i][s].paths, {})
                        THEN [wrote[i][s] EXCEPT !.saved = TRUE, !.astray = FALSE] ELSE wrote[i][s]]

\* The pass ends with Status().Update, which fails if the inventory is no longer
\* as it was read, if the call fails, or if the process stops before it.
updateStatus(i) ==
    /\ open[i] # Absent
    /\ open' = [open EXCEPT ![i] = Absent]
    /\ \/ /\ obj[i] = open[i].read
          /\ evid' = [evid EXCEPT ![i] = open[i].status]
          /\ wrote' = [wrote EXCEPT ![i] = Saved(i)]
          /\ UNCHANGED faults
       \/ obj[i] # open[i].read /\ UNCHANGED <<evid, wrote, faults>>
       \/ Fault /\ UNCHANGED <<evid, wrote>>
    /\ UNCHANGED <<env, obj, snk, data, record, pass, due, events, exports, edits>>

EditSink(s) ==
    /\ Edit
    /\ snk[s].present
    /\ SinkType[s] \in Snapshot
    /\ \/ snk' = [snk EXCEPT ![s].policy = IF @ = "Delete" THEN "Retain" ELSE "Delete"] /\ UNCHANGED wrote
       \/ \E t \in Templates \ {snk[s].tmpl} :
             /\ t = "hive" => SinkType[s] = "object"
             /\ snk' = [snk EXCEPT ![s].tmpl = t]
             /\ wrote' = [i \in Inventories |-> [wrote[i] EXCEPT ![s].astray = ~wrote[i][s].saved]]
       \/ SinkType[s] \in GitFamily /\ snk' = [snk EXCEPT ![s].tree = ~@] /\ UNCHANGED wrote
    /\ UNCHANGED <<env, obj, evid, open, data, record, pass, due, events, exports, faults>>

DeleteSink(s) ==
    /\ Edit
    /\ snk[s].present
    /\ snk' = [snk EXCEPT ![s].present = FALSE]
    /\ UNCHANGED <<env, obj, evid, exporting, data, record, pass, due, events, exports, faults>>

\* A Secret edit fires no watch event.
EditSecret(s) ==
    /\ Edit
    /\ SinkType[s] # "dir"
    /\ snk' = [snk EXCEPT ![s].secret = ~@]
    /\ UNCHANGED <<env, obj, evid, exporting, data, record, pass, due, events, exports, faults>>

\* The API server marks the object as deleting (which increments its
\* generation), or drops it when it carries no finalizer.
DeleteInventory(i) ==
    /\ Edit
    /\ obj[i].phase = "live"
    /\ obj' = [obj EXCEPT ![i] = IF @.fin THEN [@ EXCEPT !.phase = "deleting", !.gen = @ + 1]
                                          ELSE NoInventory]
    /\ due' = [due EXCEPT ![i] = obj[i].fin]
    /\ UNCHANGED <<env, evid, exporting, snk, data, record, pass, events, exports, faults>>

ForceCleanup(i) ==
    /\ Edit
    /\ obj[i].phase = "deleting"
    /\ obj' = [obj EXCEPT ![i].force = TRUE]
    /\ due' = [due EXCEPT ![i] = TRUE]
    /\ UNCHANGED <<env, evid, exporting, snk, data, record, pass, events, exports, faults>>

-----------------------------------------------------------------------------
(* finalizeInventoryDeletion and finalizeClusterInventoryDeletion.          *)

\* removeFinalizerAndUpdate: the API server then drops the object.
RemoveFinalizer(i) == obj' = [obj EXCEPT ![i] = NoInventory]

forceCleanupRequested(i) == obj[i].force

\* recordCleanupForced: one Warning that says nothing was retracted.
recordCleanupForced(i) == events' = [events EXCEPT ![i] = @ \cup {<<s, "Forced">> : s \in Sinks}]

\* exportEvidenceBySink: what the status says of the last export.
exportEvidenceBySink(i) == evid[i]

\* The other objects of the identity a deletion may look up: none when the
\* operator does not reconcile them (tenant mode, or "cluster" not watched).
clusterCounterpartLookup(i) == (Cluster \ {i}) \cap env.reconciled

namespacedCounterpartLookup(i) == (Inventories \ (Cluster \cup {i})) \cap env.reconciled

\* cleanupInventoryDeletion, cleanupClusterInventorySinks: what one pass is given.
cleanupInventoryDeletion(i) ==
    [todo |-> env.bindings, spec |-> Absent, shared |-> "unknown", met |-> {}, err |-> "none",
     report |-> {}, gen |-> obj[i].gen, evid |-> exportEvidenceBySink(i),
     counterparts |-> clusterCounterpartLookup(i)]

cleanupClusterInventorySinks(i) ==
    [cleanupInventoryDeletion(i) EXCEPT !.counterparts = namespacedCounterpartLookup(i)]

BeginCleanup(i, started) ==
    /\ due[i] /\ pass[i] = Absent /\ open[i] = Absent /\ obj[i].phase = "deleting"
    /\ i \in env.reconciled
    /\ due' = [due EXCEPT ![i] = FALSE]
    /\ \/ /\ forceCleanupRequested(i)
          /\ RemoveFinalizer(i)
          /\ recordCleanupForced(i)
          /\ UNCHANGED pass
       \/ /\ ~forceCleanupRequested(i)
          /\ pass' = [pass EXCEPT ![i] = started]
          /\ UNCHANGED <<obj, events>>
    /\ UNCHANGED <<env, evid, exporting, snk, data, record, exports, edits, faults>>

\* errors.Join keeps the order, and ClassOf reads the first class it meets.
JoinErr(old, class) == IF old = "none" THEN class ELSE old

Failed(i, class) ==
    pass' = [pass EXCEPT ![i].err = JoinErr(@, class), ![i].todo = Tail(@), ![i].spec = Absent]

\* SinkCleanupReport.add
Reported(i, outcome) ==
    LET s == Head(pass[i].todo)
        said == IF outcome \in {"Cleaned", "Pruned"} THEN {} ELSE {<<s, outcome>>}
    IN  pass' = [pass EXCEPT ![i].report = @ \cup said, ![i].todo = Tail(@), ![i].spec = Absent]

\* exportIdentityShared: found means shared, whatever the state of the object.
exportIdentityShared(others) == \E j \in others : Exists(j)

sharedIdentityOnce(i) ==
    IF pass[i].shared # "unknown" THEN pass[i].shared
    ELSE IF exportIdentityShared(pass[i].counterparts) THEN "yes" ELSE "no"

\* The head of the loop of cleanupSinkExports: load the sink, ask for the
\* other inventory only when the sink would retract.
LoadSink(i) ==
    /\ pass[i] # Absent /\ pass[i].todo # <<>> /\ pass[i].spec = Absent
    /\ LET s == Head(pass[i].todo)
       IN  \/ /\ ~snk[s].present
              /\ Reported(i, "SinkGone")
              /\ UNCHANGED faults
           \/ /\ Fault
              /\ Failed(i, "transient")
           \/ /\ snk[s].present
              /\ pass' = [pass EXCEPT
                    ![i].spec = [tmpl |-> snk[s].tmpl, policy |-> snk[s].policy, tree |-> snk[s].tree],
                    ![i].shared = IF RetractsOnDeletion(s, snk[s]) THEN sharedIdentityOnce(i) ELSE @,
                    ![i].met = IF RetractsOnDeletion(s, snk[s]) /\ pass[i].shared = "unknown"
                               THEN {j \in Inventories \ {i} : Exists(j)} ELSE @]
              /\ UNCHANGED faults
    /\ UNCHANGED <<apiVars, data, record, due, events>>

\* retractionPrecheck: the decisions that need no backend.
retractionPrecheck(i) ==
    CASE pass[i].spec.policy # "Delete" -> "RetainedByPolicy"
      [] pass[i].shared = "yes" -> "SharedIdentity"
      [] OTHER -> "proceed"

\* Mutant: the recorded paths taken for addressed.
recordedExportPathsUnaddressed_Never(recorded, candidates, deleted) == FALSE

\* recordedExportPathsUnaddressed
recordedExportPathsUnaddressed(recorded, candidates, deleted) ==
    ~(recorded \subseteq (candidates \cup deleted))

retractionOutcome(i, s, deleted) ==
    LET p == pass[i]
        retained == \/ SinkType[s] \in GitFamily /\ p.spec.tree
                    \/ p.spec.tmpl = "gen"
                    \/ SinkType[s] = "mr"
                    \/ p.evid[s].exported /\ p.evid[s].paths = {}
                    \/ recordedExportPathsUnaddressed(
                          p.evid[s].paths, cleanupCandidatePaths(p.spec, p.gen), deleted)
    IN  IF retained THEN "Retained" ELSE "Cleaned"

\* What an ExportCleaner removes: S3 and GCS list by prefix and delete the keys
\* the matcher accepts, the local backend removes the matched directory entries.
deleteMatching(s, paths) == Matched(paths) \cap Stored(s)

removeMatching(s, paths) == {path \in Stored(s) : path \in Matched(paths)}

\* A git release also removes the files of the record, never one that another
\* inventory's record lists; kept files leave only the record.  A merge
\* request leaves the target branch as it is.
releaseGitExport(i, s, paths) ==
    IF SinkType[s] = "mr" \/ retractionPrecheck(i) # "proceed" THEN {}
    ELSE ((Matched(paths) \cap Stored(s)) \cup record[s][i])
            \ UNION {record[s][j] : j \in Inventories \ {i}}

\* The empty item set is exported: the rows of the identity go, whatever the
\* policy.
pruneRelationalExport(s) == {RowsPath} \cap Stored(s)

Without(s, paths) == [data EXCEPT ![s] = {d \in @ : d[1] \notin paths}]

\* Whether RunCleanupExport reaches acquireBackendWithReader.
Contacts(i, s) ==
    \/ SinkType[s] \in GitFamily \cup {"rows"}
    \/ SinkType[s] \in {"object", "dir"} /\ retractionPrecheck(i) = "proceed"

Gone(i, s) ==
    LET paths == cleanupCandidatePaths(pass[i].spec, pass[i].gen)
    IN  CASE SinkType[s] = "rows" -> pruneRelationalExport(s)
          [] SinkType[s] \in GitFamily -> releaseGitExport(i, s, paths)
          [] retractionPrecheck(i) # "proceed" -> {}
          [] SinkType[s] = "object" -> deleteMatching(s, paths)
          [] OTHER -> removeMatching(s, paths)

CleanSink(i, s) ==
    /\ data' = Without(s, Gone(i, s))
    /\ record' = IF SinkType[s] = "git" THEN [record EXCEPT ![s][i] = {}] ELSE record
    /\ Reported(i, CASE SinkType[s] = "rows" -> "Pruned"
                     [] SinkType[s] = "stream" -> "Retained"
                     [] retractionPrecheck(i) # "proceed" -> retractionPrecheck(i)
                     [] OTHER -> retractionOutcome(i, s, Gone(i, s)))
    /\ UNCHANGED faults

\* cleanupFailure, classifyCleanupFailure: what the backend did not classify as
\* terminal stays transient.
cleanupFailure(i, class) == Failed(i, IF class = "terminal" THEN "terminal" ELSE "transient")

\* A failed backend call may have been applied in part: an object store and a
\* directory are cleaned key by key, a git push and a row transaction are all
\* or nothing.
BackendFails(i, s) ==
    /\ Fault
    /\ Contacts(i, s)
    /\ \E applied \in IF SinkType[s] \in {"object", "dir"} THEN SUBSET Gone(i, s)
                       ELSE {{}, Gone(i, s)} :
          data' = Without(s, applied)
    /\ UNCHANGED record
    /\ cleanupFailure(i, "none")

RunCleanupExport(i) ==
    /\ pass[i] # Absent /\ pass[i].todo # <<>> /\ pass[i].spec # Absent
    /\ LET s == Head(pass[i].todo)
       IN  \/ /\ Contacts(i, s) => snk[s].secret
              /\ CleanSink(i, s)
           \/ BackendFails(i, s)
           \/ /\ Contacts(i, s) /\ ~snk[s].secret
              /\ Failed(i, "terminal")
              /\ UNCHANGED <<data, record, faults>>
    /\ UNCHANGED <<apiVars, due, events>>

\* recordCleanupAnnouncements: one Warning per outcome that leaves data behind.
recordCleanupAnnouncements(i) == events' = [events EXCEPT ![i] = @ \cup pass[i].report]

\* An error keeps the finalizer and requeues: after five minutes when terminal,
\* with backoff otherwise.
Requeue(i) == pass[i].err # "none"

FinishCleanup(i) ==
    /\ pass[i] # Absent /\ pass[i].todo = <<>>
    /\ recordCleanupAnnouncements(i)
    /\ pass' = [pass EXCEPT ![i] = Absent]
    /\ \/ /\ pass[i].err = "none"
          /\ RemoveFinalizer(i)
          /\ due' = [due EXCEPT ![i] = FALSE]
          /\ UNCHANGED faults
       \/ /\ pass[i].err = "none"
          /\ Fault
          /\ due' = [due EXCEPT ![i] = TRUE]
          /\ UNCHANGED obj
       \/ /\ pass[i].err # "none"
          /\ due' = [due EXCEPT ![i] = Requeue(i)]
          /\ UNCHANGED <<obj, faults>>
    /\ UNCHANGED <<env, evid, exporting, snk, data, record, exports, edits>>

finalizeInventoryDeletion(i) ==
    /\ i \notin Cluster
    /\ BeginCleanup(i, cleanupInventoryDeletion(i)) \/ FinishCleanup(i)

finalizeClusterInventoryDeletion(i) ==
    /\ i \in Cluster
    /\ BeginCleanup(i, cleanupClusterInventorySinks(i)) \/ FinishCleanup(i)

\* The operator restarts in the middle of a pass.
Crash(i) ==
    /\ Fault
    /\ pass[i] # Absent
    /\ pass' = [pass EXCEPT ![i] = Absent]
    /\ due' = [due EXCEPT ![i] = TRUE]
    /\ UNCHANGED <<apiVars, data, record, events>>

Cleaning(i) ==
    \/ finalizeInventoryDeletion(i) \/ finalizeClusterInventoryDeletion(i)
    \/ LoadSink(i) \/ RunCleanupExport(i)
    \/ updateStatus(i)

Next ==
    \/ \E i \in Inventories :
          \/ CreateInventory(i) \/ EditInventory(i) \/ DeleteInventory(i) \/ ForceCleanup(i)
          \/ Cleaning(i) \/ Crash(i)
          \/ \E s \in Sinks : Export(i, s)
    \/ \E s \in Sinks : EditSink(s) \/ DeleteSink(s) \/ EditSecret(s)

Spec == Init /\ [][Next]_vars

Fairness == \A i \in Inventories : WF_vars(Cleaning(i))

FairSpec == Spec /\ Fairness

-----------------------------------------------------------------------------
(* Properties *)

\* K-28: once the finalizer of an inventory is gone, every object its last
\* export through a bound sink wrote is gone too, or the pass announced for
\* that sink that something stays.  Retries, crashes between two backends,
\* template and policy edits, a vanished sink and a deletion that overtakes the
\* status of the export do not break it.  What no status tells of, and no
\* template leads to any more, is not accounted for.
LastExportAccountedFor ==
    \A i \in Inventories, s \in Sinks :
        ~Exists(i) /\ ~wrote[i][s].astray /\ Owned(s, i) \cap wrote[i][s].paths # {}
        => \E e \in events[i] : e[1] = s

\* A retraction never removes what another inventory of the same identity
\* wrote, if that inventory existed when the pass asked for it.
SparesOthers ==
    \A i \in Inventories, s \in Sinks :
       SinkType[s] \in Snapshot /\ pass[i] # Absent /\ pass'[i] # pass[i]
       => \A d \in data[s] \ data'[s] : d[2] \notin pass[i].met
RetractionSparesOthers == [][SparesOthers]_vars

\* A sink that must be reached and whose Secret is missing.
Blocks(s) ==
    /\ snk[s].present /\ ~snk[s].secret
    /\ \/ SinkType[s] \in GitFamily \cup {"rows"}
       \/ SinkType[s] = "object" /\ snk[s].policy = "Delete"

\* A deletion finishes unless a sink that has to be reached lacks its Secret:
\* streams, Retain object stores and vanished sinks never hold it, and a
\* repaired Secret is noticed although no watch fires.
Unheld(i) == obj[i].phase # "deleting" \/ \E s \in Sinks : Blocks(s)
DeletionEnds == \A i \in Inventories : []<>Unheld(i)

\* ADR-0421: "Retraction has to be announced whenever it cannot be proven".
NoSilentRetention ==
    \A i \in Inventories, s \in Sinks :
        ~Exists(i) /\ evid[i][s].exported /\ Owned(s, i) # {} => \E e \in events[i] : e[1] = s
=============================================================================
