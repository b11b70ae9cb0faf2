---------------------------- MODULE SinkDelivery ----------------------------
(***************************************************************************)
(* How a snapshot reaches a sink: the parts it is split into, the checks   *)
(* of sink.RunExportEnvelope, the per-sink circuit breaker, and the writes *)
(* of each backend: one transaction (postgres), document by document       *)
(* (mongodb), MERGE then DELETE (bigquery; DELETE then INSERT on the       *)
(* emulator), one object (s3, gcs), a truncated and rewritten file         *)
(* (local), one push (git, whose details are in GitExport), one message    *)
(* (kafka, nats).  Rows of two clusters never share a key: the source UID  *)
(* is part of it.                                                          *)
(*                                                                         *)
(* A writer is one inventory of one cluster.  Two writers either share a   *)
(* sink, and so its breaker, or are the same inventory of two clusters of  *)
(* a fleet that share a table.                                             *)
(***************************************************************************)
EXTENDS Naturals, Sequences, FiniteSets, SequencesExt

CONSTANTS
    Writers, Deployments,  \* [kind, fleet, conflict, ceiling]
    Snapshots,             \* sets of <<key, version>>, keys are numbers
    Bumps,                 \* what a change adds to the generation: 0, or 1 for a spec edit
    InlineCap,             \* items an inline (not object-store) payload holds
    TripAt,                \* circuitBreakerTripAt
    BulkThreshold,         \* bulkUpsertThreshold
    Absent,
    MaxEdits, MaxFaults

VARIABLES
    env,      \* the deployment, fixed
    want,     \* writer -> [snap, gen]: what the reconciler would export
    need,     \* writer -> a reconcile is due
    rows,     \* the destination: [w, part, of, key, ver, gen]
    log,      \* messages published: <<writer, snapshot>>
    job,      \* writer -> the export in flight | Absent
    done,     \* writer -> [snap, gen] of the debounce baseline | Absent
    refused,  \* writer -> [snap, gen] of the last terminal failure | Absent
    br,       \* breaker key -> [state, fails, trial]
    edits, faults

vars == <<env, want, need, rows, log, job, done, refused, br, edits, faults>>

-----------------------------------------------------------------------------
(* Kinds of sinks *)

SnapshotStore == [stream |-> FALSE, delete |-> FALSE, object |-> FALSE]
ObjectStoreSnapshot == [stream |-> FALSE, delete |-> FALSE, object |-> TRUE]
StreamEmitter == [stream |-> TRUE, delete |-> FALSE, object |-> FALSE]
RelationalStore == [stream |-> FALSE, delete |-> TRUE, object |-> FALSE]

Capabilities(kind) ==
    CASE kind \in {"git", "local"} -> SnapshotStore
      [] kind = "object" -> ObjectStoreSnapshot
      [] kind \in {"kafka", "nats"} -> StreamEmitter
      [] OTHER -> RelationalStore

\* cap.ExportPayload: an empty snapshot is for backends that delete.
SkipsPayload(c, part) == part = {} /\ ~c.delete

\* shouldExportForSpill
shouldExportForSpill(c, part) == Cardinality(part) <= InlineCap \/ c.object

Key(w) == IF env.fleet THEN w ELSE "shared"
Keys(s) == {r[1] : r \in s}

\* PartitionEnvelopes on items of one size.
PartitionEnvelopes(snap, ceiling) ==
    LET sorted == SetToSortSeq(snap, LAMBDA a, b : a[1] < b[1])
        total == IF ceiling = 0 \/ snap = {} THEN 1 ELSE (Len(sorted) + ceiling - 1) \div ceiling
        group(p) == IF total = 1 THEN snap
                    ELSE {sorted[k] : k \in {k \in DOMAIN sorted : (k - 1) \div ceiling = p - 1}}
    IN  [p \in 1..total |-> group(p)]

\* Multipart is a snapshot-family feature.
Ceiling(kind, ceiling) ==
    IF Capabilities(kind).stream \/ Capabilities(kind).delete THEN 0 ELSE ceiling

-----------------------------------------------------------------------------
(* The destination *)

Part(w) == job[w].parts[job[w].k]

\* exportScope: the inventory name the object path carries, and the cluster.
\* A part's path has a suffix of its own.
Scope(w, rs) == {r \in rs : r.w = w /\ r.part = job[w].k /\ r.of = Len(job[w].parts)}

Row(w, item) == [w |-> w, part |-> job[w].k, of |-> Len(job[w].parts),
                 key |-> item[1], ver |-> item[2], gen |-> job[w].gen]

Upserted(w, rs, new) == (rs \ {r \in Scope(w, rs) : r.key \in {n.key : n \in new}}) \cup new

Stale(w, rs, items) == {r \in Scope(w, rs) : r.key \notin Keys(items)}

(* postgres: one transaction *)

buildUpsertRows(w, items) == {Row(w, i) : i \in items}

rowUpsertItems(w, rs, items) ==
    FoldSet(LAMBDA row, acc : Upserted(w, acc, {row}), rs, buildUpsertRows(w, items))

bulkUpsertItems(w, rs, items) ==
    LET staging == buildUpsertRows(w, items) IN Upserted(w, rs, staging)

upsertItems(w, rs, items) ==
    IF Cardinality(items) >= BulkThreshold THEN bulkUpsertItems(w, rs, items) ELSE rowUpsertItems(w, rs, items)

\* buildStaleDeletePlan: no item, every row of the inventory.
buildStaleDeletePlan(items) == [deleteAll |-> items = {}, keys |-> Keys(items)]

deleteStaleRows(w, rs, items) ==
    LET plan == buildStaleDeletePlan(items)
    IN  rs \ {r \in Scope(w, rs) : plan.deleteAll \/ r.key \notin plan.keys}

PostgresCommit(w) == deleteStaleRows(w, upsertItems(w, rows, Part(w)), Part(w))

(* mongodb: a ReplaceOne for each item, then one DeleteMany *)

ReplaceOne(w, item) == Upserted(w, rows, {Row(w, item)})

staleDeleteFilter(w, items) == IF items = {} THEN Scope(w, rows) ELSE Stale(w, rows, items)

deleteStaleDocuments(w) == rows \ staleDeleteFilter(w, Part(w))

MongoWrites(part) ==
    LET sorted == SetToSortSeq(part, LAMBDA a, b : a[1] < b[1])
    IN  [k \in DOMAIN sorted |-> <<"replaceOne", sorted[k]>>] \o <<<<"deleteMany">>>>

(* bigquery: one job for each statement *)

toMergeRows(w, items) == {Row(w, i) : i \in items}

runMergeUpsert(w) == Upserted(w, rows, toMergeRows(w, Part(w)))

runDeleteStale(w) == rows \ Stale(w, rows, Part(w))

runDeleteAll(w) == rows \ Scope(w, rows)

EmulatorInsert(w) == rows \cup toMergeRows(w, Part(w))

\* Mutant: the stale rows are deleted before the merge.
BigQueryWrites_DeleteFirst(kind, part) == <<<<"deleteAll">>, <<"merge">>>>

BigQueryWrites(kind, part) ==
    CASE part = {} -> <<<<"deleteAll">>>>
      [] kind = "emulator" -> <<<<"deleteAll">>, <<"insert">>>>
      [] OTHER -> <<<<"merge">>, <<"deleteStale">>>>

(* s3, gcs and git replace a document; local truncates and rewrites a file *)

PutDocument(w) == (rows \ Scope(w, rows)) \cup {Row(w, i) : i \in Part(w)}

Truncate(w) == (rows \ Scope(w, rows)) \cup {Row(w, <<0, 0>>)}

\* local.Export leaves an identical file alone.
fileIdentical(w) ==
    /\ env.kind = "local"
    /\ Scope(w, rows) = {Row(w, i) : i \in Part(w)}

LocalWrites(part) == <<<<"truncate">>, <<"put">>>>

(* The writes of one Backend.Export call, and what one leaves. *)

Writes(kind, part) ==
    CASE kind = "postgres" -> <<<<"commit">>>>
      [] kind = "mongodb"  -> MongoWrites(part)
      [] kind \in {"bigquery", "emulator"} -> BigQueryWrites(kind, part)
      [] kind \in {"object", "git"} -> <<<<"put">>>>
      [] kind = "local"    -> LocalWrites(part)
      [] kind = "kafka"    -> <<<<"writeMessages">>>>
      [] kind = "nats"     -> <<<<"publish">>>>

Effect(w, op) ==
    CASE op[1] = "commit"      -> PostgresCommit(w)
      [] op[1] = "replaceOne"  -> ReplaceOne(w, op[2])
      [] op[1] = "deleteMany"  -> deleteStaleDocuments(w)
      [] op[1] = "merge"       -> runMergeUpsert(w)
      [] op[1] = "deleteStale" -> runDeleteStale(w)
      [] op[1] = "deleteAll"   -> runDeleteAll(w)
      [] op[1] = "insert"      -> EmulatorInsert(w)
      [] op[1] = "put"         -> PutDocument(w)
      [] op[1] = "truncate"    -> Truncate(w)
      [] OTHER                 -> rows

\* A message carries the envelope, whose exportedAt is of this attempt: nats
\* msgID of a retry differs, so JetStream stores it again.
KafkaPublish(w) == Append(log, <<w, job[w].snap>>)
NatsPublish(w) == Append(log, <<w, job[w].snap>>)

Published(w, op) ==
    CASE op[1] = "writeMessages" -> KafkaPublish(w)
      [] op[1] = "publish" -> NatsPublish(w)
      [] OTHER -> log

\* What a failed write is classified as: the server rejects the data, or the
\* call does not get through.
MongoTerminal(op, fault) == op[1] = "replaceOne" /\ fault = "rejected"
BigQueryTerminal(fault) == fault = "rejected"

Terminal(op, fault) ==
    CASE env.kind = "mongodb" -> MongoTerminal(op, fault)
      [] env.kind \in {"bigquery", "emulator"} -> BigQueryTerminal(fault)
      [] OTHER -> FALSE

-----------------------------------------------------------------------------
(* The breaker: external, with the settings of newBreaker. *)

Admits(b) == br[b].state = "closed" \/ (br[b].state = "half" /\ ~br[b].trial)

OnAdmit(b) == IF br[b].state = "half" THEN [br EXCEPT ![b].trial = TRUE] ELSE br

\* kollecterrors.IsInventoryScoped
IsExcluded(err) == err = "conflict"

Counted(b) == br[b].fails + 1 >= TripAt

\* A result that arrives after the breaker changed its state is dropped.
OnResult(w, err) ==
    LET b == Key(w)
    IN  CASE ~job[w].current   -> br
          [] err = "none"      -> [br EXCEPT ![b] = [state |-> "closed", fails |-> 0, trial |-> FALSE]]
          [] IsExcluded(err)   -> [br EXCEPT ![b].trial = FALSE]
          [] br[b].state = "half" \/ Counted(b) ->
                                  [br EXCEPT ![b] = [state |-> "open", fails |-> 0, trial |-> FALSE]]
          [] OTHER             -> [br EXCEPT ![b].fails = @ + 1]

\* Exports admitted before a change of state belong to the old generation.
Outdated(newBr, newJob) ==
    [w \in Writers |-> IF newJob[w] # Absent /\ newBr[Key(w)].state # br[Key(w)].state
                       THEN [newJob[w] EXCEPT !.current = FALSE] ELSE newJob[w]]

-----------------------------------------------------------------------------
(* The writers *)

Init ==
    /\ env \in Deployments
    /\ want = [w \in Writers |-> [snap |-> {}, gen |-> 1]]
    /\ need = [w \in Writers |-> TRUE]
    /\ rows = {} /\ log = <<>>
    /\ job = [w \in Writers |-> Absent]
    /\ done = [w \in Writers |-> Absent]
    /\ refused = [w \in Writers |-> Absent]
    /\ br = [b \in Writers \cup {"shared"} |-> [state |-> "closed", fails |-> 0, trial |-> FALSE]]
    /\ edits = 0 /\ faults = 0

\* The store changes, or (generation) the inventory's spec.
Change(w) ==
    /\ edits < MaxEdits
    /\ edits' = edits + 1
    /\ \E s \in Snapshots, g \in Bumps :
          /\ s # want[w].snap \/ g = 1
          /\ want' = [want EXCEPT ![w] = [snap |-> s, gen |-> @.gen + g]]
    /\ need' = [need EXCEPT ![w] = TRUE]
    /\ UNCHANGED <<env, rows, log, job, done, refused, br, faults>>

\* The reconciler skips what the baseline records, else composes the parts and
\* exports them one by one.
Begin(w) ==
    /\ need[w] /\ job[w] = Absent
    /\ need' = [need EXCEPT ![w] = FALSE]
    /\ job' = IF done[w] = want[w] THEN job
              ELSE [job EXCEPT ![w] = [gen |-> want[w].gen, snap |-> want[w].snap,
                                  parts |-> PartitionEnvelopes(want[w].snap, Ceiling(env.kind, env.ceiling)),
                                  k |-> 1, todo |-> <<>>, admitted |-> FALSE, current |-> TRUE]]
    /\ UNCHANGED <<env, want, rows, log, done, refused, br, edits, faults>>

NextPart(w) == IF job[w].k = Len(job[w].parts) THEN Absent
               ELSE [job[w] EXCEPT !.k = @ + 1, !.admitted = FALSE, !.current = TRUE]

Succeeds(w, newBr) ==
    /\ job' = Outdated(newBr, [job EXCEPT ![w] = NextPart(w)])
    /\ done' = IF NextPart(w) = Absent
               THEN [done EXCEPT ![w] = [snap |-> job[w].snap, gen |-> job[w].gen]] ELSE done
    /\ br' = newBr
    /\ refused' = [refused EXCEPT ![w] = Absent]
    /\ UNCHANGED need

\* Mutant: a failed export leaves the baseline of the last successful one.
Fails_KeepsBaseline(w, newBr, terminal) ==
    /\ job' = Outdated(newBr, [job EXCEPT ![w] = Absent])
    /\ br' = newBr
    /\ need' = [need EXCEPT ![w] = @ \/ ~terminal]
    /\ UNCHANGED <<done, refused>>

\* failSinkExport forgets the baseline; transient failures are retried,
\* terminal ones wait for a change.
Fails(w, newBr, terminal) ==
    /\ job' = Outdated(newBr, [job EXCEPT ![w] = Absent])
    /\ br' = newBr
    /\ need' = [need EXCEPT ![w] = @ \/ ~terminal]
    /\ refused' = IF terminal THEN [refused EXCEPT ![w] = [snap |-> job[w].snap, gen |-> job[w].gen]] ELSE refused
    /\ done' = [done EXCEPT ![w] = Absent]

\* RunExportEnvelope up to the breaker: an empty snapshot is skipped unless
\* the backend reconciles deletes, a payload above the inline cap is refused
\* by anything but an object store.
RunExportEnvelope(w) ==
    /\ job[w] # Absent /\ ~job[w].admitted
    /\ LET c == Capabilities(env.kind) IN
       \/ /\ SkipsPayload(c, Part(w))
          /\ Succeeds(w, br)
       \/ /\ ~SkipsPayload(c, Part(w))
          /\ ~shouldExportForSpill(c, Part(w))
          /\ Fails(w, br, TRUE)
       \/ /\ ~SkipsPayload(c, Part(w))
          /\ shouldExportForSpill(c, Part(w))
          /\ \/ /\ ~Admits(Key(w))
                /\ Fails(w, br, FALSE)
             \/ /\ Admits(Key(w))
                /\ job' = [job EXCEPT ![w].admitted = TRUE, ![w].current = TRUE,
                                      ![w].todo = Writes(env.kind, Part(w))]
                /\ br' = OnAdmit(Key(w))
                /\ UNCHANGED <<need, done, refused>>
    /\ UNCHANGED <<env, want, rows, log, edits, faults>>

\* One write of Backend.Export, and the return after the last.
Write(w) ==
    /\ job[w] # Absent /\ job[w].admitted /\ job[w].todo # <<>>
    /\ ~(env.conflict = w)
    /\ rows' = IF fileIdentical(w) THEN rows ELSE Effect(w, Head(job[w].todo))
    /\ log' = Published(w, Head(job[w].todo))
    /\ IF Len(job[w].todo) = 1 \/ fileIdentical(w)
       THEN Succeeds(w, OnResult(w, "none"))
       ELSE /\ job' = [job EXCEPT ![w].todo = Tail(@)]
            /\ UNCHANGED <<need, done, refused, br>>
    /\ UNCHANGED <<env, want, edits, faults>>

\* A write fails; the destination may have applied it all the same.
WriteFails(w) ==
    /\ job[w] # Absent /\ job[w].admitted /\ job[w].todo # <<>>
    /\ ~(env.conflict = w)
    /\ faults < MaxFaults
    /\ faults' = faults + 1
    /\ \E fault \in {"network", "rejected"}, applied \in BOOLEAN :
          /\ fault = "rejected" => ~applied
          /\ rows' = IF applied THEN Effect(w, Head(job[w].todo)) ELSE rows
          /\ log' = IF applied THEN Published(w, Head(job[w].todo)) ELSE log
          /\ LET terminal == Terminal(Head(job[w].todo), fault)
             IN  Fails(w, OnResult(w, IF terminal THEN "terminal" ELSE "transient"), terminal)
    /\ UNCHANGED <<env, want, edits>>

\* The git sink refuses the files of an inventory that another one owns.
OwnershipConflict(w) ==
    /\ job[w] # Absent /\ job[w].admitted
    /\ env.conflict = w
    /\ Fails(w, OnResult(w, "conflict"), TRUE)
    /\ UNCHANGED <<env, want, rows, log, edits, faults>>

\* circuitBreakerTimeout, and the counting window of circuitBreakerInterval.
BreakerClock(b) ==
    /\ \/ /\ br[b].state = "open"
          /\ br' = [br EXCEPT ![b].state = "half"]
       \/ /\ br[b].state = "closed" /\ br[b].fails > 0
          /\ br' = [br EXCEPT ![b].fails = 0]
    /\ job' = [w \in Writers |-> IF job[w] # Absent /\ Key(w) = b
                                 THEN [job[w] EXCEPT !.current = FALSE] ELSE job[w]]
    /\ UNCHANGED <<env, want, need, rows, log, done, refused, edits, faults>>

Work(w) == RunExportEnvelope(w) \/ Write(w) \/ OwnershipConflict(w)

Next ==
    \/ \E w \in Writers : Change(w) \/ Begin(w) \/ Work(w) \/ WriteFails(w)
    \/ \E b \in DOMAIN br : BreakerClock(b)

Spec == Init /\ [][Next]_vars

Fairness ==
    /\ \A w \in Writers : WF_vars(Begin(w)) /\ WF_vars(Work(w))
    /\ \A b \in Writers \cup {"shared"} : WF_vars(br[b].state = "open" /\ BreakerClock(b))

FairSpec == Spec /\ Fairness

-----------------------------------------------------------------------------
(* Properties *)

\* Types, and the bounds the parts and the breakers keep.
TypeOK ==
    /\ \A w \in Writers : job[w] # Absent => job[w].k \in 1..Len(job[w].parts)
    /\ \A b \in DOMAIN br : br[b].state \in {"closed", "open", "half"} /\ br[b].fails < TripAt
    /\ \A r \in rows : r.part <= r.of

View(w) == {<<r.key, r.ver>> : r \in {r \in rows : r.w = w}}

Delivered(w) == done[w] # Absent /\ job[w] = Absent

LastMessage(w) == Last(SelectSeq(log, LAMBDA msg : msg[1] = w))[2]

\* What the baseline records is what the destination holds, whatever failed
\* attempts left half written: absent rows are gone from a database, a
\* document holds the snapshot, the last event of a stream carries it.  (An
\* empty snapshot is not written to documents and streams; parts of an older
\* split stay behind.)
DeliveredIsVisible ==
    \A w \in Writers : Delivered(w) =>
        CASE Capabilities(env.kind).delete -> View(w) = done[w].snap
          [] Capabilities(env.kind).stream -> done[w].snap # {} => LastMessage(w) = done[w].snap
          [] OTHER -> done[w].snap # {} /\ env.ceiling = 0 => View(w) = done[w].snap

\* The breaker of a sink opens on failures of the sink: TripAt of them at
\* least, and never on one inventory's ownership conflict.
BreakerOpensOnSinkFailures ==
    (\E b \in DOMAIN br : br[b].state # "closed") => faults >= TripAt

Deliverable(w) ==
    /\ env.conflict # w
    /\ refused[w] # want[w]
    /\ env.kind = "object" \/ Cardinality(want[w].snap) <= InlineCap

\* Once stores and backends calm down, every writer that is not in conflict,
\* fits the sink and was not refused for good has its snapshot delivered, the
\* breaker notwithstanding.
DeliveryConverges ==
    \A w \in Writers :
        <>[](Deliverable(w) => done[w] = want[w])

\* A reader of a multipart object export that holds every index of one
\* partTotal under one generation holds the parts of one export: what
\* PartitionEnvelopes says of the completeness marker.
TornSetIsDetected ==
    \A w \in Writers, n \in 2..3 :
        LET set == {r \in rows : r.w = w /\ r.of = n}
        IN  /\ env.kind = "object"
            /\ {r.part : r \in set} = 1..n
            /\ Cardinality({r.gen : r \in set}) = 1
            => {<<r.key, r.ver>> : r \in set} \in Snapshots

\* Every backend implements Destination: postgres and single objects
\* atomically, mongodb and bigquery gradually, the others without a promise.
Promise == CASE env.kind = "postgres" -> "atomic"
             [] env.kind \in {"object", "git"} /\ env.ceiling = 0 -> "atomic"
             [] env.kind \in {"mongodb", "bigquery"} -> "gradual"
             [] OTHER -> "none"

Readers == INSTANCE Destination WITH
    promise <- Promise,
    view <- [w \in Writers |-> View(w)],
    plan <- [w \in Writers |-> IF job[w] = Absent THEN Absent ELSE job[w].snap]

\* While exports run, fail half way and are retried, readers of a postgres
\* table or of one object see whole snapshots only, and readers of a mongodb
\* collection or a bigquery table see rows replaced, never a gap (the
\* transaction, the single put, and writes before deletes in the backends).
ReadersSeeSnapshots == Readers!Spec
=============================================================================
