---------------------------- MODULE SinkBackends ----------------------------
(***************************************************************************)
(* The life of a sink backend that holds a connection: it is built         *)
(* (configured, connected, its destination verified or created), used by   *)
(* exports and closed.  Databases connect and provision while they are     *)
(* built; a nats backend dials, under its mutex, when an export first      *)
(* needs the connection, and dials again when it finds the connection      *)
(* dead.                                                                   *)
(*                                                                         *)
(* A thread exports for one sink; the sinks may be of several clusters and *)
(* share one destination.  The pool hands out one backend per sink         *)
(* (BackendPool has the details) and may close it at any time: the mutex   *)
(* of a nats backend is all that orders a Close with an export here.       *)
(***************************************************************************)
EXTENDS Naturals, FiniteSets

CONSTANTS
    Threads, Sinks,
    Deployments,      \* [kind, mode, sink: thread -> Sinks, subject: sink -> subject, table]
    Subjects,
    Nobody,           \* holds no mutex
    MaxBackends, MaxFaults, MaxCloses, MaxEdits

VARIABLES
    dep,     \* the deployment, fixed
    dest,    \* [table, index, subjects]: table or collection, unique index, subjects of the stream
    pool,    \* sink -> its pooled backend | 0
    back,    \* backend -> [st, client, lock]
    live,    \* backend -> connections it has open
    th,      \* thread -> [pc, b, conn]: conn, a client it has not handed over yet
    need,    \* thread -> an export is due
    stall,   \* thread -> its last failure was terminal: no retry before an edit
    wrote,   \* rows were written to a collection without its index
    faults, closes, edits

vars == <<dep, dest, pool, back, live, th, need, stall, wrote, faults, closes, edits>>

Backends == 1..MaxBackends
Databases == {"postgres", "mongodb", "bigquery"}
Pcs == {"idle", "open", "ping", "provision", "create", "index", "use",
        "jetStream", "dial", "ensureStream", "publish"}

\* Type correctness of the backends.
TypeOK ==
    /\ dep \in Deployments
    /\ dest \in [table : BOOLEAN, index : BOOLEAN, subjects : SUBSET Subjects]
    /\ pool \in [Sinks -> Backends \cup {0}]
    /\ back \in [Backends -> [st : {"free", "building", "open", "closed"},
                              client : {"none", "live", "dead"}, lock : Threads \cup {Nobody}]]
    /\ live \in [Backends -> 0..Cardinality(Threads)]
    /\ th \in [Threads -> [pc : Pcs, b : Backends \cup {0}, conn : BOOLEAN]]
    /\ {need, stall} \subseteq [Threads -> BOOLEAN]
    /\ wrote \in BOOLEAN
    /\ faults \in 0..MaxFaults /\ closes \in 0..MaxCloses /\ edits \in 0..MaxEdits

Init ==
    /\ dep \in Deployments
    /\ dest = [table |-> dep.table, index |-> FALSE, subjects |-> {}]
    /\ pool = [s \in Sinks |-> 0]
    /\ back = [b \in Backends |-> [st |-> "free", client |-> "none", lock |-> Nobody]]
    /\ live = [b \in Backends |-> 0]
    /\ th = [t \in Threads |-> [pc |-> "idle", b |-> 0, conn |-> FALSE]]
    /\ need = [t \in Threads |-> TRUE]
    /\ stall = [t \in Threads |-> FALSE]
    /\ wrote = FALSE
    /\ faults = 0 /\ closes = 0 /\ edits = 0

Sink(t) == dep.sink[t]
Existing == dep.mode = "existing"

-----------------------------------------------------------------------------
(* What a remote call comes back with: the next step, or why it failed, and *)
(* the destination it leaves.                                               *)

To(pc) == [to |-> pc, why |-> "", dest |-> dest]
Leaves(pc, d) == [to |-> pc, why |-> "", dest |-> d]
Failed(why) == [to |-> "failed", why |-> why, dest |-> dest]

classifyTableProbe(exists) == IF exists THEN To("use") ELSE Failed("absent")
postgresVerifyTable == classifyTableProbe(dest.table)
\* CREATE TABLE IF NOT EXISTS
postgresEnsureTable == Leaves("use", [dest EXCEPT !.table = TRUE])

provisionTable == IF Existing THEN postgresVerifyTable ELSE postgresEnsureTable

verifyCollection == IF dest.table THEN To("use") ELSE Failed("absent")
\* ListCollectionNames; a missing collection is created before the index.
ensureCollection == IF dest.table THEN To("index") ELSE To("create")
\* Unlike the index, a collection another process just created is an error.
CreateCollection ==
    IF dest.table THEN Failed("exists") ELSE Leaves("index", [dest EXCEPT !.table = TRUE])
EnsureUniqueIndex == Leaves("use", [dest EXCEPT !.index = TRUE])

bigqueryVerifyTable == IF dest.table THEN To("use") ELSE Failed("absent")
\* Mutant: an answer "already exists" is an error like any other.
isDuplicateCreate_Never(why) == FALSE
isDuplicateCreate(why) == why = "exists"
bigqueryEnsureTable ==
    IF ~dest.table THEN Leaves("use", [dest EXCEPT !.table = TRUE])
    ELSE IF isDuplicateCreate("exists") THEN To("use") ELSE Failed("exists")

\* reasonsFromGoogleAPI: 401, 403 and 404 name the caller or the table.
collectReasons(why) == CASE why = "denied" -> {"accessdenied"}
                         [] why = "absent" -> {"notfound"}
                         [] OTHER -> {"backenderror"}
bigqueryIsTerminal(why) == collectReasons(why) \subseteq {"accessdenied", "notfound"}
\* Only bigquery's constructor classifies its errors; others are transient.
classifyError(why) == dep.kind = "bigquery" /\ bigqueryIsTerminal(why)

streamSubjects(t) == {dep.subject[Sink(t)]}
\* CreateOrUpdateStream: the stream has these subjects from now on.
ensureStream(t) == Leaves("publish", [dest EXCEPT !.subjects = streamSubjects(t)])

\* One table or collection for all; the pool's backend may be closed by now.
DatabaseWrite(t) ==
    IF dest.table /\ back[th[t].b].client = "live" THEN To("idle") ELSE Failed("transport")
Publish(t) ==
    IF back[th[t].b].client = "live" /\ dep.subject[Sink(t)] \in dest.subjects
    THEN To("idle") ELSE Failed("transport")
WriteMessages(t) == IF back[th[t].b].st = "open" THEN To("idle") ELSE Failed("transport")

Ping == To("provision")
Outcome(t) ==
    CASE th[t].pc = "ping" -> Ping
      [] th[t].pc = "provision" /\ dep.kind = "postgres" -> provisionTable
      [] th[t].pc = "provision" /\ dep.kind = "mongodb" ->
            IF Existing THEN verifyCollection ELSE ensureCollection
      [] th[t].pc = "provision" /\ dep.kind = "bigquery" ->
            IF Existing THEN bigqueryVerifyTable ELSE bigqueryEnsureTable
      [] th[t].pc = "create" -> CreateCollection
      [] th[t].pc = "index" -> EnsureUniqueIndex
      [] th[t].pc = "ensureStream" -> ensureStream(t)
      [] th[t].pc = "publish" -> Publish(t)
      [] th[t].pc = "use" /\ dep.kind = "kafka" -> WriteMessages(t)
      [] OTHER -> DatabaseWrite(t)

-----------------------------------------------------------------------------
(* Building *)

\* A record no thread refers to any more is used again for the next backend.
Unreferenced(b) == live[b] = 0 /\ \A t \in Threads : th[t].b # b
Free == {b \in Backends : back[b].st = "free" \/ (back[b].st = "closed" /\ Unreferenced(b))}
Fresh == CHOOSE b \in Free : \A c \in Free : b <= c
Goes(t, pc, b, conn) == th' = [th EXCEPT ![t] = [pc |-> pc, b |-> b, conn |-> conn]]
still == <<dep, wrote, faults, closes, edits>>

\* A backend in the pool is shared.
AcquirePooled(t) ==
    /\ th[t].pc = "idle" /\ need[t] /\ pool[Sink(t)] # 0
    /\ Goes(t, IF dep.kind = "nats" THEN "jetStream" ELSE "use", pool[Sink(t)], FALSE)
    /\ UNCHANGED <<dest, pool, back, live, need, stall, still>>

\* NewBackend of a database: a client, then its destination.
DatabaseNewBackend(t) ==
    /\ th[t].pc = "idle" /\ need[t] /\ pool[Sink(t)] = 0 /\ dep.kind \in Databases
    /\ Free # {}
    /\ back' = [back EXCEPT ![Fresh].st = "building"]
    /\ Goes(t, "open", Fresh, FALSE)
    /\ UNCHANGED <<dest, pool, live, need, stall, still>>

\* newGuardedPool and bigquery.NewClient connect lazily; mongodb pings.
postgresNewBackend(t) == dep.kind = "postgres" /\ Goes(t, "provision", th[t].b, TRUE)
mongodbNewBackend(t) == dep.kind = "mongodb" /\ Goes(t, "ping", th[t].b, TRUE)
bigqueryNewBackend(t) == dep.kind = "bigquery" /\ Goes(t, "provision", th[t].b, TRUE)
Open(t) ==
    /\ th[t].pc = "open"
    /\ postgresNewBackend(t) \/ mongodbNewBackend(t) \/ bigqueryNewBackend(t)
    /\ live' = [live EXCEPT ![th[t].b] = @ + 1]
    /\ UNCHANGED <<dest, pool, back, need, stall, still>>

\* A stream backend is built without any call.
natsNewBackend(b) == [back EXCEPT ![b].st = "open"]
\* The writer has its transport from the start.
kafkaNewBackend(b) == [back EXCEPT ![b] = [@ EXCEPT !.st = "open", !.client = "live"]]
StreamNewBackend(t) ==
    /\ th[t].pc = "idle" /\ need[t] /\ pool[Sink(t)] = 0 /\ dep.kind \notin Databases
    /\ Free # {}
    /\ back' = IF dep.kind = "nats" THEN natsNewBackend(Fresh) ELSE kafkaNewBackend(Fresh)
    /\ live' = IF dep.kind = "nats" THEN live ELSE [live EXCEPT ![Fresh] = @ + 1]
    /\ pool' = [pool EXCEPT ![Sink(t)] = Fresh]
    /\ Goes(t, IF dep.kind = "nats" THEN "jetStream" ELSE "use", Fresh, FALSE)
    /\ UNCHANGED <<dest, need, stall, still>>

\* A finished build is stored, or closed when another is stored already.
Stored(t, b) ==
    IF pool[Sink(t)] = 0
    THEN /\ pool' = [pool EXCEPT ![Sink(t)] = b]
         /\ back' = [back EXCEPT ![b].st = "open", ![b].client = "live"]
         /\ Goes(t, "use", b, FALSE)
         /\ UNCHANGED live
    ELSE /\ back' = [back EXCEPT ![b].st = "closed"]
         /\ live' = [live EXCEPT ![b] = @ - 1]
         /\ Goes(t, "use", pool[Sink(t)], FALSE)
         /\ UNCHANGED pool

-----------------------------------------------------------------------------
(* The nats connection *)

cachedConnDead(b) == back[b].client # "live"

\* Under the mutex: refuse after Close, use the cached connection, or drop a
\* dead one and dial, still holding the mutex.
jetStream(t) ==
    /\ th[t].pc = "jetStream" /\ back[th[t].b].lock = Nobody
    /\ IF back[th[t].b].st = "closed"
       THEN Goes(t, "idle", 0, FALSE) /\ UNCHANGED back
       ELSE IF ~cachedConnDead(th[t].b)
       THEN Goes(t, "publish", th[t].b, FALSE) /\ UNCHANGED back
       ELSE /\ back' = [back EXCEPT ![th[t].b].lock = t, ![th[t].b].client = "none"]
            /\ Goes(t, "dial", th[t].b, FALSE)
    /\ UNCHANGED <<dest, pool, live, need, stall, still>>

connect(t) ==
    /\ th[t].pc = "dial"
    /\ Goes(t, "ensureStream", th[t].b, TRUE)
    /\ live' = [live EXCEPT ![th[t].b] = @ + 1]
    /\ UNCHANGED <<dest, pool, back, need, stall, still>>

-----------------------------------------------------------------------------
(* The end of a call *)

\* A failed call: a client not handed over is closed, the mutex released.
Fails(t, why) ==
    LET b == th[t].b IN
    /\ back' = [back EXCEPT ![b] = [@ EXCEPT
          !.st = IF @ = "building" THEN "closed" ELSE @,
          !.lock = IF @ = t THEN Nobody ELSE @]]
    /\ live' = [live EXCEPT ![b] = IF th[t].conn THEN @ - 1 ELSE @]
    /\ stall' = [stall EXCEPT ![t] = classifyError(why)]
    /\ need' = [need EXCEPT ![t] = ~classifyError(why)]
    /\ Goes(t, "idle", 0, FALSE)

Remote == Pcs \ {"idle", "open", "jetStream", "dial"}

\* The call is answered.
Answered(t) ==
    LET o == Outcome(t)
        b == th[t].b
    IN
    /\ th[t].pc \in Remote /\ o.to # "failed"
    /\ dest' = o.dest
    /\ CASE th[t].pc \in {"provision", "index"} /\ o.to = "use" ->
              Stored(t, b) /\ UNCHANGED <<need, stall>>
         [] th[t].pc = "ensureStream" ->
              /\ back' = [back EXCEPT ![b].client = "live", ![b].lock = Nobody]
              /\ Goes(t, "publish", b, FALSE)
              /\ UNCHANGED <<pool, live, need, stall>>
         [] o.to = "idle" ->
              /\ need' = [need EXCEPT ![t] = FALSE]
              /\ stall' = [stall EXCEPT ![t] = FALSE]
              /\ Goes(t, "idle", 0, FALSE)
              /\ UNCHANGED <<pool, back, live>>
         [] OTHER ->
              Goes(t, o.to, b, th[t].conn) /\ UNCHANGED <<pool, back, live, need, stall>>
    /\ wrote' = (wrote \/ (dep.kind = "mongodb" /\ o.to = "idle" /\ ~dest.index))
    /\ UNCHANGED <<dep, faults, closes, edits>>

\* The server refuses.
Refused(t) ==
    /\ th[t].pc \in Remote /\ Outcome(t).to = "failed"
    /\ Fails(t, Outcome(t).why)
    /\ UNCHANGED <<dest, pool, still>>

\* A call times out, is cut off or is denied.
Fault(t) ==
    /\ faults < MaxFaults /\ th[t].pc \in Remote \cup {"dial"}
    /\ \E why \in {"transport", "denied"} : Fails(t, why)
    /\ faults' = faults + 1
    /\ UNCHANGED <<dep, dest, pool, wrote, closes, edits>>

-----------------------------------------------------------------------------
(* Around a backend *)

\* The pool evicts the backend of a sink and closes it.
databaseClose(b) == [back EXCEPT ![b].st = "closed", ![b].client = "none"]
natsClose(b) == [back EXCEPT ![b].st = "closed", ![b].client = "none"]
Close(s) ==
    LET b == pool[s] IN
    /\ closes < MaxCloses /\ b # 0 /\ back[b].lock = Nobody
    /\ pool' = [pool EXCEPT ![s] = 0]
    /\ back' = IF dep.kind = "nats" THEN natsClose(b) ELSE databaseClose(b)
    /\ live' = [live EXCEPT ![b] = IF back[b].client = "live" THEN @ - 1 ELSE @]
    /\ closes' = closes + 1
    /\ UNCHANGED <<dep, dest, th, need, stall, wrote, faults, edits>>

\* A nats connection runs out of reconnect attempts.
ConnectionDies(b) ==
    /\ faults < MaxFaults /\ dep.kind = "nats" /\ back[b].client = "live"
    /\ back' = [back EXCEPT ![b].client = "dead"]
    /\ live' = [live EXCEPT ![b] = @ - 1]
    /\ faults' = faults + 1
    /\ UNCHANGED <<dep, dest, pool, th, need, stall, wrote, closes, edits>>

\* Whoever owns the destination creates it, in existing mode.
OwnerCreates ==
    /\ Existing /\ dep.kind \in Databases /\ ~dest.table
    /\ dest' = [dest EXCEPT !.table = TRUE]
    /\ UNCHANGED <<pool, back, live, th, need, stall, still>>

\* The inventory has something new to export.
Edit(t) ==
    /\ edits < MaxEdits /\ ~need[t]
    /\ need' = [need EXCEPT ![t] = TRUE]
    /\ edits' = edits + 1
    /\ UNCHANGED <<dep, dest, pool, back, live, th, stall, wrote, faults, closes>>

Work(t) ==
    AcquirePooled(t) \/ DatabaseNewBackend(t) \/ Open(t) \/ StreamNewBackend(t)
    \/ jetStream(t) \/ connect(t) \/ Answered(t) \/ Refused(t)

Next ==
    \/ \E t \in Threads : Work(t) \/ Fault(t) \/ Edit(t)
    \/ \E s \in Sinks : Close(s)
    \/ \E b \in Backends : ConnectionDies(b)
    \/ OwnerCreates

Spec == Init /\ [][Next]_vars
FairSpec == Spec /\ (\A t \in Threads : WF_vars(Work(t))) /\ WF_vars(OwnerCreates)

-----------------------------------------------------------------------------
(* Properties *)

\* Every open connection is the cached client of a backend that is not closed
\* or in the hands of a call that will close it or hand it over: a failed
\* build, a failed ensureStream, a dead connection and a Close that raced an
\* export leave nothing open (the latch and mutex of nats.Backend, the Close
\* calls on the error paths of the constructors).
NothingOutlivesItsOwner ==
    \A b \in Backends :
       /\ live[b] = Cardinality({t \in Threads : th[t].b = b /\ th[t].conn})
                    + (IF back[b].client = "live" THEN 1 ELSE 0)
       /\ back[b].st = "closed" => live[b] = 0

\* provisioning.mode=ensure: no document is written to a collection whose
\* unique index is not there, although the process that created the collection
\* may have failed before it created the index (mongodb ensureCollection).
IndexComesFirst == ~Existing => ~wrote

\* What a step of the exporter creates at the destination.
Created == /\ dest'.table => dest.table
           /\ dest'.index => dest.index
           /\ dest'.subjects \subseteq dest.subjects
Exporting == th' # th

\* provisioning.mode=existing: no export to a database creates a table, a
\* collection or an index (provisionTable, verifyCollection, verifyTable).
ExistingStays == Existing /\ dep.kind \in Databases /\ Exporting => Created
ExistingDatabaseIsNotCreated == [][ExistingStays]_vars

\* provisioning.mode=existing creates nothing at the destination, whatever
\* its kind (the comment on ProvisioningModeExisting).
ExistingCreatesNothing == [][Existing /\ Exporting => Created]_vars

\* No export takes a subject away from a stream that is there: neither mode
\* permits replacing an existing destination (nats ensureStream).
DestinationIsNotReplaced == [][Exporting => dest.subjects \subseteq dest'.subjects]_vars

\* Two exporters that race to create the destination, lose calls, backends and
\* connections are both served in the end; only bigquery's terminal verdict
\* leaves one waiting for the next edit.
Served == \A t \in Threads : ~need[t] /\ (stall[t] => dep.kind = "bigquery")
ExportersAreServed == <>[]Served
=============================================================================
