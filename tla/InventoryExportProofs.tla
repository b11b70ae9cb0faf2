----------------------- MODULE InventoryExportProofs -----------------------
(***************************************************************************)
(* Proofs about InventoryExport for every set of rows and sinks and every  *)
(* value of the bounds.                                                    *)
(***************************************************************************)
EXTENDS InventoryExport, TLAPS

-----------------------------------------------------------------------------
(* What a pass knows at each of its stages. *)

\* Nothing is exported, debounced or failed before the loop over the sinks, and
\* afterwards every sink is one of these or still to be exported.
PassAccounts ==
    /\ pass.pc \in {"idle", "fingerprint", "preview", "items", "sinks"} =>
          /\ pass.exported = {} /\ pass.debounced = {} /\ pass.jobs = {}
          /\ \A s \in Sinks : pass.failed[s] = "no"
    /\ pass.pc \in {"export", "status"} => \A s \in Sinks :
          \/ s \in pass.exported \cup pass.debounced \cup pass.jobs
          \/ pass.failed[s] # "no"
    /\ pass.jobs \cap pass.debounced = {}
    /\ pass.pc = "status" => pass.jobs = {}
    /\ pass.pc \in {"sinks", "export"} \/ pass.exported # {} => pass.items \in Payload

\* A fingerprint digests items, the baseline of a snapshot sink parts.
Digests ==
    /\ pass.fingerprint.by = "items"
    /\ fpCache # None => fpCache.fingerprint.by = "items"
    /\ \A s \in Snapshots : tracker[s] # None => tracker[s].checksum.by = "parts"

\* A baseline and a pass know a sink's identity as it is or as it was.
Identities ==
    \A s \in Sinks :
        /\ pass.id[s].generation <= sinkId[s].generation
        /\ tracker[s] # None => tracker[s].id.generation <= sinkId[s].generation

\* A snapshot sink that the pass debounces holds what the pass would export.
DebouncedHolds ==
    pass.pc \in {"export", "status"} => \A s \in pass.debounced \cap Snapshots :
        pass.id[s] = sinkId[s] => dest[s] = pass.items

\* A baseline is the one of the persisted entry, or of this pass.
BaselinesAreOurs ==
    \A s \in Sinks : tracker[s] # None =>
        tracker[s].checksum = IF s \in pass.exported THEN sinkChecksum(s)
                              ELSE inv.status.sinkExports[s].checksum

IInv == /\ TypeOK /\ PassAccounts /\ Digests /\ Identities /\ SnapshotBaselineHolds
        /\ DebouncedHolds /\ BaselinesAreOurs /\ AggregateIsHonest

-----------------------------------------------------------------------------
(* Types. *)

Trackers == [Sinks -> Baseline \cup {None}]

\* The initial pass, the digests of rows and an inventory nobody exported yet.
LEMMA ConstantTypes ==
    /\ NewInventory \in Inventory /\ IdlePass \in Pass
    /\ \A rows \in Payload : ItemsFingerprint(rows) \in Checksum
                             /\ PartitionsChecksum(rows) \in Checksum
<1>1. \A rows \in Payload : ItemsFingerprint(rows) \in Checksum
                            /\ PartitionsChecksum(rows) \in Checksum
  BY Zenon DEF ItemsFingerprint, PartitionsChecksum, Checksum
<1>2. NoStatus \in Status
  BY Zenon DEF NoStatus, Status, Entry
<1>3. NewInventory \in Inventory
  BY <1>2, Zenon DEF NewInventory, Inventory
<1>4. ItemsFingerprint({}) \in Checksum
  BY <1>1, Zenon DEF Payload
<1>5. IdlePass \in Pass
  BY <1>3, <1>4, Zenon DEF IdlePass, Pass, SinkIdentity
<1> QED
  BY <1>1, <1>3, <1>5, Zenon

\* A skip, a forgotten baseline and a recorded one leave a tracker.
LEMMA TrackerTypes ==
    ASSUME NEW tr \in Trackers, NEW S \in SUBSET Sinks
    PROVE  /\ forget(tr, S) \in Trackers
           /\ (\A s \in S : tr[s] # None) => Skipped(tr, S) \in Trackers
<1>1. forget(tr, S) \in Trackers
  BY Zenon DEF forget, Trackers
<1>2. ASSUME \A s \in S : tr[s] # None
      PROVE  Skipped(tr, S) \in Trackers
  <2>1. \A s \in S : tr[s] \in Baseline
    BY <1>2, Zenon DEF Trackers
  <2>2. \A s \in S : [tr[s] EXCEPT !.fresh = TRUE] \in Baseline
    BY <2>1, Zenon DEF Baseline
  <2> QED
    BY <2>2, Zenon DEF Skipped, Trackers
<1> QED
  BY <1>1, <1>2, Zenon

\* Which sinks a skip is about, and what it leaves of their baselines.
LEMMA SkippedKeeps ==
    ASSUME NEW tr \in Trackers, NEW S \in SUBSET Sinks, \A s \in S : tr[s] # None,
           NEW s \in Sinks
    PROVE  /\ Skipped(tr, S)[s] # None => tr[s] # None
           /\ Skipped(tr, S)[s] # None => /\ Skipped(tr, S)[s].checksum = tr[s].checksum
                                          /\ Skipped(tr, S)[s].id = tr[s].id
<1>1. s \in S => tr[s] \in Baseline
  BY Zenon DEF Trackers
<1>2. CASE s \in S \cap ZeroInterval
  BY <1>1, <1>2, Zenon DEF Skipped, Baseline
<1>3. CASE s \notin S \cap ZeroInterval
  BY <1>3, Zenon DEF Skipped
<1> QED
  BY <1>2, <1>3, Zenon

\* The digest that a sink compares and records.
LEMMA SinkChecksumType ==
    ASSUME TypeOK, pass.items \in Payload, NEW s \in Sinks
    PROVE  sinkChecksum(s) \in Checksum
BY ConstantTypes, Zenon DEF TypeOK, sinkChecksum, Pass

\* An update of the status writes it or leaves the inventory as it is.
LEMMA StatusWriteType ==
    ASSUME TypeOK, NEW st \in Status, NEW lost \in BOOLEAN, StatusWrite(st, lost)
    PROVE  /\ inv' \in Inventory /\ failures' \in 0..MaxFailures
           /\ \/ UNCHANGED inv /\ (pass.read # inv \/ lost)
              \/ pass.read = inv /\ inv' = [inv EXCEPT !.status = st]
<1>1. failures' \in 0..MaxFailures
  BY ExportAssumption DEF TypeOK, StatusWrite
<1>2. inv' \in Inventory
  BY Zenon DEF TypeOK, StatusWrite, Inventory
<1> QED
  BY <1>1, <1>2, Zenon DEF StatusWrite

\* What updateStatus writes.
LEMMA SinkExportsType ==
    ASSUME TypeOK, PassAccounts
    PROVE  [sinkExports |-> SinkExports, synced |-> aggregateInventorySync] \in Status
<1>1. \A s \in Sinks : s \in pass.exported => sinkChecksum(s) \in Checksum
  BY SinkChecksumType, Zenon DEF PassAccounts
<1>2. \A s \in Sinks : pass.read.status.sinkExports[s].checksum \in Checksum \cup {None}
  BY Zenon DEF TypeOK, Pass, Inventory, Status, Entry
<1>3. SinkExports \in [Sinks -> Entry]
  BY <1>1, <1>2, Zenon DEF SinkExports, Entry
<1>4. aggregateInventorySync \in {"none", "true", "false"}
  BY Zenon DEF aggregateInventorySync
<1> QED
  BY <1>3, <1>4, Zenon DEF Status
-----------------------------------------------------------------------------
(* The invariant, action by action. *)

LEMMA InitIInv == Init => IInv
<1> SUFFICES ASSUME Init PROVE IInv
  BY Zenon
<1>1. PICK set \in SnapshotSets :
         sinkId = [s \in Sinks |-> [snapshot |-> s \in set, generation |-> 1]]
  BY Zenon DEF Init
<1>2. /\ pass.pc = "idle" /\ pass.exported = {} /\ pass.debounced = {} /\ pass.jobs = {}
      /\ pass.fingerprint.by = "items"
      /\ \A s \in Sinks : pass.failed[s] = "no" /\ pass.id[s].generation = 0
  BY Zenon DEF Init, IdlePass, ItemsFingerprint
<1>3. TypeOK
  <2>1. sinkId \in [Sinks -> SinkIdentity]
    BY <1>1 DEF SinkIdentity
  <2>2. store \in [rows : Payload, gone : Payload, version : 0..MaxMutations]
    BY ExportAssumption DEF Init, Payload
  <2>3. dest \in [Sinks -> Payload]
    BY Zenon DEF Init, Payload
  <2>4. tracker \in [Sinks -> Baseline \cup {None}]
    BY Zenon DEF Init
  <2>5. edits \in 0..MaxEdits /\ failures \in 0..MaxFailures /\ restarts \in 0..MaxRestarts
    BY ExportAssumption DEF Init
  <2>6. inv \in Inventory /\ invCache \in Inventory /\ pass \in Pass
    BY ConstantTypes, Zenon DEF Init
  <2> QED
    BY <2>1, <2>2, <2>3, <2>4, <2>5, <2>6, Zenon DEF TypeOK, Init
<1>4. PassAccounts /\ DebouncedHolds
  BY <1>2, Zenon DEF PassAccounts, DebouncedHolds
<1>5. Digests /\ SnapshotBaselineHolds /\ BaselinesAreOurs
  BY <1>2, Zenon DEF Init, Digests, SnapshotBaselineHolds, BaselinesAreOurs, Snapshots
<1>6. Identities
  BY <1>1, <1>2 DEF Init, Identities
<1>7. AggregateIsHonest
  BY Zenon DEF Init, AggregateIsHonest, NewInventory, NoStatus
<1> QED
  BY <1>3, <1>4, <1>5, <1>6, <1>7, Zenon DEF IInv

\* A change of the store, of the cache, of the inventory's spec or of the queue.
LEMMA QuietStep ==
    ASSUME IInv, TypeOK', UNCHANGED <<fpCache, tracker, sinkId, dest, pass>>,
           inv'.status = inv.status
    PROVE  IInv'
<1>1. PassAccounts' /\ Digests' /\ Identities' /\ SnapshotBaselineHolds' /\ DebouncedHolds'
  BY Zenon DEF IInv, PassAccounts, Digests, Identities, SnapshotBaselineHolds, DebouncedHolds,
         Snapshots
<1>2. BaselinesAreOurs'
  BY Zenon DEF IInv, BaselinesAreOurs, sinkChecksum, Snapshots
<1>3. AggregateIsHonest'
  BY Zenon DEF IInv, AggregateIsHonest
<1> QED
  BY <1>1, <1>2, <1>3, Zenon DEF IInv

LEMMA MutateStep ==
    ASSUME IInv, NEW r \in Rows, Upsert(r) \/ Remove(r)
    PROVE  IInv'
<1>1. PICK rows \in Payload, gone \in Payload : Mutate(rows, gone)
  <2>1. CASE Upsert(r)
    BY <2>1, Zenon DEF Upsert, IInv, TypeOK, Payload
  <2>2. CASE Remove(r)
    BY <2>2, Zenon DEF Remove, IInv, TypeOK, Payload
  <2> QED
    BY <2>1, <2>2, Zenon
<1>2. store' \in [rows : Payload, gone : Payload, version : 0..MaxMutations]
  BY <1>1, ExportAssumption DEF Mutate, IInv, TypeOK
<1>3. TypeOK'
  BY <1>1, <1>2, Zenon DEF Mutate, IInv, TypeOK, counters
<1> QED
  BY <1>1, <1>3, QuietStep, Zenon DEF Mutate

LEMMA EditInventoryStep ==
    ASSUME IInv, EditInventory \/ SetRequestedAt
    PROVE  IInv'
<1>1. inv' \in Inventory /\ inv'.status = inv.status
  BY DEF EditInventory, SetRequestedAt, IInv, TypeOK, Inventory
<1>2. edits' \in 0..MaxEdits
  BY ExportAssumption DEF EditInventory, SetRequestedAt, Edit, IInv, TypeOK
<1>3. TypeOK'
  BY <1>1, <1>2, Zenon DEF EditInventory, SetRequestedAt, Edit, IInv, TypeOK
<1> QED
  BY <1>1, <1>3, QuietStep, Zenon DEF EditInventory, SetRequestedAt, Edit

\* The generation a sink has after an edit is one that no baseline and no pass knows.
LEMMA EditSinkStep ==
    ASSUME IInv, NEW e \in Sinks, EditSink(e)
    PROVE  IInv'
<1>1. /\ sinkId' \in [Sinks -> SinkIdentity] /\ dest' \in [Sinks -> Payload]
      /\ \A s \in Sinks : sinkId'[s].snapshot = sinkId[s].snapshot
      /\ \A s \in Sinks \ {e} : sinkId'[s] = sinkId[s] /\ dest'[s] = dest[s]
      /\ sinkId'[e].generation = sinkId[e].generation + 1
  BY DEF EditSink, IInv, TypeOK, SinkIdentity, Payload
<1>2. UNCHANGED <<store, fpCache, tracker, inv, invCache, pass, timer, failures, restarts>>
  BY Zenon DEF EditSink, Edit
<1>3. TypeOK'
  <2>1. edits' \in 0..MaxEdits /\ due' \in BOOLEAN
    BY ExportAssumption DEF EditSink, Edit, IInv, TypeOK
  <2> QED
    BY <1>1, <1>2, <2>1, Zenon DEF IInv, TypeOK
<1>4. Snapshots' = Snapshots
  BY <1>1, Zenon DEF Snapshots
<1>5. /\ pass.id[e].generation \in Nat /\ sinkId[e].generation \in Nat
      /\ tracker[e] # None => tracker[e].id.generation \in Nat
  BY Zenon DEF IInv, TypeOK, Pass, SinkIdentity, Baseline
<1>6. pass.id[e] # sinkId'[e] /\ (tracker[e] # None => tracker[e].id # sinkId'[e])
  BY <1>1, <1>5 DEF IInv, Identities
<1>7. Identities'
  BY <1>1, <1>2, <1>5 DEF IInv, Identities
<1>8. PassAccounts' /\ Digests' /\ AggregateIsHonest'
  BY <1>2, <1>4, Zenon DEF IInv, PassAccounts, Digests, AggregateIsHonest
<1>9. SnapshotBaselineHolds' /\ DebouncedHolds'
  <2>1. \A s \in Snapshots : s \in Sinks
    BY Zenon DEF Snapshots
  <2> QED
    BY <1>1, <1>2, <1>4, <1>6, <2>1, Zenon DEF IInv, SnapshotBaselineHolds, DebouncedHolds
<1>10. BaselinesAreOurs'
  BY <1>2, <1>4, Zenon DEF IInv, BaselinesAreOurs, sinkChecksum
<1> QED
  BY <1>3, <1>7, <1>8, <1>9, <1>10, Zenon DEF IInv

\* A pass that is about to read or to decide knows nothing of the sinks.
Early(p) ==
    /\ p.pc \in {"idle", "fingerprint", "preview", "items", "sinks"}
    /\ p.exported = {} /\ p.debounced = {} /\ p.jobs = {}
    /\ \A s \in Sinks : p.failed[s] = "no"
    /\ p.fingerprint.by = "items"

\* A step before the loop over the sinks: it changes the pass, the fingerprint cache
\* and whether baselines are fresh, or drops baselines.
LEMMA EarlyStep ==
    ASSUME IInv, TypeOK', UNCHANGED <<sinkId, dest>>,
           Early(pass), Early(pass'), pass'.pc = "sinks" => pass'.items \in Payload,
           \A s \in Sinks : pass'.id[s].generation <= sinkId[s].generation,
           fpCache' # None => fpCache'.fingerprint.by = "items",
           \A s \in Sinks : inv'.status.sinkExports[s] = inv.status.sinkExports[s],
           inv'.status.synced \in {inv.status.synced, "false"},
           \A s \in Sinks : tracker'[s] # None =>
               tracker[s] # None /\ tracker'[s].id = tracker[s].id
                                 /\ tracker'[s].checksum = tracker[s].checksum
    PROVE  IInv'
<1>1. Snapshots' = Snapshots /\ \A s \in Snapshots : s \in Sinks
  BY Zenon DEF Snapshots
<1>2. PassAccounts'
  BY Zenon DEF PassAccounts, Early
<1>3. Digests'
  BY <1>1 DEF IInv, Digests, Early
<1>4. Identities'
  BY Zenon DEF IInv, Identities
<1>5. SnapshotBaselineHolds'
  BY <1>1, Zenon DEF IInv, SnapshotBaselineHolds
<1>6. DebouncedHolds'
  BY Zenon DEF DebouncedHolds, Early
<1>7. BaselinesAreOurs'
  <2>1. \A s \in Sinks : s \notin pass.exported /\ s \notin pass'.exported
    BY Zenon DEF Early
  <2> QED
    BY <2>1, Zenon DEF IInv, BaselinesAreOurs
<1>8. AggregateIsHonest'
  BY Zenon DEF IInv, AggregateIsHonest
<1> QED
  BY <1>2, <1>3, <1>4, <1>5, <1>6, <1>7, <1>8, Zenon DEF IInv

LEMMA EarlyPass ==
    /\ Early(IdlePass)
    /\ IInv /\ pass.pc \in {"idle", "fingerprint", "preview", "items", "sinks"} => Early(pass)
<1>1. Early(IdlePass)
  BY Zenon DEF Early, IdlePass, ItemsFingerprint
<1>2. ASSUME IInv, pass.pc \in {"idle", "fingerprint", "preview", "items", "sinks"}
      PROVE  Early(pass)
  BY <1>2, Zenon DEF Early, IInv, PassAccounts, Digests
<1> QED
  BY <1>1, <1>2, Zenon

LEMMA QueueSteps ==
    ASSUME IInv, CacheCatchesUp \/ RequeueAfter
    PROVE  IInv'
<1>1. TypeOK'
  BY Zenon DEF CacheCatchesUp, RequeueAfter, IInv, TypeOK, counters
<1> QED
  BY <1>1, QuietStep, Zenon DEF CacheCatchesUp, RequeueAfter

LEMMA IntervalStep ==
    ASSUME IInv, NEW e \in Sinks, IntervalElapses(e)
    PROVE  IInv'
<1>1. tracker[e] \in Baseline
  BY Zenon DEF IntervalElapses, IInv, TypeOK
<1>2. /\ tracker' \in [Sinks -> Baseline \cup {None}]
      /\ \A s \in Sinks : tracker'[s] # None =>
            tracker[s] # None /\ tracker'[s].id = tracker[s].id
                              /\ tracker'[s].checksum = tracker[s].checksum
  BY <1>1, Zenon DEF IntervalElapses, IInv, TypeOK, Baseline
<1>3. UNCHANGED <<store, fpCache, inv, invCache, sinkId, dest, pass, due, timer, counters>>
  BY Zenon DEF IntervalElapses
<1>4. TypeOK' /\ PassAccounts' /\ DebouncedHolds' /\ AggregateIsHonest'
  BY <1>2, <1>3, Zenon DEF IInv, TypeOK, counters, PassAccounts, DebouncedHolds, AggregateIsHonest,
                    Snapshots
<1>5. Digests' /\ Identities' /\ SnapshotBaselineHolds'
  BY <1>2, <1>3, Zenon DEF IInv, Digests, Identities, SnapshotBaselineHolds, Snapshots
<1>6. BaselinesAreOurs'
  BY <1>2, <1>3, Zenon DEF IInv, BaselinesAreOurs, sinkChecksum, Snapshots
<1> QED
  BY <1>4, <1>5, <1>6, Zenon DEF IInv

LEMMA RestartStep ==
    ASSUME IInv, Restart
    PROVE  IInv'
<1>1. /\ pass' = IdlePass /\ fpCache' = None /\ invCache' = inv /\ due' = TRUE /\ timer' = FALSE
      /\ UNCHANGED <<inv, sinkId, dest, edits, failures>>
      /\ tracker' \in [Sinks -> Baseline \cup {None}]
      /\ \A s \in Sinks : tracker'[s] = None
  BY Zenon DEF Restart
<1>2. TypeOK'
  <2>1. restarts' \in 0..MaxRestarts
    BY ExportAssumption DEF Restart, IInv, TypeOK
  <2>2. store' \in [rows : Payload, gone : Payload, version : 0..MaxMutations]
    <3>1. {} \in Payload /\ 0 \in 0..MaxMutations
      BY ExportAssumption DEF Payload
    <3> QED
      BY <3>1, Zenon DEF Restart, IInv, TypeOK
  <2>3. pass' \in Pass
    BY <1>1, ConstantTypes, Zenon
  <2> QED
    BY <1>1, <2>1, <2>2, <2>3, Zenon DEF IInv, TypeOK
<1>3. /\ pass'.pc = "idle" /\ pass'.exported = {} /\ pass'.debounced = {} /\ pass'.jobs = {}
      /\ pass'.fingerprint.by = "items"
      /\ \A s \in Sinks : pass'.failed[s] = "no" /\ pass'.id[s].generation = 0
  BY <1>1, Zenon DEF IdlePass, ItemsFingerprint
<1>4. PassAccounts' /\ DebouncedHolds' /\ AggregateIsHonest'
  BY <1>1, <1>3, Zenon DEF IInv, PassAccounts, DebouncedHolds, AggregateIsHonest
<1>5. Digests' /\ SnapshotBaselineHolds' /\ BaselinesAreOurs'
  BY <1>1, <1>3, Zenon DEF Digests, SnapshotBaselineHolds, BaselinesAreOurs, Snapshots
<1>6. Identities'
  BY <1>1, <1>3 DEF IInv, TypeOK, SinkIdentity, Identities
<1> QED
  BY <1>2, <1>4, <1>5, <1>6, Zenon DEF IInv

LEMMA BeginStep ==
    ASSUME IInv, Begin
    PROVE  IInv'
<1>1. UNCHANGED <<store, fpCache, tracker, inv, invCache, sinkId, dest, counters>>
  BY Zenon DEF Begin
<1>2. store.version \in Nat
  BY ExportAssumption DEF IInv, TypeOK
<1>3. pass' \in Pass
  BY <1>2, ConstantTypes, Zenon DEF Begin, IInv, TypeOK, Pass
<1>4. TypeOK'
  BY <1>1, <1>3, Zenon DEF Begin, IInv, TypeOK, counters
<1>5. Early(pass) /\ Early(pass') /\ pass'.pc = "fingerprint"
  BY EarlyPass, Zenon DEF Begin, Early, IdlePass
<1>6. \A s \in Sinks : pass'.id[s].generation <= sinkId[s].generation
  BY DEF Begin, IdlePass, IInv, TypeOK, SinkIdentity
<1>7. fpCache' # None => fpCache'.fingerprint.by = "items"
  BY <1>1, Zenon DEF IInv, Digests
<1> QED
  BY <1>1, <1>4, <1>5, <1>6, <1>7, EarlyStep, Zenon

LEMMA FingerprintStep ==
    ASSUME IInv, getOrCompute
    PROVE  IInv'
<1>1. /\ UNCHANGED <<store, tracker, inv, invCache, sinkId, dest, due, timer, counters>>
      /\ pass.pc = "fingerprint"
  BY Zenon DEF getOrCompute
<1>2. store.rows \in Payload /\ pass \in Pass
  BY Zenon DEF IInv, TypeOK
<1> DEFINE fp == ItemsFingerprint(store.rows)
<1>3. fp \in Checksum /\ fp.by = "items"
  BY <1>2, ConstantTypes, Zenon DEF ItemsFingerprint
<1>4. /\ pass' \in Pass /\ pass'.pc = "preview" /\ pass'.fingerprint.by = "items"
      /\ pass'.id = pass.id /\ pass'.exported = pass.exported /\ pass'.jobs = pass.jobs
      /\ pass'.debounced = pass.debounced /\ pass'.failed = pass.failed
      /\ fpCache' \in [version : Nat, fingerprint : Checksum] \cup {None}
      /\ fpCache' # None => fpCache'.fingerprint.by = "items"
  <2>1. CASE fpCache # None /\ fpCache.version = pass.version
    <3>1. pass' = [pass EXCEPT !.pc = "preview", !.fingerprint = fpCache.fingerprint]
          /\ fpCache' = fpCache
      BY <2>1, Zenon DEF getOrCompute
    <3>2. fpCache.fingerprint \in Checksum /\ fpCache.fingerprint.by = "items"
      BY <2>1, Zenon DEF IInv, TypeOK, Digests
    <3>3. fpCache \in [version : Nat, fingerprint : Checksum] \cup {None}
      BY Zenon DEF IInv, TypeOK
    <3> QED
      BY <1>2, <3>1, <3>2, <3>3, Zenon DEF Pass
  <2>2. CASE ~(fpCache # None /\ fpCache.version = pass.version)
    <3>1. /\ pass' = [pass EXCEPT !.pc = "preview", !.fingerprint = fp, !.items = store.rows]
          /\ fpCache' = [version |-> pass.version, fingerprint |-> fp]
      BY <2>2, Zenon DEF getOrCompute
    <3> HIDE DEF fp
    <3> QED
      BY <1>2, <1>3, <3>1, Zenon DEF Pass
  <2> QED
    BY <2>1, <2>2, Zenon
<1>5. TypeOK'
  BY <1>1, <1>4, Zenon DEF IInv, TypeOK, counters
<1>6. Early(pass)
  BY <1>1, EarlyPass, Zenon
<1>7. Early(pass')
  BY <1>4, <1>6, Zenon DEF Early
<1>8. \A s \in Sinks : pass'.id[s].generation <= sinkId[s].generation
  BY <1>4, Zenon DEF IInv, Identities
<1> QED
  BY <1>1, <1>4, <1>5, <1>6, <1>7, <1>8, EarlyStep, Zenon

\* What is skipped has a baseline.
LEMMA SkipsHaveBaselines ==
    ASSUME IInv, NEW S \in SUBSET Sinks, \A s \in S : tracker[s] # None,
           tracker' = Skipped(tracker, S)
    PROVE  /\ tracker' \in [Sinks -> Baseline \cup {None}]
           /\ \A s \in Sinks : tracker'[s] # None =>
                 tracker[s] # None /\ tracker'[s].id = tracker[s].id
                                   /\ tracker'[s].checksum = tracker[s].checksum
<1>1. tracker \in Trackers
  BY Zenon DEF IInv, TypeOK, Trackers
<1>2. tracker' \in Trackers
  BY <1>1, TrackerTypes, Zenon
<1>3. \A s \in Sinks : tracker'[s] # None =>
          tracker[s] # None /\ tracker'[s].id = tracker[s].id
                            /\ tracker'[s].checksum = tracker[s].checksum
  BY <1>1, SkippedKeeps, Zenon
<1> QED
  BY <1>2, <1>3, Zenon DEF Trackers

LEMMA PreviewFailsStep ==
    ASSUME IInv, PreviewFails
    PROVE  IInv'
<1>1. PICK seen \in SUBSET Debounceable : tracker' = Skipped(tracker, seen)
  BY Zenon DEF PreviewFails
<1>2. seen \in SUBSET Sinks /\ \A s \in seen : tracker[s] # None
  BY <1>1, Zenon DEF Debounceable, shouldSkip
<1>3. /\ tracker' \in [Sinks -> Baseline \cup {None}]
      /\ \A s \in Sinks : tracker'[s] # None =>
            tracker[s] # None /\ tracker'[s].id = tracker[s].id
                              /\ tracker'[s].checksum = tracker[s].checksum
  BY <1>1, <1>2, SkipsHaveBaselines, Zenon
<1>4. /\ UNCHANGED <<store, fpCache, inv, invCache, sinkId, dest, due, timer, counters>>
      /\ pass.pc = "preview" /\ pass' = [pass EXCEPT !.pc = "items"]
  BY Zenon DEF PreviewFails
<1>5. Early(pass)
  BY <1>4, EarlyPass, Zenon
<1>6. Early(pass') /\ pass' \in Pass /\ pass'.id = pass.id /\ pass'.pc = "items"
  BY <1>4, <1>5, Zenon DEF Early, IInv, TypeOK, Pass
<1>7. TypeOK'
  BY <1>3, <1>4, <1>6, Zenon DEF IInv, TypeOK, counters
<1>8. /\ \A s \in Sinks : pass'.id[s].generation <= sinkId[s].generation
      /\ fpCache' # None => fpCache'.fingerprint.by = "items"
  BY <1>4, <1>6, Zenon DEF IInv, Identities, Digests
<1> QED
  BY <1>3, <1>4, <1>5, <1>6, <1>7, <1>8, EarlyStep, Zenon

LEMMA SnapshotStep ==
    ASSUME IInv, SnapshotNamespace
    PROVE  IInv'
<1>1. /\ UNCHANGED <<store, fpCache, tracker, inv, invCache, sinkId, dest, due, timer, counters>>
      /\ pass.pc = "items"
  BY Zenon DEF SnapshotNamespace
<1>2. Early(pass)
  BY <1>1, EarlyPass, Zenon
<1>3. /\ Early(pass') /\ pass' \in Pass /\ pass'.id = pass.id /\ pass'.pc = "sinks"
      /\ pass'.items \in Payload
  BY <1>2, Zenon DEF SnapshotNamespace, Early, IInv, TypeOK, Pass
<1>4. TypeOK'
  BY <1>1, <1>3, Zenon DEF IInv, TypeOK, counters
<1>5. /\ \A s \in Sinks : pass'.id[s].generation <= sinkId[s].generation
      /\ fpCache' # None => fpCache'.fingerprint.by = "items"
  BY <1>1, <1>3, Zenon DEF IInv, Identities, Digests
<1> QED
  BY <1>1, <1>2, <1>3, <1>4, <1>5, EarlyStep, Zenon

\* A blocked pass may take the aggregate away; it never claims it.
LEMMA BlockedStep ==
    ASSUME IInv, Blocked
    PROVE  IInv'
<1>1. /\ UNCHANGED <<store, fpCache, tracker, invCache, sinkId, dest, due, edits, restarts>>
      /\ pass.pc \in {"fingerprint", "items"} /\ pass' = IdlePass /\ timer' = TRUE
      /\ StatusWrite(Degraded(pass.read.status), TRUE)
  BY Zenon DEF Blocked
<1>2. Degraded(pass.read.status) \in Status
  BY Zenon DEF Degraded, IInv, TypeOK, Pass, Inventory, Status
<1>3. /\ inv' \in Inventory /\ failures' \in 0..MaxFailures
      /\ \/ UNCHANGED inv
         \/ pass.read = inv /\ inv' = [inv EXCEPT !.status = Degraded(pass.read.status)]
  BY <1>1, <1>2, StatusWriteType, Zenon DEF IInv
<1>4. TypeOK'
  <2>1. pass' \in Pass
    BY <1>1, ConstantTypes, Zenon
  <2> QED
    BY <1>1, <1>3, <2>1, Zenon DEF IInv, TypeOK
<1>5. Early(pass) /\ Early(pass') /\ pass'.pc = "idle"
  BY <1>1, EarlyPass, Zenon DEF IdlePass
<1>6. \A s \in Sinks : pass'.id[s].generation <= sinkId[s].generation
  BY <1>1 DEF IdlePass, IInv, TypeOK, SinkIdentity
<1>7. fpCache' # None => fpCache'.fingerprint.by = "items"
  BY <1>1, Zenon DEF IInv, Digests
<1>8. /\ \A s \in Sinks : inv'.status.sinkExports[s] = inv.status.sinkExports[s]
      /\ inv'.status.synced \in {inv.status.synced, "false"}
  BY <1>3 DEF Degraded, IInv, TypeOK, Inventory, Status
<1> QED
  BY <1>1, <1>4, <1>5, <1>6, <1>7, <1>8, EarlyStep, Zenon

\* The loop over the sinks debounces those in skip, each for a baseline that is
\* about the sink as it is and, for a snapshot sink, about the rows of the pass.
LEMMA DebounceStep ==
    ASSUME IInv, NEW skip \in SUBSET Sinks, Early(pass),
           pass' \in Pass, pass'.pc \in {"export", "status"}, pass'.id = sinkId,
           pass'.debounced = skip, pass'.jobs = Sinks \ skip, pass'.exported = {},
           pass'.pc = "status" => skip = Sinks, pass'.pc = "export" => pass.items \in Payload,
           pass'.items = pass.items, pass'.fingerprint = pass.fingerprint,
           tracker' = Skipped(tracker, skip), \A s \in skip : tracker[s] # None,
           \A s \in skip \cap Snapshots :
               tracker[s].id = sinkId[s] /\ tracker[s].checksum.rows = pass.items,
           UNCHANGED <<store, fpCache, inv, invCache, sinkId, dest, due, timer, counters>>
    PROVE  IInv'
<1>1. /\ tracker' \in [Sinks -> Baseline \cup {None}]
      /\ \A s \in Sinks : tracker'[s] # None =>
            tracker[s] # None /\ tracker'[s].id = tracker[s].id
                              /\ tracker'[s].checksum = tracker[s].checksum
  BY SkipsHaveBaselines, Zenon
<1>2. Snapshots' = Snapshots /\ \A s \in Snapshots : s \in Sinks
  BY Zenon DEF Snapshots
<1>3. TypeOK' /\ AggregateIsHonest'
  BY <1>1, Zenon DEF IInv, TypeOK, counters, AggregateIsHonest
<1>4. PassAccounts'
  BY Zenon DEF PassAccounts
<1>5. Digests' /\ SnapshotBaselineHolds'
  BY <1>1, <1>2 DEF IInv, Digests, SnapshotBaselineHolds
<1>6. Identities'
  BY <1>1 DEF IInv, TypeOK, SinkIdentity, Identities
<1>7. DebouncedHolds'
  BY <1>2, Zenon DEF IInv, DebouncedHolds, SnapshotBaselineHolds
<1>8. BaselinesAreOurs'
  <2>1. \A s \in Sinks : s \notin pass.exported /\ s \notin pass'.exported
    BY Zenon DEF Early
  <2> QED
    BY <1>1, <2>1, Zenon DEF IInv, BaselinesAreOurs
<1> QED
  BY <1>3, <1>4, <1>5, <1>6, <1>7, <1>8, Zenon DEF IInv

\* A snapshot sink is never debounced by the preview, whose digest is of items.
LEMMA PreviewStep ==
    ASSUME IInv, previewAllSinksDebounced
    PROVE  IInv'
<1>1. /\ UNCHANGED <<store, fpCache, inv, invCache, sinkId, dest, due, timer, counters>>
      /\ pass.pc = "preview" /\ tracker' = Skipped(tracker, Sinks)
      /\ pass' = [pass EXCEPT !.pc = "status", !.debounced = Sinks, !.id = sinkId]
      /\ Debounceable = Sinks
  BY Zenon DEF previewAllSinksDebounced
<1>2. \A s \in Sinks : tracker[s] # None /\ tracker[s].checksum = pass.fingerprint
  BY <1>1, Zenon DEF Debounceable, shouldSkip
<1>3. Snapshots = {}
  BY <1>2, Zenon DEF IInv, Digests, Snapshots
<1>4. Early(pass)
  BY <1>1, EarlyPass, Zenon
<1>5. /\ pass' \in Pass /\ pass'.pc = "status" /\ pass'.id = sinkId /\ pass'.debounced = Sinks
      /\ pass'.jobs = {} /\ pass'.exported = {} /\ pass'.items = pass.items
      /\ pass'.fingerprint = pass.fingerprint
  BY <1>1, <1>4, Zenon DEF Early, IInv, TypeOK, Pass
<1> QED
  BY <1>1, <1>2, <1>3, <1>4, <1>5, DebounceStep, Zenon

LEMMA ExportToSinksStep ==
    ASSUME IInv, exportToSinks
    PROVE  IInv'
<1> DEFINE skip == {s \in Sinks : shouldSkip(s, sinkId[s], pass.read, sinkChecksum(s))}
<1>1. /\ UNCHANGED <<store, fpCache, inv, invCache, sinkId, dest, due, timer, counters>>
      /\ pass.pc = "sinks" /\ tracker' = Skipped(tracker, skip)
      /\ pass' = [pass EXCEPT !.pc = IF skip = Sinks THEN "status" ELSE "export",
                              !.id = sinkId, !.debounced = skip, !.jobs = Sinks \ skip]
  BY Zenon DEF exportToSinks
<1>2. \A s \in skip : tracker[s] # None /\ tracker[s].id = sinkId[s]
                                        /\ tracker[s].checksum = sinkChecksum(s)
  BY Zenon DEF shouldSkip
<1>3. \A s \in skip \cap Snapshots :
          tracker[s].id = sinkId[s] /\ tracker[s].checksum.rows = pass.items
  BY <1>2 DEF sinkChecksum, PartitionsChecksum
<1>4. Early(pass) /\ pass.items \in Payload
  BY <1>1, EarlyPass, Zenon DEF IInv, PassAccounts
<1>5. skip \in SUBSET Sinks
  BY Zenon
<1> HIDE DEF skip
<1>6. /\ pass' \in Pass /\ pass'.pc \in {"export", "status"} /\ pass'.id = sinkId
      /\ pass'.debounced = skip /\ pass'.jobs = Sinks \ skip /\ pass'.exported = {}
      /\ pass'.items = pass.items /\ pass'.fingerprint = pass.fingerprint
      /\ pass'.pc = "status" => skip = Sinks
  BY <1>1, <1>4, <1>5, Zenon DEF Early, IInv, TypeOK, Pass
<1> QED
  BY <1>1, <1>2, <1>3, <1>4, <1>5, <1>6, DebounceStep, Zenon

\* What the end of one export leaves of the pass.
LEMMA FinishType ==
    ASSUME TypeOK, NEW e \in Sinks
    PROVE  /\ Finish(pass, e) \in Pass
           /\ Finish(pass, e).jobs = pass.jobs \ {e}
           /\ Finish(pass, e).pc = IF pass.jobs = {e} THEN "status" ELSE pass.pc
           /\ Finish(pass, e).exported = pass.exported /\ Finish(pass, e).items = pass.items
           /\ Finish(pass, e).debounced = pass.debounced /\ Finish(pass, e).failed = pass.failed
           /\ Finish(pass, e).id = pass.id /\ Finish(pass, e).fingerprint = pass.fingerprint
<1>1. /\ Finish(pass, e).jobs = pass.jobs \ {e}
      /\ Finish(pass, e).pc = IF pass.jobs = {e} THEN "status" ELSE pass.pc
      /\ Finish(pass, e).exported = pass.exported /\ Finish(pass, e).items = pass.items
      /\ Finish(pass, e).debounced = pass.debounced /\ Finish(pass, e).failed = pass.failed
      /\ Finish(pass, e).id = pass.id /\ Finish(pass, e).fingerprint = pass.fingerprint
  BY Zenon DEF Finish, TypeOK, Pass
<1>2. Finish(pass, e) \in Pass
  BY Zenon DEF Finish, TypeOK, Pass
<1> QED
  BY <1>1, <1>2, Zenon

\* One export ends: its sink leaves the jobs, and no baseline of it is left but the
\* one that tells what was written.
LEMMA ExportEndStep ==
    ASSUME IInv, NEW e \in Sinks, pass.pc = "export", e \in pass.jobs, TypeOK',
           UNCHANGED <<fpCache, inv, sinkId>>,
           pass'.jobs = pass.jobs \ {e},
           pass'.pc = IF pass.jobs = {e} THEN "status" ELSE "export",
           pass'.debounced = pass.debounced, pass'.items = pass.items, pass'.id = pass.id,
           pass'.fingerprint = pass.fingerprint,
           pass'.exported \in {pass.exported, pass.exported \cup {e}},
           \A s \in Sinks \ {e} : pass'.failed[s] = pass.failed[s],
           e \in pass'.exported \/ pass'.failed[e] # "no",
           \A s \in Sinks \ {e} : dest'[s] = dest[s],
           \A s \in Sinks \ {e} : tracker'[s] \in {tracker[s], None},
           tracker'[e] # None =>
               /\ e \in pass'.exported
               /\ tracker'[e].id = pass.id[e] /\ tracker'[e].checksum = sinkChecksum(e)
               /\ pass.id[e] = sinkId[e] => dest'[e] = pass.items
    PROVE  IInv'
<1>1. /\ Snapshots' = Snapshots /\ \A s \in Snapshots : s \in Sinks
      /\ \A s \in Sinks : sinkChecksum(s)' = sinkChecksum(s)
      /\ \A s \in Snapshots : sinkChecksum(s).by = "parts" /\ sinkChecksum(s).rows = pass.items
  BY Zenon DEF Snapshots, sinkChecksum, PartitionsChecksum
<1>2. PassAccounts'
  <2>1. /\ \A s \in Sinks : \/ s \in pass.exported \cup pass.debounced \cup pass.jobs
                            \/ pass.failed[s] # "no"
        /\ pass.jobs \cap pass.debounced = {} /\ pass.items \in Payload
    BY Zenon DEF IInv, PassAccounts
  <2>2. \A s \in Sinks : \/ s \in pass'.exported \cup pass'.debounced \cup pass'.jobs
                         \/ pass'.failed[s] # "no"
    BY <2>1, Zenon
  <2> QED
    BY <2>1, <2>2, Zenon DEF PassAccounts
<1>3. Digests'
  BY <1>1 DEF IInv, Digests
<1>4. Identities'
  BY Zenon DEF IInv, Identities
<1>5. SnapshotBaselineHolds'
  BY <1>1 DEF IInv, SnapshotBaselineHolds
<1>6. DebouncedHolds'
  BY <1>1 DEF IInv, PassAccounts, DebouncedHolds
<1>7. BaselinesAreOurs'
  BY <1>1 DEF IInv, BaselinesAreOurs
<1>8. AggregateIsHonest'
  BY Zenon DEF IInv, AggregateIsHonest
<1> QED
  BY <1>2, <1>3, <1>4, <1>5, <1>6, <1>7, <1>8, Zenon DEF IInv

LEMMA RunExportStep ==
    ASSUME IInv, NEW e \in Sinks, RunExportEnvelope(e)
    PROVE  IInv'
<1> DEFINE b == [id |-> pass.id[e], generation |-> pass.read.generation,
                 requestedAt |-> pass.read.requestedAt, checksum |-> sinkChecksum(e),
                 fresh |-> TRUE]
<1>1. /\ pass.pc = "export" /\ e \in pass.jobs /\ dest' = Written(e) /\ record(e, b)
      /\ pass' = [Finish(pass, e) EXCEPT !.exported = @ \cup {e}]
      /\ UNCHANGED <<store, fpCache, inv, invCache, sinkId, due, timer, counters>>
  BY Zenon DEF RunExportEnvelope
<1>2. TypeOK /\ pass.items \in Payload
  BY <1>1, Zenon DEF IInv, PassAccounts
<1>3. b \in Baseline
  BY <1>2, SinkChecksumType, Zenon DEF TypeOK, Pass, Inventory, Baseline
<1>4. b.id = pass.id[e] /\ b.checksum = sinkChecksum(e)
  BY Zenon
<1> HIDE DEF b
<1>5. /\ tracker' \in [Sinks -> Baseline \cup {None}] /\ tracker'[e] = b
      /\ \A s \in Sinks \ {e} : tracker'[s] \in {tracker[s], None}
  BY <1>1, <1>2, <1>3, Zenon DEF record, TypeOK
<1>6. /\ dest' \in [Sinks -> Payload] /\ \A s \in Sinks \ {e} : dest'[s] = dest[s]
      /\ pass.id[e] = sinkId[e] => dest'[e] = pass.items
  BY <1>1, <1>2, Zenon DEF Written, TypeOK
<1>7. /\ pass' \in Pass /\ pass'.jobs = pass.jobs \ {e}
      /\ pass'.pc = IF pass.jobs = {e} THEN "status" ELSE "export"
      /\ pass'.debounced = pass.debounced /\ pass'.items = pass.items /\ pass'.id = pass.id
      /\ pass'.fingerprint = pass.fingerprint /\ pass'.exported = pass.exported \cup {e}
      /\ pass'.failed = pass.failed
  BY <1>1, <1>2, FinishType DEF Pass
<1>8. TypeOK'
  BY <1>1, <1>2, <1>5, <1>6, <1>7, Zenon DEF TypeOK, counters
<1> QED
  BY <1>1, <1>4, <1>5, <1>6, <1>7, <1>8, ExportEndStep, Zenon

LEMMA FailExportStep ==
    ASSUME IInv, NEW e \in Sinks, NEW class \in FailureClasses, failSinkExport(e, class)
    PROVE  IInv'
<1>1. /\ pass.pc = "export" /\ e \in pass.jobs /\ dest' \in {dest, Written(e)}
      /\ tracker' = forget(tracker, {e}) /\ failures < MaxFailures /\ failures' = failures + 1
      /\ pass' = [Finish(pass, e) EXCEPT !.failed[e] = class]
      /\ UNCHANGED <<store, fpCache, inv, invCache, sinkId, due, timer, edits, restarts>>
  BY Zenon DEF failSinkExport
<1>2. TypeOK /\ pass.items \in Payload
  BY <1>1, Zenon DEF IInv, PassAccounts
<1>3. class \in {"transient", "terminal"}
  BY ExportAssumption, Zenon
<1>5. /\ tracker' \in [Sinks -> Baseline \cup {None}] /\ tracker'[e] = None
      /\ \A s \in Sinks \ {e} : tracker'[s] = tracker[s]
  BY <1>1, <1>2, Zenon DEF forget, TypeOK
<1>6. dest' \in [Sinks -> Payload] /\ \A s \in Sinks \ {e} : dest'[s] = dest[s]
  BY <1>1, <1>2, Zenon DEF Written, TypeOK
<1>7. /\ pass' \in Pass /\ pass'.jobs = pass.jobs \ {e}
      /\ pass'.pc = IF pass.jobs = {e} THEN "status" ELSE "export"
      /\ pass'.debounced = pass.debounced /\ pass'.items = pass.items /\ pass'.id = pass.id
      /\ pass'.fingerprint = pass.fingerprint /\ pass'.exported = pass.exported
      /\ pass'.failed[e] = class /\ \A s \in Sinks \ {e} : pass'.failed[s] = pass.failed[s]
  <2>1. /\ Finish(pass, e) \in Pass /\ Finish(pass, e).failed = pass.failed
        /\ pass.failed \in [Sinks -> {"no", "transient", "terminal"}]
    BY <1>2, FinishType, Zenon DEF TypeOK, Pass
  <2>2. pass' = [Finish(pass, e) EXCEPT !.failed = [pass.failed EXCEPT ![e] = class]]
    BY <1>1, <2>1, Zenon DEF Pass
  <2>3. [pass.failed EXCEPT ![e] = class] \in [Sinks -> {"no", "transient", "terminal"}]
    BY <1>3, <2>1, Zenon
  <2>4. pass' \in Pass
    BY <2>1, <2>2, <2>3, Zenon DEF Pass
  <2>5. pass'.failed = [pass.failed EXCEPT ![e] = class]
    BY <2>1, <2>2, Zenon DEF Pass
  <2>6. pass'.failed[e] = class /\ \A s \in Sinks \ {e} : pass'.failed[s] = pass.failed[s]
    BY <2>1, <2>5, Zenon
  <2>7. /\ pass'.jobs = Finish(pass, e).jobs /\ pass'.pc = Finish(pass, e).pc
        /\ pass'.debounced = Finish(pass, e).debounced /\ pass'.items = Finish(pass, e).items
        /\ pass'.id = Finish(pass, e).id /\ pass'.fingerprint = Finish(pass, e).fingerprint
        /\ pass'.exported = Finish(pass, e).exported
    BY <2>1, <2>2, Zenon DEF Pass
  <2> QED
    BY <1>1, <1>2, <2>4, <2>6, <2>7, FinishType, Zenon
<1>8. TypeOK'
  <2>1. failures' \in 0..MaxFailures
    BY <1>1, <1>2, ExportAssumption DEF TypeOK
  <2> QED
    BY <1>1, <1>2, <1>5, <1>6, <1>7, <2>1, Zenon DEF TypeOK
<1> QED
  BY <1>1, <1>3, <1>5, <1>6, <1>7, <1>8, ExportEndStep

\* The end of the pass: the entries record what was exported, or the baselines of
\* these exports are dropped.
LEMMA UpdateStatusStep ==
    ASSUME IInv, updateStatus
    PROVE  IInv'
<1> DEFINE st == [sinkExports |-> SinkExports, synced |-> aggregateInventorySync]
<1>1. PICK lost \in BOOLEAN :
        /\ pass.pc = "status" /\ StatusWrite(st, lost)
        /\ tracker' = forgetUnpersistedExports(pass.read = inv /\ ~lost)
        /\ timer' = ~(isTotalExportFailure /\ IsTerminal /\ ~lost)
        /\ pass' = IdlePass
        /\ UNCHANGED <<store, fpCache, invCache, sinkId, dest, due, edits, restarts>>
  BY Zenon DEF updateStatus
<1>2. st \in Status
  BY SinkExportsType, Zenon DEF IInv
<1>3. /\ st.synced = aggregateInventorySync
      /\ \A s \in Sinks :
            /\ st.sinkExports[s].checksum = IF s \in pass.exported THEN sinkChecksum(s)
                                            ELSE pass.read.status.sinkExports[s].checksum
            /\ s \in pass.exported \cup pass.debounced
                  => st.sinkExports[s].synced \in {"Exported", "Debounced"}
  BY Zenon DEF SinkExports
<1> HIDE DEF st
<1>4. /\ inv' \in Inventory /\ failures' \in 0..MaxFailures
      /\ \/ UNCHANGED inv /\ (pass.read # inv \/ lost)
         \/ pass.read = inv /\ inv' = [inv EXCEPT !.status = st]
  BY <1>1, <1>2, StatusWriteType, Zenon DEF IInv
<1>5. pass.read = inv /\ inv' = [inv EXCEPT !.status = st] => inv'.status = st
  BY Zenon DEF IInv, TypeOK, Inventory
<1>6. /\ tracker' \in [Sinks -> Baseline \cup {None}]
      /\ \A s \in Sinks : tracker'[s] \in {tracker[s], None}
      /\ \A s \in pass.exported : tracker'[s] # None => pass.read = inv /\ ~lost
  BY <1>1, Zenon DEF forgetUnpersistedExports, forget, IInv, TypeOK, Pass
<1>7. /\ pass'.pc = "idle" /\ pass'.exported = {} /\ pass'.debounced = {} /\ pass'.jobs = {}
      /\ pass'.fingerprint.by = "items"
      /\ \A s \in Sinks : pass'.failed[s] = "no" /\ pass'.id[s].generation = 0
  BY <1>1, Zenon DEF IdlePass, ItemsFingerprint
<1>8. TypeOK'
  <2>1. pass' \in Pass
    BY <1>1, ConstantTypes, Zenon
  <2>2. timer' \in BOOLEAN
    BY <1>1, Zenon
  <2> QED
    BY <1>1, <1>4, <1>6, <2>1, <2>2, Zenon DEF IInv, TypeOK
<1>9. PassAccounts' /\ DebouncedHolds'
  BY <1>7, Zenon DEF PassAccounts, DebouncedHolds
<1>10. Digests' /\ SnapshotBaselineHolds'
  BY <1>1, <1>6, <1>7 DEF IInv, Digests, SnapshotBaselineHolds, Snapshots
<1>11. Identities'
  BY <1>1, <1>6, <1>7 DEF IInv, TypeOK, SinkIdentity, Identities
<1>12. BaselinesAreOurs'
  <2> SUFFICES ASSUME NEW s \in Sinks, tracker'[s] # None
               PROVE  tracker'[s].checksum = inv'.status.sinkExports[s].checksum
    BY <1>7, Zenon DEF BaselinesAreOurs
  <2>1. tracker'[s] = tracker[s]
    BY <1>6, Zenon
  <2>2. CASE UNCHANGED inv /\ (pass.read # inv \/ lost)
    BY <1>6, <2>1, <2>2, Zenon DEF IInv, BaselinesAreOurs
  <2>3. CASE pass.read = inv /\ inv' = [inv EXCEPT !.status = st]
    BY <1>3, <1>5, <2>1, <2>3, Zenon DEF IInv, BaselinesAreOurs
  <2> QED
    BY <1>4, <2>2, <2>3, Zenon
<1>13. AggregateIsHonest'
  <2>1. CASE UNCHANGED inv
    BY <2>1, Zenon DEF IInv, AggregateIsHonest
  <2>2. CASE inv'.status = st
    <3> SUFFICES ASSUME st.synced = "true", NEW s \in Sinks
                 PROVE  st.sinkExports[s].synced \in {"Exported", "Debounced"}
      BY <2>2, Zenon DEF AggregateIsHonest
    <3>1. pass.failed[s] = "no"
      BY <1>3, Zenon DEF aggregateInventorySync, Failed
    <3>2. s \in pass.exported \cup pass.debounced
      BY <1>1, <3>1, Zenon DEF IInv, PassAccounts
    <3> QED
      BY <1>3, <3>2, Zenon
  <2> QED
    BY <1>4, <1>5, <2>1, <2>2, Zenon
<1> QED
  BY <1>8, <1>9, <1>10, <1>11, <1>12, <1>13, Zenon DEF IInv

LEMMA NextIInv == IInv /\ [Next]_vars => IInv'
<1> SUFFICES ASSUME IInv, [Next]_vars PROVE IInv'
  BY Zenon
<1>1. CASE UNCHANGED vars
  <2>1. TypeOK'
    BY <1>1, Zenon DEF vars, counters, IInv, TypeOK
  <2> QED
    BY <1>1, <2>1, QuietStep, Zenon DEF vars
<1>2. CASE \E r \in Rows : Upsert(r) \/ Remove(r)
  BY <1>2, MutateStep, Zenon
<1>3. CASE EditInventory \/ SetRequestedAt
  BY <1>3, EditInventoryStep, Zenon
<1>4. CASE \E s \in Sinks : EditSink(s)
  BY <1>4, EditSinkStep, Zenon
<1>5. CASE CacheCatchesUp \/ RequeueAfter
  BY <1>5, QueueSteps, Zenon
<1>6. CASE \E s \in Sinks : IntervalElapses(s)
  BY <1>6, IntervalStep, Zenon
<1>7. CASE Restart
  BY <1>7, RestartStep, Zenon
<1>8. CASE Blocked
  BY <1>8, BlockedStep, Zenon
<1>9. CASE \E s \in Sinks, class \in FailureClasses : failSinkExport(s, class)
  BY <1>9, FailExportStep, Zenon
<1>10. CASE Reconcile
  <2>1. CASE \E s \in Sinks : RunExportEnvelope(s)
    BY <2>1, RunExportStep, Zenon
  <2> QED
    BY <1>10, <2>1, BeginStep, FingerprintStep, PreviewStep, PreviewFailsStep, SnapshotStep,
       ExportToSinksStep, UpdateStatusStep, Zenon DEF Reconcile
<1> QED
  BY <1>1, <1>2, <1>3, <1>4, <1>5, <1>6, <1>7, <1>8, <1>9, <1>10, Zenon DEF Next

-----------------------------------------------------------------------------
(* The theorems. *)

\* The inductive invariant holds in every reachable state of a reconcile loop.
THEOREM ExportInvariance == Spec => []IInv
BY InitIInv, NextIInv, PTL DEF Spec

\* Every variable keeps the shape of its Go type, and no bound is exceeded.
THEOREM ExportTypes == Spec => []TypeOK
<1>1. IInv => TypeOK
  BY Zenon DEF IInv
<1> QED
  BY <1>1, ExportInvariance, PTL

\* Whatever is edited, fails, is lost or restarts between an export and the next pass,
\* the baseline that shouldSkip would use for a snapshot sink tells what its
\* destination holds.
THEOREM BaselinesTellTheDestination == Spec => []SnapshotBaselineHolds
<1>1. IInv => SnapshotBaselineHolds
  BY Zenon DEF IInv
<1> QED
  BY <1>1, ExportInvariance, PTL

\* "Payload unchanged since the last export" is reported of a snapshot sink by
\* exportToSinks only when the destination holds the payload of the pass.
THEOREM DebouncesAreTrue == Spec => []SnapshotDebounceIsTrue
<1>1. IInv => SnapshotDebounceIsTrue
  BY Zenon DEF IInv, DebouncedHolds, SnapshotDebounceIsTrue
<1> QED
  BY <1>1, ExportInvariance, PTL

\* Between passes no baseline rests on an export that the persisted status does not
\* record: a lost or refused status write takes the baselines of the pass along
\* (forgetUnpersistedExports).
THEOREM BaselinesAreRecorded == Spec => []BaselineIsRecorded
<1>1. IInv => BaselineIsRecorded
  BY Zenon DEF IInv, PassAccounts, BaselinesAreOurs, BaselineIsRecorded
<1> QED
  BY <1>1, ExportInvariance, PTL

\* Synced is True in the persisted status only while every entry says Exported or
\* Debounced (aggregateInventorySync, setInventoryDegraded).
THEOREM AggregatesAreHonest == Spec => []AggregateIsHonest
<1>1. IInv => AggregateIsHonest
  BY Zenon DEF IInv
<1> QED
  BY <1>1, ExportInvariance, PTL

\* No step but the status update of a pass that exported to the sink replaces the
\* sink's export record (carryOverSinkExport).
THEOREM RecordsAreKept == Spec => RecordKept
<1> DEFINE Kept == \A s \in Sinks :
                      inv'.status.sinkExports[s].checksum # inv.status.sinkExports[s].checksum
                          => s \in pass.exported
<1>1. ASSUME IInv, [Next]_vars PROVE [Kept]_vars
  <2>1. CASE UNCHANGED inv
    BY <2>1, Zenon
  <2>2. CASE EditInventory \/ SetRequestedAt
    BY <1>1, <2>2, Zenon DEF EditInventory, SetRequestedAt, IInv, TypeOK, Inventory
  <2>3. CASE Blocked
    BY <1>1, <2>3 DEF Blocked, StatusWrite, Degraded, IInv, TypeOK, Inventory, Status
  <2>4. CASE updateStatus
    <3>1. PICK lost \in BOOLEAN :
            StatusWrite([sinkExports |-> SinkExports, synced |-> aggregateInventorySync], lost)
      BY <2>4, Zenon DEF updateStatus
    <3>2. \A s \in Sinks \ pass.exported :
             SinkExports[s].checksum = pass.read.status.sinkExports[s].checksum
      BY Zenon DEF SinkExports
    <3> QED
      BY <1>1, <3>1, <3>2 DEF StatusWrite, IInv, TypeOK, Inventory
  <2>5. UNCHANGED inv \/ EditInventory \/ SetRequestedAt \/ Blocked \/ updateStatus
    <3>1. CASE Reconcile
      BY <3>1, Zenon DEF Reconcile, Begin, getOrCompute, previewAllSinksDebounced, PreviewFails,
                  SnapshotNamespace, exportToSinks, RunExportEnvelope
    <3>2. CASE UNCHANGED vars
      BY <3>2, Zenon DEF vars
    <3> QED
      BY <1>1, <3>1, <3>2, Zenon DEF Next, Upsert, Remove, Mutate, EditSink, CacheCatchesUp,
         IntervalElapses, RequeueAfter, Restart, failSinkExport
  <2> QED
    BY <2>1, <2>2, <2>3, <2>4, <2>5, Zenon
<1> QED
  BY <1>1, ExportInvariance, PTL DEF Spec, RecordKept
=============================================================================
