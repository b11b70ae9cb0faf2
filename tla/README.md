# Kollect: TLA+ models and proofs

Kollect is a Kubernetes operator that collects selected fields of cluster objects into an in-memory
store and exports them to sinks. This directory holds TLA+ modules of the parts of it that run
concurrently, keep state across steps or recover from failures, the TLC configurations that check
them, and TLAPS proofs about the most delicate ones.

- [1. The system](#1-the-system)
- [2. Modules](#2-modules)
- [3. Runs](#3-runs)
- [4. What the violated runs show](#4-what-the-violated-runs-show)
- [5. Proofs](#5-proofs)
- [6. What is only model-checked](#6-what-is-only-model-checked)
- [7. Known limits of the code](#7-known-limits-of-the-code)
- [8. Not modelled](#8-not-modelled)

To check: `tlc -config BackendPool_safety.cfg MCBackendPool`, likewise for the other pairs of section
3, and `tlapm M.tla` for the modules of section 5. No run takes more than a few minutes;
`GitExportTruth` is proved in about ten, the other proof modules in about five at most.

## 1. The system

Data flows in one direction:

    Kubernetes API --informers--> collection engine --rows--> store
                                       ^                        | versions, notifications
    KollectTarget, KollectProfile -----+                        v
                                             inventory reconcilers --payload--> sinks
                                                   |                              ^
                                                   +-- backend pool, breaker -----+

| Part | State it keeps | What is hard about it |
|---|---|---|
| Collection engine and store rows (`internal/collect/engine.go`, `store.go`) | registrations, informers, dispatch queue, rows per target | several workers and producers for one object; calls that block on the queue while they hold a lock |
| Store notifications and streams (`store.go`, `inventory_store_source.go`, the HTTP API) | subscriptions, bounded channels, coalescing timer | lossy announcements of a store that changes while it is read |
| Inventory reconciler (`kollectinventory_controller.go`, `per_sink_export.go`) | status, debounce baselines, fingerprint cache | stale cache, failures per sink, lost status writes, restarts |
| Cluster inventory reconciler | the same, over several namespaces | several reads that do not see one state |
| Target reconcilers | registrations, conditions, finalizers | profiles, scopes and targets that come and go in any order |
| Sink and connection-test reconcilers | conditions, one-shot verdicts, probe cache | edits and owners between read and write |
| Deletion cleanup (`internal/sink/cleanup.go`, `sink_cleanup.go`) | finalizer, recorded paths | failures half way, shared destinations |
| Backend pool (`internal/sink/backend_pool.go`) and backend construction | clients, tombstones, generations, holders | everything interleaves outside the mutex |
| Export envelope, breaker and backends | breaker state, connections, the destination | parts, partial writes, retries, shared breakers |
| Git and GitLab sinks | warm mirror, fingerprints, ownership records, merge requests | shared repository, rejected and lost pushes, leftovers |
| Caches of authorization answers | entries with a TTL | stale answers, capacity |
| Webhooks, validation, serialization | none | pure functions, nothing interleaves |

What should hold: a sink ends up with what the store holds and the store with what the cluster holds;
a pass that skips or reports an export is right to do so; no inventory touches what another one owns;
a deleted target or inventory leaves nothing behind; clients of sinks are neither leaked nor used after
they were closed; nobody waits for ever. `PROJECT.json` lists every part with its source files and
the state of its model, the source lines of every definition, and the hazards at the lines where they
bite.

## 2. Modules

Components. An operator has the name of the function it stands for, where there is one.

| Module | Models |
|---|---|
| `BackendPool` | the pool of sink backends and its acquirers |
| `SinkBuild`, `SinkTrust` | the direct and the pooled path from a sink's spec and Secrets to a backend; what TLS trust and which credentials the backend ends up with |
| `Collection` | the collection engine and the rows of the store |
| `StoreWatch` | from a change of the store to a pass of the inventory controller, and to the streams of the HTTP API |
| `AccessCache` | the two caches of authorization answers |
| `Targets` | the reconcilers of KollectTarget and KollectClusterTarget |
| `InventoryExport` | the reconcile pass of one KollectInventory |
| `ClusterInventory` | the roll-up of a KollectClusterInventory |
| `Cleanup` | the deletion of inventories, a namespaced and a cluster one sharing one identity |
| `SinkProbe` | the family sink reconcilers, the connection test and the cache of remote refs |
| `SinkDelivery` | the parts of a payload through envelope and breaker into each kind of backend |
| `Destination` | what `SinkDelivery` promises the readers of a destination (abstract) |
| `SinkBackends` | the life of a backend's connection, and what it provisions |
| `LayoutExport` | the files of a git tree layout, its parts, their prune and the set manifest |
| `GitExport` | the Git engine: exports and releases of several inventories through one warm mirror |
| `GitFile` | git over `file://` through the CLI, several processes |
| `GitLabMR` | exports and releases through merge requests |

`MCBackendPool`, `MCCollection`, `MCInventoryExport` and `MCGitExport` instantiate one component each and
hold only bounds and symmetry. Four more compose several:

| Composite | Parts |
|---|---|
| `MCBuilds` | `BackendPool`, `SinkBuild` with `SinkTrust` |
| `MCSinks` | `SinkDelivery` with `Destination`, `SinkBackends`, `LayoutExport`, `GitFile`, `GitLabMR` |
| `MCControllers` | `Targets` (both reconcilers), `SinkProbe` (sinks, and sinks with a test) |
| `MCInventories` | `Cleanup`, `ClusterInventory`, `StoreWatch`, `AccessCache` |

In a composite the constant-in-time variable `part` says which component a behaviour is about; the
variables of the others rest. One run so checks several components that do not share state, and its
properties are conjunctions of theirs, each conditional on `part`. Where components do interact, one
module has the other's contract: the export step of `InventoryExport` and `ClusterInventory` succeeds,
or fails having changed the destination or not, which is what `SinkDelivery` and the Git modules do in
detail; their lossy notification is what `StoreWatch` does in detail; the access check of `Collection`
answers anything, stale answers of `AccessCache` included; the registration that `Targets` makes is the
call that `Collection` serves.

Operators named `<Operator>_<What>` whose comment begins with "Mutant" are deliberately wrong variants,
each listed under `mutants` in `PROJECT.json` with the property that notices it. They are not part of
the specification.

**BackendPool.** `pool` is `globalBackendPool` with the fields of its entries, `acq[p]` the locals of
goroutine p inside `acquireBackendWithReader` and until its release, `toClose` and `hookClose` the
backends that somebody must Close now that the lock is free. Each section under the mutex is one
action; each metadata read, full Secret read, build and Close is another. Secrets are created, changed
and deleted meanwhile, sinks deleted, the clock advances past the TTL. `snap`, `begin` and `fenced` are
history: what a backend was built from, what the Secrets were when an acquire began, and which builds
in flight were overtaken.

**Collection.** The API server, the informer's cache, its undelivered notifications, the bounded queue,
the registrations, the reconcilers inside engine calls and the workers. An object is a version with
what a target makes of it: it matches, is filtered, fails extraction, or is gone. A row is the version
it was extracted from. `raced` records the objects of which two jobs were on their way at once, or to
which access was refused, for which the code promises less.

**InventoryExport.** The pass is a sequence of steps: read the inventory from the cache, get the
fingerprint, preview the debounce, read the rows, decide each sink, export each, write the status. The
store, the specs and the sinks change between any two of them. A payload is the set of its rows, and a
checksum is the payload marked by the digest that computed it. Time is whether a baseline is still
fresh. A pass that is blocked (missing sink, scope, spill planning) is one action. `ClusterInventory` has
the same shape, with a step per read of each namespace, and merges the rows by UID in the order of the
code's sort.

**GitExport.** A commit is a tree with the set of its ancestors, a tree maps file and record names to
their content. The mirror has its refs, HEAD, index and worktree; the remote its branches. The lock
admits one operation, `op`; the outside pushes, merges and deletes branches between its steps.
Operations fail at each call to the remote, and while they write files. One inventory pushes to the
branch it clones with the policy Commit (direct mode), one forces its pushes to a feature branch
(branchMR mode).

**GitFile and GitLabMR.** Here a push is one step, and what matters is around it. In `GitFile` every
operation has a fresh clone, several processes push to one bare repository, and a rejected push is
rebased and tried again. In `GitLabMR` every push is forced, as `GitConfig` (gitlab/config.go:105) has it;
the warm mirror keeps feature branches with commits that were not pushed; requests are found, opened
and merged over REST. Both have the fingerprint that skips an export (`fp`). `lost` is history: the
inventories with a failed push that the retry does not repair.

**SinkDelivery and Destination.** Two writers share a destination of one of nine kinds. A snapshot is
cut into parts by size; each part passes the breaker, is written in the sequence of its backend (delete
and insert, upsert and prune, put, publish) and may fail, with or without having taken effect, at each
call. `Destination` has only what a reader sees and which snapshots may be seen; `ReadersSeeSnapshots`
is the statement that `SinkDelivery` implements it under the mapping `View`.

**Targets, SinkProbe, Cleanup.** Reconcilers with a queue, a cache that lags, and one step per call
to the API server; every object they read is edited, deleted and created again by others. In `SinkProbe`
the text of a failed probe is part of the condition, and the text of some kinds (`Novel`: S3, whose
errors carry a request id) is never the same twice. In `Cleanup` an export to a sink and the status write
that records its paths are two steps, and the second may fail; `wrote` is history: what the last export
of each sink wrote, and whether a status write has recorded it.

## 3. Runs

Passing runs. Deadlock is not checked: with the bounds used up and nothing to do the system stops.

| Run | Instance | Shows |
|---|---|---|
| `pool_safety` | 1 sink, a credentials and a CA Secret, 2 acquirers, 2 builds, 1 Secret write, TTL 0 and a clock that passes it, generations up to 2 | no backend is used after Close or leaked; what is acquired is fresh; nothing is pooled behind a tombstone; a build that was overtaken is not stored |
| `pool_live` | the pool with TTL 1, 1 build and one Secret, written once; beside it five families of sinks, Secrets, endpoints, DSNs and URIs | a retired backend is closed, an acquire ends; both paths build the backend the spec and the Secrets name |
| `collect_safety` | 1 target, 1 object with 2 versions, 2 workers, queue of 1, 3 engine calls, every answer of the access check | no rows of unregistered targets; the rows the last versions call for |
| `collect_live` | the same with 2 calls and access granted | engine calls return; a resync repairs live objects |
| `export_safety` | 1 row, a git and a database sink, the git sink a snapshot sink or not, both classes of failure, 1 mutation, 1 edit, 1 failure | baselines are true and recorded, the aggregate condition is honest |
| `export_live` | 2 mutations, 1 transient failure, 1 restart | sinks converge |
| `git_safety` | 2 inventories and 2 paths either may want, one inventory with Retain, 1 deletion, and two edits with a disturbance or two disturbances | what is reported is delivered, skips are right, claims are respected, nothing is orphaned, no commit leaves the clone branch |
| `sinks` | 2 writers, 9 kinds of destination, 3 snapshots, parts of 2, a breaker that trips at 2, 2 edits and 2 faults; the other parts with 1 fault | what is delivered is visible, sets are whole, readers see snapshots, others are spared, exports converge |
| `controllers` | a target, a cluster target, a sink, a sink with a test; 2 edits, 1 fault | a status at rest is true, a generation gets one verdict, reconcilers settle |
| `inventories` | 2 exports with their status writes, 2 edits and 1 fault of a deletion; 2 namespaces and 2 targets of a roll-up; a channel of 1 and 2 mutators; caches of capacity 1 | last exports are accounted for, what is derived is current, passes stay within what is selected, all settle |

Why the bounds are enough. The pool: a hazard needs a build in flight, one that overtakes it and an
aged generation; two acquirers give every pair of holders, and the theorems cover every other number.
`AcquireEnds` is about acquirers that wait for nobody: the Secret is written finitely often, which bounds
the re-reads of an acquire by itself, so the run does not put `poolReadAttempts` to the test.
The engine: two workers and two versions give every order of two jobs, a queue of one makes it full,
three calls allow to register, unregister and register again. The pass: two sinks give every mix of
exported, debounced and failed; a change between the two reads of the store is the case that matters.
Git: one disturbance to get into trouble and one more to meet it again during the recovery. Delivery:
three parts and two faults let an attempt fail in the middle and its retry fail again. Reconcilers: one
edit between read and write and one after it. Every property is also shown to fail for a plausible
mistake in the code (a dropped guard, a missing reset).

Fairness. Pool: goroutines run and calls to the API server time out, so every acquirer's next step and
every pending Close of a hook is weakly fair; that someone acquires is not assumed. Engine: workers,
watches and periodic resyncs are weakly fair; a sender that waits for the queue, or for `informerMu`, is
strongly fair, because Go serves channel senders in the order of arrival and its mutex, in starvation
mode, the waiters. Reconcilers: the workqueue runs what is due, RequeueAfter fires, intervals elapse
and caches catch up (weakly fair). Delivery: a writer's next step, and the clock of an open breaker.
Changes by users, failures and restarts are never fair, and finitely many. Symmetry is used in safety
runs only, over acquirers and workers.

Properties with a condition; section 7 says why.

- `Converged` leaves out `raced` objects. What two overlapping jobs of one object do is the subject of
  `ResyncHeals`, for live objects, and of the violated `ResyncIsBackstop`.
- `SinksConverge` leaves out database and event sinks with interval zero.
- `SkipIsRight` holds until a push is reported failed that landed, or an export dies while it writes
  files, and `NoOrphans` and `ReleasedIsGone` until the latter; `SingleClaims` leaves out releases of an
  inventory with Retain, which look at no record but their own.
- `ReportedIsDelivered` is about direct mode (for feature branches, see `git_stranded`), and `AppendOnly`
  about the branch that inventories in direct mode clone and push to with the policy Commit. Feature
  branches, and every branch of a GitLab sink, are force-pushed.
- `OwnersAnswer` and `OthersAreSpared`, for `file://`, leave out paths to which two inventories give the
  same content (`Alike`) and repositories some process force-pushes to; for merge requests,
  `OwnersAnswer` leaves out deletions in `lost`. `ExportsConverge` leaves out both, and inventories refused
  because of a record of another.
- `VerdictsHold` leaves out the one reconcile that patches the owner reference of a test.
- `ReconcilersSettle` lets a sink keep its reconciler busy when it has a preview, or when its probe fails
  with a new text every time.
- `LastExportAccountedFor` leaves out an export whose status write failed and whose sink got another path
  template before the next export.
- `DerivedIsCurrent` says nothing of a change whose announcement was dropped because the channel was full,
  or whose list failed. The periodic passes make up for those (`SinksConverge` is checked with lossy
  notifications), streams with their next read.

## 4. What the violated runs show

Each is a behaviour of the code that a comment or a document excludes; `findings` in `PROJECT.json`
quotes the text.

- `collect_backstop` (`ResyncIsBackstop`): a backfill lists an object, the object is deleted and its
  deletion dispatched, and then the copy is dispatched: a row of an object that no longer exists, which
  no resync removes.
- `git_stranded` (`FeatureReportedIsDelivered`): in branchMR mode an inventory has been exported, is edited
  and exported again, and this push fails. The commit stays on the mirror's branch, so the retry has
  nothing to commit and reports success, while the feature branch has the earlier payload.

## 5. Proofs

The theorems hold for every value of the constants that satisfies the named assumptions: finite,
non-empty sets of keys and acquirers (`PoolAssumption`), of objects (`CollectionAssumption`) and of sinks
(`ExportAssumption`), natural numbers for bounds and capacities, names that do not clash
(`Names_Disjoint`, `Payloads_Assumption`, `Lifecycle_Assumption`), and a feature branch per inventory in
branchMR mode (`Branch_Assumption`). A bound may be arbitrarily large, so the theorems are about
executions of any length.

| Module | Theorem | Statement |
|---|---|---|
| `BackendPoolProofs` | `TypeCorrect` | `Spec => []TypeOK` |
| | `CustodyHolds` | `Spec => []Custody` |
| | `NeverUsedAfterClose` | `Spec => []NoUseAfterClose` |
| | `NeverClosedTwice` | `Spec => []ClosedOnce` |
| | `NeverLeaked` | `Spec => []NoLeak` |
| `BackendPoolFence` | `TombstoneGuards` | `Spec => []TombstoneBlocksPooling` |
| | `OvertakenIsNotPooled` | `Spec => StoreFence` |
| | `AcquiresAreFresh` | `Spec => []AcquiredIsFresh` |
| `CollectionProofs` | `CollectionTypes` | `Spec => []TypeOK` |
| | `OrphansHaveNoRows` | `Spec => []NoOrphanRows` |
| `CollectionConvergence` | `StoreConverges` | `Spec /\ []KeepsKind(kd) => []Converged` |
| | `OneKindConverges` | with one kind, `Spec => []Converged` |
| `InventoryExportProofs` | `ExportTypes` | `Spec => []TypeOK` |
| | `BaselinesTellTheDestination` | `Spec => []SnapshotBaselineHolds` |
| | `DebouncesAreTrue` | `Spec => []SnapshotDebounceIsTrue` |
| | `BaselinesAreRecorded` | `Spec => []BaselineIsRecorded` |
| | `AggregatesAreHonest` | `Spec => []AggregateIsHonest` |
| | `RecordsAreKept` | only a pass that exported to a sink replaces its record (`RecordKept`) |
| `GitExportProofs` | `GitTypes` | `Spec => []TypeOK` |
| | `ReportsAreDelivered` | `Spec => []ReportedIsDelivered` |
| | `ClaimsStaySingle` | `Spec => []SingleClaims` |
| | `HistoryIsAppended` | `Spec => AppendOnly`: no commit leaves the clone branch, whatever is forced to feature branches through the same mirror |
| | `OthersStayUntouched` | `Spec => ForeignUntouched` |
| `GitExportTruth` | `SkipsAreRight` | `Spec => []SkipIsRight` |
| | `FilesAreRecorded` | `Spec => []NoOrphans` |
| | `ReleasesTakeRecords` | `Spec => ReleasedIsGone` |
| `StoreWatchProofs` | `ChangesAreNoticed` | `Spec => []NoticeCovered` |
| | `StreamsAreCurrent` | `Spec => []StreamCovered` |

The lemmas at the start of `BackendPoolProofs` type every intermediate pool of a locked section and show
what retiring, holding, dropping and pooling a backend do to its custody.

**The pool's custody.** That a backend is not used after Close, closed twice or leaked is not inductive:
that a release may close it depends on the holder count, that nobody else closes it depends on who
retired it. The inductive invariant is `TypeOK /\ Custody`, and `Custody` says that every backend has
exactly one party that will close it:

- `Handling`: an acquirer has a backend exactly from its build or hit to its release;
- `HolderCount`: the count in the pool is the number of acquirers that have not released it;
- `OwnerAlone`: a build not stored yet belongs to its builder only;
- `HeldIsLive`, `PooledIsLive`: what is held or pooled is not closed and about to be closed by nobody;
- `PendingOnce`: a pending Close is pending in one place;
- `Accounted`: what was built and not closed is pooled, held or pending.

A locked section prunes, retires, stores and holds in sequence, so the parts are predicates of the pool's
fields, and one lemma per operation carries them from one intermediate pool to the next.

**The pool's fence.** `FenceInv` adds that no key has a generation that was not handed out yet
(`HandedOut`) and that a build in flight remembers a generation which its key no longer has once the
build was overtaken (`BuildsRemember`). The delicate case is ageing: a generation that is forgotten is 0,
which no build remembers, and a later one is above the counter, so no old build matches again. Freshness
has an invariant of its own, `FreshInv`: what an acquire has read since it began, and what its backend was
built from, is no older than the Secrets were at its begin.

**The engine.** `NoOrphanRows` needs that the index is exact, that an engine call between its steps and a
worker between its snapshot and its write are where they should be (`CallsAreOrderly`,
`WorkersAreOrderly`) and that the informer's cache only follows the API server (`CacheFollows`). For
`Converged`, `CInv` says of every object whose jobs did not overlap that at most one worker is busy with
it, that the last word on its way is its latest version (`LastWord`), and that its rows are right or what
will put them right is still to come. It is stated for a map `kd` from targets to kinds, and the theorem
for the behaviours in which every registration of a target has its kind: without that it is false, since
a target that changes its kind keeps the rows of the old one (section 7). TLC checked `CInv` before it was
proved.

**The pass.** A baseline is right for two reasons at once: it was recorded by an export that wrote what
it digests, and every later write to the destination replaced or dropped it. `IInv` therefore accounts for
every sink at every stage of the pass (`PassAccounts`), keeps the two digests apart (`Digests`), orders
the generations of a sink that an edit changes (`Identities`), and ties each baseline to the persisted
record or to the pass that is about to persist it (`BaselinesAreOurs`).

**Git.** `History` says that ancestry is reflexive, transitive and goes back in time; `UnderWay` what an
operation between two calls may rely on: that the clone branch of its mirror is one the remote still has,
and that the commit about to be pushed holds what will be reported (`Pushable`). That delivered snapshots
stay in the history of the clone branch follows, since that branch only grows: a push to it is accepted
only as a fast-forward, and a merge adds to it. `Fair` describes the trees
an export may commit: its own record and files, what others claim as it was, and no path claimed twice.

**What the records say.** The three theorems of `GitExportTruth` rest on `TInv`, which adds to that
invariant what holds until an export dies while it writes (`used.dirty = 0`, the condition of the
properties too: such an export leaves files in the mirror that a later commit may carry along):

- `Exacts`: in every commit, and not only at the tips, the files an inventory wrote last are those its
  record claims. Stated for one inventory and one tree it survives an export, a release and any merge
  that takes each name from one side, because a merge takes the record and the files of an inventory
  from the same side (`MergedFacts`). An inventory that keeps its files is left out once it was deleted.
- `Roots`: a feature branch left the clone branch at a commit since which it has not touched the record
  of an inventory in direct mode. The base of a merge is at or after that commit, so the merge takes the
  record from the clone branch.
- `Fetched`, `Pending`: an operation in direct mode plans on the records that the clone branch has at
  the moment, and what it pushes changes its own record only.
- `Private`: a commit that is not pushed yet is on no other branch either, so that finding it on the
  remote means that the push has landed.
- `Remembered`: the fingerprint is the record on the clone branch.

`FilesAreRecorded` is `Exacts` at the tips, `SkipsAreRight` is `Remembered` with `Exacts`, and
`ReleasesTakeRecords` goes through the three ways in which a release ends: the push, the push found landed
by `verifySnapshotDelivered`, and nothing left to remove. A push of a stranded deletion occurs on feature
branches only: in direct mode the fetch has just reset the branch to the remote's.

**The store's announcements.** A change is on its way to a pass if it is about to be announced, in the
channel, with the source, pending or queued; the invariant also needs that no worker takes what the first
list enqueued before the source is subscribed (`Listed`), and says of a stream what it has read but not
shown (`Reading`). `NoticeCovered` and `StreamCovered` are parts of `DerivedIsCurrent`, which `inventories`
checks.

## 6. What is only model-checked

- All liveness, and every statement about ENABLED: out of the prover's reach.
- The refinement `ReadersSeeSnapshots` and the other properties of `SinkDelivery` and `LayoutExport`: they
  rest on what folds over sequences, partitioning and sorting compute, which needs induction over data.
- The properties of the composites, which are reached through `INSTANCE` and conjoin several components.

## 7. Known limits of the code

Met while modelling; they are why some properties have a condition. A definition named in parentheses
states what a document says and does not hold. TLC refutes each when it is checked alone, for the parts
of a composite under the condition on `part`, with the constants of its module's run, except:
`RestartKeepsExports` needs those of `export_live` with `Volatile = {}` and `Spec`, and
`ExistingCreatesNothing` and `DestinationIsNotReplaced` need deployments of NATS with both modes and two
subjects for one stream.

Collection and targets

- Two workers may apply two versions of one object in the opposite order, and the row of an object that
  left the watch set comes back until the object changes or the resync (`WatchSetDropped`;
  docs/adr/0205-watch-labels.md:54, "Items removed from the watch set are dropped from the in-memory store
  on update events").
- A target registered again for another kind keeps the rows of the former kind.
- `NamespacesForClusterTarget` (engine.go:400) matches any registered target by name.
- `setReady` writes nothing when the Ready condition is the same, other changes of the status included
  (kollecttarget_controller.go:228-230).
- A cluster target whose informer cannot be registered is not queued again and keeps surplus
  registrations; one whose profile cannot be read is unregistered everywhere. A namespaced target whose
  profile is missing stays registered. Some of these states recover at the sync period only.
- `scopeCeilingForTarget` returns an empty ceiling when its second LIST fails.

Passes

- After a restart the first pass may see the store empty, and exports that (`RestartKeepsExports`;
  docs/REQUIREMENTS.md:141, "Pod restart loses only in-memory cache; rebuilt from informer resync").
- A database or event sink with interval zero records the digest of an earlier read than the rows it
  exports. If the rows change to another set and back around the read, it keeps the other set until the
  next change.
- A sink that fails while others succeed is retried after the shortest interval of the others; the floor
  of the scope is zero when the scope cannot be loaded.
- A cluster inventory without bindings and with interval zero is never polled.
- The coalescing timer of the store source is restarted by every notification, so a steady stream of them
  delays the flush; the HTTP API's authorization cache never removes expired entries.

Deletion

- A deletion may leave objects behind without an event (`NoSilentRetention`;
  docs/adr/0421-snapshot-sink-deletion-policy.md:75, "Retraction has to be announced whenever it cannot be
  proven"), and may announce a retention where nothing was retained (sink/cleanup.go:332).
- The paths of an export are recorded by the status write that ends the pass. When that write fails, the
  path template of the sink is edited and the inventory deleted before the next export, nothing names the
  objects at the former paths: they stay, and no event says so.
- The cleanup of relational sinks does not look for the other inventory of a shared identity, and the
  look at the others is not atomic with the deletion.
- A deletion merge request with a custom path template may be undone by an export on the same branch;
  `DeletionIsNotUndone` is checked for the default template.

Git

- A push that landed and was reported failed leaves the earlier fingerprint. If the rows then return to
  the earlier payload, the export is skipped though the branch holds the other one.
- The fingerprint of an inventory survives its deletion, so when it is created again with the same rows
  its first export is skipped and reported, and it has no record (`RecreatedStartsRecord`;
  openspec/specs/git-tree-ownership/spec.md:130-131, "SHALL start a new record").
- Files written by an export that died stay in the mirror. They block later checkouts when they are
  tracked, and are staged by the next export, of any inventory, when they are not.
- In branchMR mode, a deletion commit whose push failed is not delivered if the feature branch is absent
  or diverged on the remote; the release then counts as done, and no merge request is opened.
- A GitLab export whose push failed finds a clean mirror when it is retried, and does not push. When the
  feature branch was merged and removed and the rows go back to what the mirror has, there is no source
  branch, and `EnsureMergeRequest` fails on every retry.
- GitLab sinks force every push (gitlab/config.go:105), in direct mode to the branch they clone: a commit
  pushed by someone else between the fetch and the push is taken off the branch.
- Over `file://`, two inventories that give one path the same content may both come to claim it, since git
  merges equal additions. Later exports are then refused, and the release of one deletes the file.
- Document mode keeps the part suffix in the name (export/partition.go:159), so the parts of a document are
  files of their own, which `SetsAreWhole` checks. layout_export.go:310 says "all parts overwrite ONE path",
  and docs/adr/0405-export-data-contract.md:105 "all parts overwrite one path — a degenerate set". Document
  mode is not pruned, so when an inventory shrinks to fewer parts the files of the others stay.
- In a tree layout whose rows span several parts, the parts before the last advance no record
  (prune_owned.go:166-168). When an attempt is cut short and a resource leaves before the next one, its
  file stays (`RemovedResourcesDropOut`). Two rows of different parts may render one path unnoticed
  (`NoSilentOverwrite`; layout.go:176, "no silent overwrite").

Sinks and tests

- A reader that finds every index of a part set under one generation may hold parts of two exports of
  that generation (`TornSetIsDetected`; docs/adr/0405-export-data-contract.md:63-66 and 122-125).
- `provisioning.mode=existing` of a NATS sink still creates its stream (`ExistingCreatesNothing`;
  docs/adr/0416-sink-config-layering.md, "`existing` forbids destination creation"), and an update of a
  stream may drop subjects (`DestinationIsNotReplaced`; the same document, "Neither mode permits
  destructive replacement of an existing destination").
- Destinations are provisioned once per backend; a table dropped later is noticed by the failing write.
  A 404 of BigQuery is terminal until the next edit. The message id of NATS holds the time of the export.
- A connection test may be judged by a cached probe of credentials that were replaced
  (`VerdictIsOfTheCredentials`; git/ref_cache.go:37-54).
- The reconcile that patches the owner reference of a test (`ownerSink`, the default) goes on with the
  object the patch returns (kollectconnectiontest_controller.go:156-171). If the cache was stale, it gives a
  generation that has a verdict a second one, or one about the sink that an earlier generation named;
  docs/crds/kollectconnectiontest.md:11 calls the probe "one-shot". A test whose `sinkRef` changes never
  completes, since its former sink owns it. `reconcileTTL` deletes without preconditions.
- A sink with a preview keeps its own reconciler busy, because the preview carries a time; so does one
  whose probe fails with a text that differs every time, such as the request id in an S3 error, because
  the text is part of the condition and the status write brings the next reconcile.

## 8. Not modelled

Serialization, redaction, extraction, path-template expansion, address checks, webhooks and the other
pure functions, except where a property depends on what they tell apart; metrics, flags and wiring; the
one-shot pipeline, which is sequential. Of the engine, the replacement of namespace-scoped informers; of the
pass, the planning of spills; of the Git engine, empty remotes, layouts without an owner and the policy
ForcePush on the clone branch (`GitFile` and, for GitLab in direct mode, `GitLabMR` have it). Of `file://`, the code for warm mirrors through the CLI, which nothing
reaches; of the access cache, `Invalidate`, which only tests call. `PROJECT.json` gives the reason part by
part.

Simplifications inside what is modelled:

- `Collection`: the fingerprint of a registration (engine.go:102-128) stands for all that a registration
  depends on; the code's leaves out whether a scope is enforced, and namespace metadata. Objects are
  independent UIDs: an object deleted and created again between two lists reaches the code as one update
  (engine.go:689-694), after which nothing removes the row of the former UID. That the first sync of an
  informer fails (engine.go:706-709) is left out.
- `InventoryExport`: the fingerprint never fails to compute; the code then returns the error, and has cached
  an empty fingerprint (kollectinventory_controller.go:80-87, 185-187). A sink that cannot be resolved and
  whose baseline is fresh is debounced; the code resolves first and reports a failure (328-331, 354-358).
- `Targets`: the namespaces are always listed; the code goes on with what it has, or with none, when the
  LIST fails (target_filter_resolve.go:44-46, 67-69).
