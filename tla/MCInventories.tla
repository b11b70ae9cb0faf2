---------------------------- MODULE MCInventories ----------------------------
(***************************************************************************)
(* What InventoryExport leaves out around an inventory, one at a time: a   *)
(* behaviour is one of the deletion of inventories (Cleanup), of a cluster *)
(* inventory's roll-up (ClusterInventory), of the announcements of the     *)
(* store (StoreWatch: the controller's source or a stream) or of a cache   *)
(* of authorization answers (AccessCache).  part tells which.              *)
(***************************************************************************)
EXTENDS Integers

CONSTANTS
    Absent

VARIABLES
    part,  \* the component
    env, obj, evid, open, wrote, snk, data, record, pass, due, events, exports, edits, faults, inv,
    young, labels, ready, store, scope, sick, tracker, dest, status, timer, rec, ver, mut,
    ch, started, pending, flushing, queue, work, seen, missed, sig, view, valid, right,
    entry, lru, call, changes

all == <<part, env, obj, evid, open, wrote, snk, data, record, pass, due, events, exports, edits, faults, inv,
         young, labels, ready, store, scope, sick, tracker, dest, status, timer, rec,
         ver, mut, ch, started, pending, flushing, queue, work, seen, missed, sig, view,
         valid, right, entry, lru, call, changes>>

(* Cleanup: two inventories of one identity over sinks of each kind. *)
TypeOf == [so |-> "object", sd |-> "dir", sg |-> "git", sm |-> "mr", sr |-> "rows", ss |-> "stream"]
Both == {"ni", "ci"}
BindingsOf == {[invs |-> Both, bindings |-> <<"so">>, reconciled |-> Both, legacy |-> FALSE],
               [invs |-> Both, bindings |-> <<"sg">>, reconciled |-> Both, legacy |-> FALSE],
               [invs |-> Both, bindings |-> <<"sd">>, reconciled |-> {"ni"}, legacy |-> TRUE],
               [invs |-> {"ni"}, bindings |-> <<"sm", "sr">>, reconciled |-> {"ni"}, legacy |-> TRUE],
               [invs |-> {"ni"}, bindings |-> <<"ss", "so">>, reconciled |-> {"ni"}, legacy |-> TRUE]}

(* ClusterInventory: two namespaces, two overlapping targets, a cluster-scoped resource. *)
SpecOf(i, e, d, z, q) == [gen |-> 1, interval |-> i, explicit |-> e, byUid |-> d, suspend |-> z,
                        refs |-> {}, bindings |-> q]
SpecsOf == {SpecOf(0, {}, TRUE, FALSE, <<1, 2>>), SpecOf(1, {2}, FALSE, FALSE, <<2>>),
            SpecOf(0, {2}, TRUE, TRUE, <<2>>)}
ClusterScopesOf == {[nsOK |-> TRUE, allowed |-> {}], [nsOK |-> FALSE, allowed |-> {}],
                    [nsOK |-> TRUE, allowed |-> {2}]}

cleanupVars == <<env, obj, evid, open, wrote, snk, data, record, pass, due, events, exports, edits, faults>>
rollupVars == <<inv, young, labels, ready, store, scope, sick, tracker, dest, status, due, timer, rec,
    edits, faults>>
watchVars == <<ver, mut, ch, started, timer, pending, flushing, queue, work, seen, missed, sig, view,
    faults>>
cacheVars == <<valid, right, entry, lru, call, changes>>

D == INSTANCE Cleanup WITH Inventories <- {"ni", "ci"}, Cluster <- {"ci"}, AllSinks <- DOMAIN TypeOf,
         Deployments <- BindingsOf, SinkType <- TypeOf, Templates <- {"doc", "gen", "hive"},
         maxRecordedExportPaths <- 1, MaxExports <- 2, MaxEdits <- 2, MaxFaults <- 1
R == INSTANCE ClusterInventory WITH NS <- {1, 2}, Targets <- {1, 2}, TargetSel <- <<{1, 2}, {2}>>,
         Uids <- {1}, GlobalUids <- {1}, Sinks <- {1, 2}, ObjectStores <- {1}, Specs <- SpecsOf,
         Scopes <- ClusterScopesOf, SpillRows <- 1, CapRows <- 2, MaxEdits <- 2, MaxFaults <- 1
N == INSTANCE StoreWatch WITH NS <- {1, 2}, Mutators <- {1, 2}, Clients <- {}, ChanCap <- 1,
         MaxChanges <- 2, MaxFaults <- 1
V == INSTANCE StoreWatch WITH NS <- {1, 2}, Mutators <- {1, 2}, Clients <- {1}, ChanCap <- 1,
         MaxChanges <- 1, MaxFaults <- 1
A == INSTANCE AccessCache WITH Cache <- "access", Keys <- {1, 2}, Callers <- {1, 2}, TTL <- 2,
         Capacity <- 1, RequireGet <- TRUE, MaxChanges <- 2
H == INSTANCE AccessCache WITH Cache <- "auth", Keys <- {1}, Callers <- {1, 2}, TTL <- 2,
         Capacity <- 1, RequireGet <- TRUE, MaxChanges <- 2
J == INSTANCE AccessCache WITH Cache <- "auth", Keys <- {1}, Callers <- {1, 2}, TTL <- 1,
         Capacity <- 1, RequireGet <- FALSE, MaxChanges <- 2

(* The variables that are not of a component hold nothing while it runs. *)
not_cleanup == <<inv, young, labels, ready, store, scope, sick, tracker, dest, status, timer, rec, ver,
    mut, ch, started, pending, flushing, queue, work, seen, missed, sig, view, valid,
    right, entry, lru, call, changes>>
not_rollup == <<env, obj, evid, open, wrote, snk, data, record, pass, events, exports, ver, mut, ch, started,
    pending, flushing, queue, work, seen, missed, sig, view, valid, right, entry, lru,
    call, changes>>
not_watch == <<env, obj, evid, open, wrote, snk, data, record, pass, due, events, exports, edits, inv, young,
    labels, ready, store, scope, sick, tracker, dest, status, rec, valid, right, entry,
    lru, call, changes>>
not_cache == <<env, obj, evid, open, wrote, snk, data, record, pass, due, events, exports, edits, faults, inv,
    young, labels, ready, store, scope, sick, tracker, dest, status, timer, rec, ver,
    mut, ch, started, pending, flushing, queue, work, seen, missed, sig, view>>

Start ==
    \/ /\ part = "cleanup" /\ D!Init
       /\ inv = 0 /\ young = 0 /\ labels = 0 /\ ready = 0 /\ store = 0 /\ scope = 0
       /\ sick = 0 /\ tracker = 0 /\ dest = 0 /\ status = 0 /\ timer = 0 /\ rec = 0
       /\ ver = 0 /\ mut = 0 /\ ch = 0 /\ started = 0 /\ pending = 0 /\ flushing = 0
       /\ queue = 0 /\ work = 0 /\ seen = 0 /\ missed = 0 /\ sig = 0 /\ view = 0
       /\ valid = 0 /\ right = 0 /\ entry = 0 /\ lru = 0 /\ call = 0 /\ changes = 0
    \/ /\ part = "rollup" /\ R!Init
       /\ env = 0 /\ obj = 0 /\ evid = 0 /\ open = 0 /\ wrote = 0 /\ snk = 0 /\ data = 0 /\ record = 0 /\ pass = 0
       /\ events = 0 /\ exports = 0 /\ ver = 0 /\ mut = 0 /\ ch = 0 /\ started = 0
       /\ pending = 0 /\ flushing = 0 /\ queue = 0 /\ work = 0 /\ seen = 0 /\ missed = 0
       /\ sig = 0 /\ view = 0 /\ valid = 0 /\ right = 0 /\ entry = 0 /\ lru = 0 /\ call = 0
       /\ changes = 0
    \/ /\ (part = "source" /\ N!Init) \/ (part = "stream" /\ V!Init)
       /\ env = 0 /\ obj = 0 /\ evid = 0 /\ open = 0 /\ wrote = 0 /\ snk = 0 /\ data = 0 /\ record = 0 /\ pass = 0
       /\ due = 0 /\ events = 0 /\ exports = 0 /\ edits = 0 /\ inv = 0 /\ young = 0
       /\ labels = 0 /\ ready = 0 /\ store = 0 /\ scope = 0 /\ sick = 0 /\ tracker = 0
       /\ dest = 0 /\ status = 0 /\ rec = 0 /\ valid = 0 /\ right = 0 /\ entry = 0
       /\ lru = 0 /\ call = 0 /\ changes = 0
    \/ /\ (part = "access" /\ A!Init) \/ (part = "auth" /\ H!Init) \/ (part = "token" /\ J!Init)
       /\ env = 0 /\ obj = 0 /\ evid = 0 /\ open = 0 /\ wrote = 0 /\ snk = 0 /\ data = 0 /\ record = 0 /\ pass = 0
       /\ due = 0 /\ events = 0 /\ exports = 0 /\ edits = 0 /\ faults = 0 /\ inv = 0
       /\ young = 0 /\ labels = 0 /\ ready = 0 /\ store = 0 /\ scope = 0 /\ sick = 0
       /\ tracker = 0 /\ dest = 0 /\ status = 0 /\ timer = 0 /\ rec = 0 /\ ver = 0
       /\ mut = 0 /\ ch = 0 /\ started = 0 /\ pending = 0 /\ flushing = 0 /\ queue = 0
       /\ work = 0 /\ seen = 0 /\ missed = 0 /\ sig = 0 /\ view = 0

(* Only the variables of the component change. *)
only_cleanup == UNCHANGED <<part, not_cleanup>>
only_rollup == UNCHANGED <<part, not_rollup>>
only_watch == UNCHANGED <<part, not_watch>>
only_cache == UNCHANGED <<part, not_cache>>

Step ==
    \/ part = "cleanup" /\ D!Next /\ only_cleanup
    \/ part = "rollup" /\ R!Next /\ only_rollup
    \/ part = "source" /\ N!Next /\ only_watch
    \/ part = "stream" /\ V!Next /\ only_watch
    \/ part = "access" /\ A!Next /\ only_cache
    \/ part = "auth" /\ H!Next /\ only_cache
    \/ part = "token" /\ J!Next /\ only_cache

MCFairness ==
    /\ \A i \in {"ni", "ci"} : WF_cleanupVars(part = "cleanup" /\ D!Cleaning(i))
    /\ WF_rollupVars(part = "rollup" /\ R!Start)
    /\ WF_rollupVars(part = "rollup" /\ R!Steps)
    /\ WF_watchVars(part = "source" /\ N!Progress)
    /\ WF_watchVars(part = "stream" /\ V!Progress)
    /\ WF_cacheVars(part = "access" /\ A!Tick)
    /\ \A c \in {1, 2} : WF_cacheVars(part = "access" /\ A!Call(c)) /\ WF_cacheVars(part = "access" /\ A!Return(c))
    /\ WF_cacheVars(part = "auth" /\ H!Tick)
    /\ \A c \in {1, 2} : WF_cacheVars(part = "auth" /\ H!Call(c)) /\ WF_cacheVars(part = "auth" /\ H!Return(c))
    /\ WF_cacheVars(part = "token" /\ J!Tick)
    /\ \A c \in {1, 2} : WF_cacheVars(part = "token" /\ J!Call(c)) /\ WF_cacheVars(part = "token" /\ J!Return(c))

MCSpec == Start /\ [][Step]_all /\ MCFairness

-----------------------------------------------------------------------------
\* Once the finalizer of an inventory is gone, what its last export wrote is
\* gone too, or an event announced that it stays, through crashes, retries,
\* edits of sinks and templates and status writes that fail (ADR-0421;
\* recordedExportPathsUnaddressed).  The exception is an export whose status
\* write failed and whose sink then got another path template (updateStatus).
LastExportAccountedFor == part = "cleanup" => D!TypeOK /\ D!LastExportAccountedFor

\* What is derived from the store keeps up with it.  A change that no pass has
\* read is on its way to one, unless the channel was full or a list failed
\* (notifyWatchers, the source's loop); a waiting stream has shown what the store
\* holds, unless a signal waits for it or a change is about to be announced
\* (handleWatch); a sink that a roll-up counts as up to date holds that roll-up
\* (shouldSkip); the list and the map of AccessChecker agree and stay within the
\* capacity.
DerivedIsCurrent ==
    /\ part = "source" => N!TypeOK /\ N!NoticeCovered
    /\ part = "stream" => V!TypeOK /\ V!StreamCovered
    /\ part = "rollup" => R!TypeOK /\ R!UpToDateIsDelivered
    /\ part = "access" => A!TypeOK /\ A!CacheBounded
    /\ part = "auth" => H!TypeOK
    /\ part = "token" => J!TypeOK

\* A pass touches only what it may.  A retraction removes nothing that another
\* inventory of the same identity wrote, if that inventory existed when the pass
\* asked (retractionPrecheck); an exported row comes from a namespace the pass
\* selected, and no resource is exported twice (composeNamespaceRollup); a pass
\* that read a denied sink namespace exports nothing, whatever the interval
\* (RequeueAfterForZeroInterval makes its Result non-zero).
PassesStayWithin ==
    [][/\ part = "cleanup" => D!SparesOthers
       /\ part = "rollup" => R!OfTheSelection /\ R!NotDenied]_all

\* Everything pending is done in the end.  A deletion finishes unless a sink that
\* has to be reached lacks its Secret; once the cluster stops changing, every
\* sink of an inventory that nothing blocks holds the roll-up; every change is
\* read by a pass, unless its announcement was dropped or its list failed; once
\* rights stop changing, the answers of both caches become right and stay so.
InventoriesSettle ==
    /\ \A i \in Both : []<>(part = "cleanup" => D!Unheld(i))
    /\ \A n \in {1, 2} : []<>(part = "source" => N!Arrived(n))
    /\ <>[](/\ part = "rollup" => R!RolledUp
            /\ part = "access" => A!AllRight
            /\ part = "auth" => H!AllRight
            /\ part = "token" => J!AllRight)
=============================================================================
