---------------------------- MODULE BackendPool ----------------------------
(***************************************************************************)
(* The process-wide pool of sink backends (internal/sink/backend_pool.go). *)
(*                                                                         *)
(* Acquirers are the goroutines that export to, clean up or test a sink.   *)
(* Every step that holds globalBackendPool.mu is one action; every Secret  *)
(* read, every build and every Close happens outside the mutex and is an   *)
(* action of its own, so all of them interleave.                           *)
(*                                                                         *)
(* Zero plays the part of Go's absent map entry: no pooled backend, no     *)
(* tombstone, no generation (the code reads an absent generation as 0) and *)
(* a Secret that was not read yet.  The clock therefore starts at 1.       *)
(***************************************************************************)
EXTENDS Integers, FiniteSets

CONSTANTS
    Keys,          \* pool keys: one per sink object (poolKeyForSink)
    Acquirers,     \* concurrent callers of acquireBackendWithReader
    Specs,         \* sink specs a caller may hold (its cached sink may be old)
    NoSpec,        \* the spec of no entry key
    Secrets,       \* the Secrets the specs reference
    CASecrets,     \* those of them that carry the CA bundle
    TTL,           \* backendPoolTTL
    MaxTime,       \* bound: last instant of the clock
    MaxBuilds,     \* bound: backends built in one behaviour
    MaxCounter,    \* bound: no acquire begins at this counter, no delete comes beyond it
    MaxWrites      \* bound: no Secret is written once one has this resourceVersion

ASSUME PoolAssumption ==
    /\ IsFiniteSet(Keys) /\ Keys # {}
    /\ IsFiniteSet(Acquirers) /\ Acquirers # {}
    /\ NoSpec \notin Specs
    /\ CASecrets \subseteq Secrets
    /\ TTL \in Nat /\ MaxTime \in Nat /\ MaxBuilds \in Nat
    /\ MaxCounter \in Nat /\ MaxWrites \in Nat

VARIABLES
    pool,       \* globalBackendPool, with the pooledEntry fields of each backend
    acq,        \* the locals of each acquirer
    toClose,    \* backends an acquirer must Close now that it has unlocked
    hookClose,  \* backends the delete hooks must Close
    snap,       \* backend -> the entry key it was built from
    built,      \* number of backends built so far
    closes,     \* backend -> number of Close calls on it
    secret,     \* the Secrets in the API server
    now,        \* timeNow()
    begin,      \* history: resourceVersions when the acquire began
    fenced      \* history: acquirers whose key was stored or retired since their lookup

vars == <<pool, acq, toClose, hookClose, snap, built, closes, secret, now, begin, fenced>>

poolReadAttempts == 2
Backends == 1..MaxBuilds
Versions == [Secrets -> Nat]
Unread == [s \in Secrets |-> 0]
EntryKey == [spec : Specs \cup {NoSpec}, versions : Versions]
NoKey == [spec |-> NoSpec, versions |-> Unread]

\* Entry keys are equal only if the spec and every Secret's version are.
poolEntryKey(sp, versions) == [spec |-> sp, versions |-> versions]

Pool == [entries : [Keys -> Backends \cup {0}], tombstones : [Keys -> Nat],
         generations : [Keys -> Nat], changed : [Keys -> Nat], counter : Nat,
         holders : [Backends -> Nat], retired : [Backends -> BOOLEAN],
         lastUsed : [Backends -> Nat]]

Stages == {"idle", "generation", "meta", "metaCA", "metaFailed",
           "fetch", "fetchCA", "fetchFailed", "store", "using"}

Acquirer == [pc : Stages, key : Keys, spec : Specs \cup {NoSpec},
             attempt : 1..poolReadAttempts, readGeneration : Nat, seen : Versions,
             gone : BOOLEAN, staleKey : EntryKey, generation : Nat, now : Nat,
             backend : Backends \cup {0}, owned : BOOLEAN]

Idle == [pc |-> "idle", key |-> CHOOSE k \in Keys : TRUE, spec |-> NoSpec,
         attempt |-> 1, readGeneration |-> 0, seen |-> Unread, gone |-> FALSE,
         staleKey |-> NoKey, generation |-> 0, now |-> 0, backend |-> 0, owned |-> FALSE]

TypeOK ==
    /\ pool \in Pool
    /\ acq \in [Acquirers -> Acquirer]
    /\ toClose \in [Acquirers -> SUBSET Backends]
    /\ hookClose \in SUBSET Backends
    /\ snap \in [Backends -> EntryKey]
    /\ built \in 0..MaxBuilds
    /\ closes \in [Backends -> Nat]
    /\ secret \in [Secrets -> [rv : Nat, state : {"ok", "empty", "missing"}]]
    /\ now \in Nat
    /\ begin \in [Acquirers -> Versions]
    /\ fenced \in SUBSET Acquirers

Init ==
    /\ pool = [entries |-> [k \in Keys |-> 0], tombstones |-> [k \in Keys |-> 0],
               generations |-> [k \in Keys |-> 0], changed |-> [k \in Keys |-> 0],
               counter |-> 0, holders |-> [b \in Backends |-> 0],
               retired |-> [b \in Backends |-> FALSE],
               lastUsed |-> [b \in Backends |-> 0]]
    /\ acq = [p \in Acquirers |-> Idle]
    /\ toClose = [p \in Acquirers |-> {}]
    /\ hookClose = {}
    /\ snap = [b \in Backends |-> NoKey]
    /\ built = 0
    /\ closes = [b \in Backends |-> 0]
    /\ secret = [s \in Secrets |-> [rv |-> 1, state |-> "ok"]]
    /\ now = 1
    /\ begin = [p \in Acquirers |-> Unread]
    /\ fenced = {}

-----------------------------------------------------------------------------
(* The helpers that run under globalBackendPool.mu, as functions of the pool. *)

\* Mutant: generations count per key, so they start over once one aged out.
bumpGenerationLocked_PerKey(pl, k) ==
    [pl EXCEPT !.counter = @ + 1, !.generations[k] = @ + 1, !.changed[k] = now]

bumpGenerationLocked(pl, k) ==
    [pl EXCEPT !.counter = @ + 1, !.generations[k] = pl.counter + 1, !.changed[k] = now]

generationLocked(pl, k) ==
    IF pl.generations[k] = 0 THEN bumpGenerationLocked(pl, k) ELSE pl

retireLocked(pl, k) ==
    LET b == pl.entries[k] IN
    IF b = 0 THEN bumpGenerationLocked(pl, k)
    ELSE [bumpGenerationLocked(pl, k) EXCEPT !.entries[k] = 0, !.retired[b] = TRUE]

\* Mutant: a retire closes the backend although acquirers still hold it.
ClosedByRetire_Held(pl, k) == {b \in Backends : b = pl.entries[k]}

\* Mutant: no release of a retired entry closes it.
Drained_Never(pl, b) == FALSE

\* The backend retireLocked returns for the caller to close after Unlock.
ClosedByRetire(pl, k) ==
    {b \in Backends : b = pl.entries[k] /\ pl.holders[b] = 0}

\* The test of a release that has just dropped one hold on b.
Drained(pl, b) == pl.retired[b] /\ pl.holders[b] = 0

\* Mutant: the hold of a hit is not counted, though its release is.
holdLocked_Uncounted(pl, b) == pl

holdLocked(pl, b) == [pl EXCEPT !.holders[b] = @ + 1]

Expired(t) == now - t > TTL

StaleKeys(pl) ==
    {k \in Keys : /\ pl.entries[k] # 0
                  /\ pl.holders[pl.entries[k]] = 0
                  /\ Expired(pl.lastUsed[pl.entries[k]])}

pruneExpiredTombstonesLocked(pl) ==
    [pl EXCEPT
        !.tombstones = [k \in Keys |-> IF Expired(pl.tombstones[k]) THEN 0 ELSE @[k]],
        !.generations = [k \in Keys |->
            IF pl.entries[k] = 0 /\ Expired(pl.changed[k]) THEN 0 ELSE @[k]]]

\* The orders in which the range over the entries map may retire the stale keys.
RetireOrders(S) ==
    {num \in [S -> 1..Cardinality(S)] : \A j, k \in S : num[j] = num[k] => j = k}

pruneStaleEntriesLocked(pl, num) ==
    LET S == DOMAIN num IN
    pruneExpiredTombstonesLocked(
        [pl EXCEPT
            !.counter = @ + Cardinality(S),
            !.entries = [k \in Keys |-> IF k \in S THEN 0 ELSE @[k]],
            !.retired = [b \in Backends |-> @[b] \/ \E k \in S : pl.entries[k] = b],
            !.generations = [k \in Keys |-> IF k \in S THEN pl.counter + num[k] ELSE @[k]],
            !.changed = [k \in Keys |-> IF k \in S THEN now ELSE @[k]]])

-----------------------------------------------------------------------------
(* Control of one acquirer.  It closes what it must before its next step.  *)

At(p, stage) == acq[p].pc = stage /\ toClose[p] = {}

Return(p) ==
    /\ acq' = [acq EXCEPT ![p] = Idle]
    /\ begin' = [begin EXCEPT ![p] = Unread]

force(p) == acq[p].attempt >= poolReadAttempts

\* Mutant: an entry is reused whenever the spec is unchanged.
Matches_SpecOnly(b, k) == snap[b].spec = k.spec

\* entry.key == entryKey
Matches(b, k) == snap[b] = k

\* Mutant: the delete-tombstone is not consulted.
Tombstoned_Never(k) == FALSE

\* The two tests of the store fence.
Tombstoned(k) == pool.tombstones[k] # 0
Unfenced(p, k) == pool.generations[k] = acq[p].generation

\* Acquirers between their lookup and their store for key k.
Building(k) == {q \in Acquirers : acq[q].pc \in {"fetch", "store"} /\ acq[q].key = k}

world == <<secret, now>>
builds == <<snap, built>>

Begin(p, k, sp) ==
    /\ At(p, "idle")
    /\ pool.counter < MaxCounter
    /\ acq' = [acq EXCEPT ![p] = [Idle EXCEPT !.pc = "generation", !.key = k, !.spec = sp]]
    /\ begin' = [begin EXCEPT ![p] = [s \in Secrets |-> secret[s].rv]]
    /\ UNCHANGED <<pool, toClose, hookClose, builds, closes, world, fenced>>

poolGenerationOf(p) ==
    /\ At(p, "generation")
    /\ pool' = generationLocked(pool, acq[p].key)
    /\ acq' = [acq EXCEPT ![p].pc = "meta", ![p].seen = Unread, ![p].gone = FALSE,
                          ![p].readGeneration = pool'.generations[acq[p].key]]
    /\ UNCHANGED <<toClose, hookClose, builds, closes, world, begin, fenced>>

\* referencedSecretRefs lists the Secrets in a fixed order, the CA Secret last.
ReadNext(p) ==
    LET unread == {s \in Secrets : acq[p].seen[s] = 0} IN
    CHOOSE s \in unread : s \notin CASecrets \/ unread \subseteq CASecrets

\* One successful GET of secretMeta or fetchSecrets.  The metadata of an empty
\* Secret reads like any other; a full read of it fails.
ReadSecret(p, s) ==
    /\ \/ At(p, "meta") /\ secret[s].state # "missing"
       \/ At(p, "fetch") /\ secret[s].state = "ok"
    /\ acq[p].seen[s] = 0 /\ s = ReadNext(p)
    /\ acq' = [acq EXCEPT ![p].seen[s] = secret[s].rv]
    /\ UNCHANGED <<pool, toClose, hookClose, builds, closes, world, begin, fenced>>

\* caRulesFirst reads the CA Secret unless it is the one that failed.
AfterFailedRead(pc, s) ==
    CASE pc = "meta" /\ CASecrets \ {s} # {} -> "metaCA"
      [] pc = "meta" /\ CASecrets \ {s} = {} -> "metaFailed"
      [] pc # "meta" /\ CASecrets \ {s} # {} -> "fetchCA"
      [] OTHER -> "fetchFailed"

\* A GET that fails: the Secret is missing (or read in full and empty), or the
\* read failed for another reason (timeout, cancelled, forbidden).
ReadFails(p, s, observedGone) ==
    /\ \/ At(p, "meta") /\ (observedGone => secret[s].state = "missing")
       \/ At(p, "fetch") /\ (observedGone => secret[s].state # "ok")
    /\ acq[p].seen[s] = 0 /\ s = ReadNext(p)
    /\ acq' = [acq EXCEPT ![p].gone = observedGone, ![p].pc = AfterFailedRead(@, s)]
    /\ UNCHANGED <<pool, toClose, hookClose, builds, closes, world, begin, fenced>>

\* caRulesFirst's own read of the CA Secret, which may fail or see it gone.
caRulesFirst(p, observedGone) ==
    /\ At(p, "metaCA") \/ At(p, "fetchCA")
    /\ observedGone => \E s \in CASecrets : secret[s].state # "ok"
    /\ acq' = [acq EXCEPT ![p].gone = @ \/ observedGone,
                          ![p].pc = IF @ = "metaCA" THEN "metaFailed" ELSE "fetchFailed"]
    /\ UNCHANGED <<pool, toClose, hookClose, builds, closes, world, begin, fenced>>

\* retirePoolEntry and retireEntryWithKey by acquirer p, and the Close they owe.
RetireBy(p, k) ==
    /\ pool' = retireLocked(pool, k)
    /\ toClose' = [toClose EXCEPT ![p] = ClosedByRetire(pool, k)]
    /\ fenced' = (fenced \cup Building(k)) \ {p}

\* observeAndLookup's error path for a missing or empty Secret: the read may
\* predate the pooled entry, so the first attempt reads again ...
MetaGoneReread(p) ==
    LET k == acq[p].key IN
    /\ At(p, "metaFailed") /\ acq[p].gone
    /\ ~force(p) /\ pool.entries[k] # 0
    /\ pool.generations[k] # acq[p].readGeneration
    /\ acq' = [acq EXCEPT ![p].pc = "generation", ![p].attempt = @ + 1,
                          ![p].staleKey = snap[pool.entries[k]]]
    /\ UNCHANGED <<pool, toClose, hookClose, builds, closes, world, begin, fenced>>

\* ... and otherwise the entry is retired and the acquire fails.
MetaGoneRetire(p) ==
    LET k == acq[p].key IN
    /\ At(p, "metaFailed") /\ acq[p].gone
    /\ \/ force(p)
       \/ pool.entries[k] = 0
       \/ pool.generations[k] = acq[p].readGeneration
    /\ RetireBy(p, k)
    /\ Return(p)
    /\ UNCHANGED <<hookClose, builds, closes, world>>

\* Any other failed read keeps the shared backend, unless an earlier read of
\* this acquire observed a change against the entry that is still pooled.
MetaError(p) ==
    LET k == acq[p].key
        b == pool.entries[k] IN
    /\ At(p, "metaFailed") /\ ~acq[p].gone
    /\ IF acq[p].staleKey # NoKey /\ b # 0 /\ Matches(b, acq[p].staleKey)
       THEN RetireBy(p, k)
       ELSE UNCHANGED <<pool, toClose, fenced>>
    /\ Return(p)
    /\ UNCHANGED <<hookClose, builds, closes, world>>

\* lookupOrRetire: prune, then hit, ask for a re-read, or miss (retiring an
\* entry the read did not match).  The Closes follow the Unlock.
LookupOutcome(p, k, wanted, pl, pruned, staleKeys) ==
    LET b == pl.entries[k]
        swept == fenced \cup UNION {Building(j) : j \in staleKeys} IN
    \/ /\ b # 0 /\ Matches(b, wanted)
       /\ pool' = generationLocked(holdLocked([pl EXCEPT !.lastUsed[b] = now], b), k)
       /\ acq' = [acq EXCEPT ![p].pc = "using", ![p].backend = b]
       /\ toClose' = [toClose EXCEPT ![p] = pruned]
       /\ fenced' = swept
    \/ /\ b # 0 /\ ~Matches(b, wanted) /\ ~force(p)
       /\ pl.generations[k] # acq[p].readGeneration
       /\ pool' = pl
       /\ acq' = [acq EXCEPT ![p].pc = "generation", ![p].attempt = @ + 1,
                             ![p].staleKey = snap[b]]
       /\ toClose' = [toClose EXCEPT ![p] = pruned]
       /\ fenced' = swept
    \/ /\ b # 0 => /\ ~Matches(b, wanted)
                   /\ force(p) \/ pl.generations[k] = acq[p].readGeneration
       /\ pool' = generationLocked(IF b = 0 THEN pl ELSE retireLocked(pl, k), k)
       /\ acq' = [acq EXCEPT ![p].pc = "fetch", ![p].seen = Unread, ![p].now = now,
                             ![p].generation = pool'.generations[k]]
       /\ toClose' = [toClose EXCEPT ![p] = pruned \cup ClosedByRetire(pl, k)]
       /\ fenced' = (swept \cup (IF b = 0 THEN {} ELSE Building(k))) \ {p}

lookupOrRetire(p) ==
    /\ At(p, "meta")
    /\ \A s \in Secrets : acq[p].seen[s] # 0
    /\ \E num \in RetireOrders(StaleKeys(pool)) :
          LookupOutcome(p, acq[p].key, poolEntryKey(acq[p].spec, acq[p].seen),
                        pruneStaleEntriesLocked(pool, num),
                        {pool.entries[k] : k \in DOMAIN num}, DOMAIN num)
    /\ UNCHANGED <<hookClose, builds, closes, world, begin>>

\* Mutant: the acquire does not return when the full read failed otherwise.
FetchFailed_GoneOnly(p) ==
    /\ At(p, "fetchFailed") /\ acq[p].gone
    /\ RetireBy(p, acq[p].key)
    /\ Return(p)
    /\ UNCHANGED <<hookClose, builds, closes, world>>

\* The full read failed: a missing or empty Secret retires what is pooled now.
FetchFailed(p) ==
    /\ At(p, "fetchFailed")
    /\ IF acq[p].gone
       THEN RetireBy(p, acq[p].key)
       ELSE /\ fenced' = fenced \ {p}
            /\ UNCHANGED <<pool, toClose>>
    /\ Return(p)
    /\ UNCHANGED <<hookClose, builds, closes, world>>

\* buildContextFromSecrets and reg.NewBackend: key and values are one snapshot.
NewBackend(p) ==
    /\ At(p, "fetch")
    /\ \A s \in Secrets : acq[p].seen[s] # 0
    /\ built < MaxBuilds
    /\ built' = built + 1
    /\ snap' = [snap EXCEPT ![built + 1] = poolEntryKey(acq[p].spec, acq[p].seen)]
    /\ acq' = [acq EXCEPT ![p].pc = "store", ![p].backend = built + 1, ![p].owned = TRUE]
    /\ UNCHANGED <<pool, toClose, hookClose, closes, world, begin, fenced>>

NewBackendFails(p) ==
    /\ At(p, "fetch")
    /\ \A s \in Secrets : acq[p].seen[s] # 0
    /\ Return(p)
    /\ fenced' = fenced \ {p}
    /\ UNCHANGED <<pool, toClose, hookClose, builds, closes, world>>

\* storePooledBackend for the backend "next" that acquirer p built.
storePooledBackend(p) ==
    LET k == acq[p].key
        next == acq[p].backend
        old == pool.entries[k]
        shared == ~Tombstoned(k) /\ old # 0 /\ Matches(old, snap[next])
        pooled == ~Tombstoned(k) /\ old = 0 /\ Unfenced(p, k) IN
    /\ At(p, "store")
    /\ \/ /\ shared
          /\ pool' = holdLocked([pool EXCEPT !.lastUsed[old] = acq[p].now], old)
          /\ acq' = [acq EXCEPT ![p].pc = "using", ![p].backend = old, ![p].owned = FALSE]
          /\ toClose' = [toClose EXCEPT ![p] = {next}]
          /\ fenced' = fenced \ {p}
       \/ /\ pooled
          /\ pool' = holdLocked(
                       [bumpGenerationLocked(pool, k) EXCEPT
                           !.entries[k] = next, !.lastUsed[next] = acq[p].now,
                           !.changed[k] = acq[p].now], next)
          /\ acq' = [acq EXCEPT ![p].pc = "using", ![p].owned = FALSE]
          /\ fenced' = (fenced \cup Building(k)) \ {p}
          /\ UNCHANGED toClose
       \/ /\ ~shared /\ ~pooled
          /\ acq' = [acq EXCEPT ![p].pc = "using"]
          /\ fenced' = fenced \ {p}
          /\ UNCHANGED <<pool, toClose>>
    /\ UNCHANGED <<hookClose, builds, closes, world, begin>>

\* The deferred release: an owning release closes the build, the release of the
\* last hold on a retired entry closes its backend, both after Unlock.
release(p) ==
    LET b == acq[p].backend IN
    /\ At(p, "using")
    /\ IF acq[p].owned
       THEN /\ toClose' = [toClose EXCEPT ![p] = {b}]
            /\ UNCHANGED pool
       ELSE /\ pool' = [pool EXCEPT !.holders[b] = @ - 1]
            /\ toClose' = [toClose EXCEPT ![p] = IF Drained(pool', b) THEN {b} ELSE {}]
    /\ Return(p)
    /\ UNCHANGED <<hookClose, builds, closes, world, fenced>>

closeBackendLogged(p, b) ==
    /\ b \in toClose[p]
    /\ closes' = [closes EXCEPT ![b] = @ + 1]
    /\ toClose' = [toClose EXCEPT ![p] = @ \ {b}]
    /\ UNCHANGED <<pool, acq, hookClose, builds, world, begin, fenced>>

\* EvictBackendPoolForSink, called by the family-sink delete watches.
evictPoolKeyForDelete(k) ==
    /\ pool.counter <= MaxCounter
    /\ pool' = pruneExpiredTombstonesLocked(
                  [retireLocked(pool, k) EXCEPT !.tombstones[k] = now])
    /\ hookClose' = hookClose \cup ClosedByRetire(pool, k)
    /\ fenced' = fenced \cup Building(k)
    /\ UNCHANGED <<acq, toClose, builds, closes, world, begin>>

HookClose(b) ==
    /\ b \in hookClose
    /\ closes' = [closes EXCEPT ![b] = @ + 1]
    /\ hookClose' = hookClose \ {b}
    /\ UNCHANGED <<pool, acq, toClose, builds, world, begin, fenced>>

\* A Secret is written, emptied, deleted or created again: each gives it a
\* resourceVersion it never had.
WriteSecret(s, state) ==
    /\ \A u \in Secrets : secret[u].rv < MaxWrites
    /\ secret' = [secret EXCEPT ![s] = [rv |-> @.rv + 1, state |-> state]]
    /\ UNCHANGED <<pool, acq, toClose, hookClose, builds, closes, now, begin, fenced>>

Tick ==
    /\ now < MaxTime
    /\ now' = now + 1
    /\ UNCHANGED <<pool, acq, toClose, hookClose, builds, closes, secret, begin, fenced>>

\* A step that an acquirer takes by itself once it has begun.
AcquirerStep(p) ==
    \/ poolGenerationOf(p)
    \/ \E s \in Secrets : ReadSecret(p, s)
    \/ \E s \in Secrets, g \in BOOLEAN : ReadFails(p, s, g)
    \/ \E g \in BOOLEAN : caRulesFirst(p, g)
    \/ MetaGoneReread(p) \/ MetaGoneRetire(p) \/ MetaError(p)
    \/ lookupOrRetire(p) \/ FetchFailed(p)
    \/ NewBackend(p) \/ NewBackendFails(p) \/ storePooledBackend(p)
    \/ release(p)
    \/ \E b \in Backends : closeBackendLogged(p, b)

Next ==
    \/ \E p \in Acquirers, k \in Keys, sp \in Specs : Begin(p, k, sp)
    \/ \E p \in Acquirers : AcquirerStep(p)
    \/ \E k \in Keys : evictPoolKeyForDelete(k)
    \/ \E b \in Backends : HookClose(b)
    \/ \E s \in Secrets, st \in {"ok", "empty", "missing"} : WriteSecret(s, st)
    \/ Tick

Spec == Init /\ [][Next]_vars

\* Fairness: goroutines run, GETs time out, exports end and their release is
\* deferred.  Nothing obliges a caller to acquire, a Secret or a sink to change.
Fairness ==
    /\ \A p \in Acquirers : WF_vars(AcquirerStep(p))
    /\ \A b \in Backends : WF_vars(HookClose(b))

FairSpec == Spec /\ Fairness

-----------------------------------------------------------------------------
Pooled(b) == \E k \in Keys : pool.entries[k] = b
ClosePending(b) == b \in hookClose \/ \E p \in Acquirers : b \in toClose[p]

\* No backend is closed while an acquirer holds it: retires, evictions and TTL
\* prunes leave the Close to the last release (retireLocked, holdLocked).
NoUseAfterClose ==
    \A p \in Acquirers : acq[p].backend # 0 => closes[acq[p].backend] = 0

\* Whoever retires, evicts, supersedes or releases a backend, and in whatever
\* order, it is closed at most once (holdLocked's drained test, owningRelease).
ClosedOnce == \A b \in Backends : closes[b] <= 1

\* No backend is forgotten: one that is not closed is pooled, in the hands of
\* an acquirer, or about to be closed by the step that took it out of the pool.
NoLeak ==
    \A b \in 1..built :
        closes[b] = 0 => \/ Pooled(b)
                         \/ \E p \in Acquirers : acq[p].backend = b
                         \/ ClosePending(b)

\* What acquireBackendWithReader returns was built from the caller's spec and
\* from Secrets at least as new as when the call began (SCR-1, SCR-2), although
\* the reads, the lookup and the build are not atomic.
AcquiredIsFresh ==
    \A p \in Acquirers : acq[p].pc = "using" =>
        /\ snap[acq[p].backend].spec = acq[p].spec
        /\ \A s \in Secrets : snap[acq[p].backend].versions[s] >= begin[p][s]

\* While a delete-tombstone guards its key nothing is pooled for the deleted
\* sink (BEP-1), not even by a build that was in flight when it was deleted.
TombstoneBlocksPooling ==
    \A k \in Keys : pool.tombstones[k] # 0 => pool.entries[k] = 0

\* The store fence: a build enters the pool only if nothing was stored or
\* retired for its key since its lookup, even if the key's generation aged out
\* in between (storePooledBackend, poolGeneration).
StoreFence ==
    [][\A p \in Acquirers :
          /\ acq[p].pc = "store"
          /\ ~Pooled(acq[p].backend)
          /\ \E k \in Keys : pool'.entries[k] = acq[p].backend
          => p \notin fenced]_vars

\* A retired backend is eventually closed: its holders release it, and the
\* Close that follows the Unlock is not lost.
RetiredIsClosed == \A b \in Backends : []<>(pool.retired[b] => closes[b] = 1)

\* Every acquire ends: no stage of it, failed reads included, is left without a next
\* step, and nobody waits for another acquirer's Close.
AcquireEnds == \A p \in Acquirers : []<>(acq[p].pc = "idle")

-----------------------------------------------------------------------------
(* The inductive invariant behind the first three properties: who answers   *)
(* for each backend.  Its parts are predicates of the pool pl, the acquirers *)
(* ac, the pending Closes tc and hc, the number n of builds and the Close    *)
(* counts cl, so that they can be followed through a step that prunes,       *)
(* retires and holds under one lock.                                         *)

Holders(b, ac) == {p \in Acquirers : ac[p].backend = b /\ ~ac[p].owned}
InPool(b, pl) == \E k \in Keys : pl.entries[k] = b
Pending(b, tc, hc) == b \in hc \/ \E p \in Acquirers : b \in tc[p]

\* An acquirer has a backend from its build, or its hit, to its release, and
\* owns its build until it is stored.
Handling ==
    \A p \in Acquirers :
        /\ acq[p].backend # 0 <=> acq[p].pc \in {"store", "using"}
        /\ acq[p].pc = "store" => acq[p].owned

HolderCount(pl, ac) ==
    \A b \in Backends : pl.holders[b] = Cardinality(Holders(b, ac))

OwnerAlone(pl, ac, tc, hc) ==
    \A p \in Acquirers : ac[p].owned =>
        /\ ac[p].backend # 0 /\ ~InPool(ac[p].backend, pl)
        /\ ~pl.retired[ac[p].backend] /\ ~Pending(ac[p].backend, tc, hc)
        /\ \A q \in Acquirers : ac[q].backend = ac[p].backend => q = p

HeldIsLive(pl, ac, tc, hc, n, cl) ==
    \A p \in Acquirers : ac[p].backend # 0 =>
        /\ ac[p].backend <= n /\ cl[ac[p].backend] = 0
        /\ ~Pending(ac[p].backend, tc, hc)
        /\ ac[p].owned \/ InPool(ac[p].backend, pl) \/ pl.retired[ac[p].backend]

PooledIsLive(pl, tc, hc, n, cl) ==
    \A k \in Keys : pl.entries[k] # 0 =>
        /\ pl.entries[k] <= n /\ cl[pl.entries[k]] = 0
        /\ ~pl.retired[pl.entries[k]] /\ ~Pending(pl.entries[k], tc, hc)
        /\ \A j \in Keys : pl.entries[j] = pl.entries[k] => j = k

PendingOnce(tc, hc, n, cl) ==
    \A b \in Backends :
        /\ Pending(b, tc, hc) => b <= n /\ cl[b] = 0
        /\ \A p \in Acquirers : b \in tc[p] =>
              b \notin hc /\ \A q \in Acquirers : b \in tc[q] => q = p

Accounted(pl, ac, tc, hc, n, cl) ==
    \A b \in Backends :
        /\ cl[b] <= 1
        /\ b > n => ~pl.retired[b] /\ cl[b] = 0
        /\ b <= n /\ cl[b] = 0 =>
              \/ InPool(b, pl) \/ Pending(b, tc, hc)
              \/ \E p \in Acquirers : ac[p].backend = b

CustodyOf(pl, ac, tc, hc, n, cl) ==
    /\ HolderCount(pl, ac)
    /\ OwnerAlone(pl, ac, tc, hc)
    /\ HeldIsLive(pl, ac, tc, hc, n, cl)
    /\ PooledIsLive(pl, tc, hc, n, cl)
    /\ PendingOnce(tc, hc, n, cl)
    /\ Accounted(pl, ac, tc, hc, n, cl)

\* Every backend has exactly one party that will close it: the pool, its owner,
\* the last holder of a retired entry, or the step that is about to Close it;
\* and the holder count is the number of acquirers that have not released it.
Custody == Handling /\ CustodyOf(pool, acq, toClose, hookClose, built, closes)
=============================================================================
