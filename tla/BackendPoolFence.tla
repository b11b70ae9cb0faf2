-------------------------- MODULE BackendPoolFence --------------------------
(***************************************************************************)
(* The fence of the pool: what a build that was overtaken may not do, and  *)
(* what an acquire may return.                                             *)
(***************************************************************************)
EXTENDS BackendPoolProofs

-----------------------------------------------------------------------------
(* The generations.  Every retire and every store gives its key a           *)
(* generation above the counter, and ageing gives it none.                  *)

\* No key has a generation that was not handed out yet.
HandedOut(pl) == \A k \in Keys : pl.generations[k] <= pl.counter

\* From pl to ql the keys of S were stored or retired; others may have aged.
Advances(pl, ql, S) ==
    /\ HandedOut(ql)
    /\ pl.counter <= ql.counter
    /\ \A k \in Keys : \/ k \notin S /\ ql.generations[k] = pl.generations[k]
                       \/ ql.generations[k] = 0
                       \/ ql.generations[k] > pl.counter

\* From pl to ql no key got an entry, and a tombstone only without one.
Shrinks(pl, ql) ==
    \A k \in Keys : /\ ql.entries[k] \in {pl.entries[k], 0}
                    /\ ql.tombstones[k] # 0 => pl.tombstones[k] # 0 \/ ql.entries[k] = 0

\* Two moves of the pool under one lock make one.
LEMMA MovesCompose ==
    ASSUME NEW pl \in Pool, NEW ql \in Pool, NEW rl \in Pool, NEW S, NEW T,
           Advances(pl, ql, S), Advances(ql, rl, T), Shrinks(pl, ql), Shrinks(ql, rl)
    PROVE  Advances(pl, rl, S \cup T) /\ Shrinks(pl, rl)
<1>1. pl.counter \in Nat /\ ql.counter \in Nat /\ rl.counter \in Nat
  BY Zenon DEF Pool
<1>2. \A k \in Keys : ql.generations[k] \in Nat /\ rl.generations[k] \in Nat
  BY Zenon DEF Pool
<1>3. pl.counter <= rl.counter
  BY <1>1 DEF Advances
<1>4. ASSUME NEW k \in Keys
      PROVE  \/ k \notin S \cup T /\ rl.generations[k] = pl.generations[k]
             \/ rl.generations[k] = 0
             \/ rl.generations[k] > pl.counter
  BY <1>1, <1>2 DEF Advances
<1>5. Shrinks(pl, rl)
  BY Zenon DEF Shrinks
<1> QED
  BY <1>3, <1>4, <1>5, Zenon DEF Advances

\* bumpGenerationLocked and generationLocked hand out the next generation.
LEMMA GenerationMoves ==
    ASSUME NEW pl \in Pool, NEW k \in Keys, HandedOut(pl), now \in Nat
    PROVE  /\ Advances(pl, bumpGenerationLocked(pl, k), {k})
           /\ Shrinks(pl, bumpGenerationLocked(pl, k))
           /\ Advances(pl, generationLocked(pl, k), {})
           /\ Shrinks(pl, generationLocked(pl, k))
           /\ generationLocked(pl, k).generations[k] # 0
<1> DEFINE ql == bumpGenerationLocked(pl, k)
<1>1. pl.counter \in Nat /\ pl.generations \in [Keys -> Nat]
  BY Zenon DEF Pool
<1>2. /\ ql.counter = pl.counter + 1
      /\ ql.generations = [pl.generations EXCEPT ![k] = pl.counter + 1]
      /\ ql.entries = pl.entries /\ ql.tombstones = pl.tombstones
  BY Zenon DEF bumpGenerationLocked, Pool
<1> HIDE DEF ql
<1>3. \A j \in Keys : ql.generations[j] = IF j = k THEN pl.counter + 1 ELSE pl.generations[j]
  BY <1>1, <1>2, Zenon
<1>4. HandedOut(ql)
  BY <1>1, <1>2, <1>3 DEF HandedOut
<1>5. Advances(pl, ql, {k}) /\ (pl.generations[k] = 0 => Advances(pl, ql, {}))
  BY <1>1, <1>2, <1>3, <1>4 DEF Advances
<1>6. Shrinks(pl, ql)
  BY <1>2, Zenon DEF Shrinks
<1>7. Advances(pl, pl, {}) /\ Shrinks(pl, pl)
  BY <1>1 DEF Advances, Shrinks
<1>8. generationLocked(pl, k) = IF pl.generations[k] = 0 THEN ql ELSE pl
  BY Zenon DEF generationLocked, ql
<1>9. generationLocked(pl, k).generations[k] # 0
  BY <1>1, <1>3, <1>8
<1> QED
  BY <1>5, <1>6, <1>7, <1>8, <1>9, Zenon DEF ql

\* retireLocked moves its key to the next generation and drops its entry.
LEMMA RetireMoves ==
    ASSUME NEW pl \in Pool, NEW k \in Keys, HandedOut(pl), now \in Nat
    PROVE  Advances(pl, retireLocked(pl, k), {k}) /\ Shrinks(pl, retireLocked(pl, k))
           /\ retireLocked(pl, k).entries[k] = 0
<1> DEFINE gl == bumpGenerationLocked(pl, k)
           ql == retireLocked(pl, k)
<1>1. gl \in Pool /\ gl.entries = pl.entries /\ Advances(pl, gl, {k}) /\ Shrinks(pl, gl)
  BY GenerationType, GenerationMoves, Zenon DEF bumpGenerationLocked, Pool
<1>2. ql.counter = gl.counter /\ ql.generations = gl.generations /\ ql.tombstones = gl.tombstones
  BY <1>1, Zenon DEF retireLocked, Pool
<1>3. \A j \in Keys : ql.entries[j] = IF j = k THEN 0 ELSE pl.entries[j]
  BY <1>1, Zenon DEF retireLocked, Pool
<1> HIDE DEF gl, ql
<1>4. Advances(pl, ql, {k})
  BY <1>1, <1>2, Zenon DEF Advances, HandedOut
<1>5. Shrinks(pl, ql)
  BY <1>1, <1>2, <1>3, Zenon DEF Shrinks
<1> QED
  BY <1>3, <1>4, <1>5, Zenon DEF ql

\* pruneExpiredTombstonesLocked only forgets.
LEMMA TombstoneMoves ==
    ASSUME NEW pl \in Pool, HandedOut(pl)
    PROVE  /\ Advances(pl, pruneExpiredTombstonesLocked(pl), {})
           /\ Shrinks(pl, pruneExpiredTombstonesLocked(pl))
<1> DEFINE ql == pruneExpiredTombstonesLocked(pl)
<1>1. pl.counter \in Nat /\ pl.generations \in [Keys -> Nat]
  BY Zenon DEF Pool
<1>2. ql.counter = pl.counter /\ ql.entries = pl.entries
  BY Zenon DEF pruneExpiredTombstonesLocked, Pool
<1>3. \A k \in Keys : /\ ql.generations[k] \in {pl.generations[k], 0}
                      /\ ql.tombstones[k] # 0 => pl.tombstones[k] # 0
  BY Zenon DEF pruneExpiredTombstonesLocked, Pool
<1> HIDE DEF ql
<1> QED
  BY <1>1, <1>2, <1>3 DEF Advances, HandedOut, Shrinks, ql

\* pruneStaleEntriesLocked retires the stale keys, each at a generation of its
\* own above the counter, in whatever order the map is ranged over.
LEMMA PruneMoves ==
    ASSUME NEW pl \in Pool, now \in Nat, NEW num \in RetireOrders(StaleKeys(pl)), HandedOut(pl)
    PROVE  /\ Advances(pl, pruneStaleEntriesLocked(pl, num), DOMAIN num)
           /\ Shrinks(pl, pruneStaleEntriesLocked(pl, num))
<1> DEFINE S == DOMAIN num
           ql == [pl EXCEPT
            !.counter = @ + Cardinality(S),
            !.entries = [k \in Keys |-> IF k \in S THEN 0 ELSE @[k]],
            !.retired = [b \in Backends |-> @[b] \/ \E k \in S : pl.entries[k] = b],
            !.generations = [k \in Keys |-> IF k \in S THEN pl.counter + num[k] ELSE @[k]],
            !.changed = [k \in Keys |-> IF k \in S THEN now ELSE @[k]]]
<1>1. S = StaleKeys(pl) /\ num \in [S -> 1..Cardinality(S)]
  BY Zenon DEF RetireOrders
<1>2. S \subseteq Keys /\ IsFiniteSet(S)
  BY <1>1, PoolAssumption, FS_Subset, Zenon DEF StaleKeys
<1>3. Cardinality(S) \in Nat /\ \A k \in S : num[k] \in 1..Cardinality(S)
  BY <1>1, <1>2, FS_CardinalityType, Zenon
<1>4. pl.counter \in Nat /\ \A k \in Keys : pl.generations[k] \in Nat
  BY Zenon DEF Pool
<1>5. pl.counter + Cardinality(S) \in Nat /\ \A k \in S : pl.counter + num[k] \in Nat
  BY <1>3, <1>4
<1>6. ql \in Pool
  BY <1>5, Zenon DEF Pool
<1>7. ql.counter = pl.counter + Cardinality(S) /\ ql.tombstones = pl.tombstones
  BY Zenon DEF Pool
<1>8. \A k \in Keys : /\ ql.entries[k] = IF k \in S THEN 0 ELSE pl.entries[k]
                      /\ ql.generations[k] = IF k \in S THEN pl.counter + num[k] ELSE pl.generations[k]
  BY Zenon DEF Pool
<1>9. pruneStaleEntriesLocked(pl, num) = pruneExpiredTombstonesLocked(ql)
  BY Zenon DEF pruneStaleEntriesLocked
<1> HIDE DEF ql, S
<1>10. HandedOut(ql)
  BY <1>3, <1>4, <1>7, <1>8 DEF HandedOut
<1>11. Advances(pl, ql, S)
  BY <1>3, <1>4, <1>7, <1>8, <1>10 DEF Advances
<1>12. Shrinks(pl, ql)
  BY <1>7, <1>8, Zenon DEF Shrinks
<1>13. pruneExpiredTombstonesLocked(ql) \in Pool
  BY <1>6, PruneTombstonesType, Zenon
<1>14. /\ Advances(ql, pruneExpiredTombstonesLocked(ql), {})
       /\ Shrinks(ql, pruneExpiredTombstonesLocked(ql))
  BY <1>6, <1>10, TombstoneMoves, Zenon
<1>15. /\ Advances(pl, pruneExpiredTombstonesLocked(ql), S \cup {})
       /\ Shrinks(pl, pruneExpiredTombstonesLocked(ql))
  BY <1>6, <1>11, <1>12, <1>13, <1>14, MovesCompose, Zenon
<1>16. S \cup {} = S
  BY Zenon
<1> QED
  BY <1>9, <1>15, <1>16, Zenon DEF S

-----------------------------------------------------------------------------
(* What a step does to the builds in flight and to the entries. *)

\* A build in flight keeps the key and the generation of its lookup, or it has
\* just been looked up, with the generation its key has now.
Remembers(q) ==
    acq'[q].pc \in {"fetch", "store"} =>
        \/ /\ acq[q].pc \in {"fetch", "store"}
           /\ acq'[q].key = acq[q].key /\ acq'[q].generation = acq[q].generation
        \/ /\ q \notin fenced'
           /\ acq'[q].generation = pool'.generations[acq'[q].key]
           /\ acq'[q].generation # 0

\* Acquirer p stores its build under key k, past both tests of the fence.
StoresAt(p, k) ==
    /\ acq[p].pc = "store" /\ acq[p].key = k
    /\ pool'.entries[k] = acq[p].backend
    /\ ~Tombstoned(k) /\ pool'.tombstones[k] = pool.tombstones[k] /\ Unfenced(p, k)

\* A key gets an entry only when a build is stored, a tombstone only without one.
Enters(k) ==
    \/ /\ pool'.entries[k] \in {pool.entries[k], 0}
       /\ pool'.tombstones[k] # 0 => pool.tombstones[k] # 0 \/ pool'.entries[k] = 0
    \/ \E p \in Acquirers : StoresAt(p, k)

\* The step stored or retired the keys of S and fenced at most their builds.
Fences(S) ==
    /\ Advances(pool, pool', S)
    /\ \A q \in fenced' : q \in fenced \/ \E k \in S : q \in Building(k)
    /\ \A q \in Acquirers : Remembers(q)
    /\ \A k \in Keys : Enters(k)

\* Steps that leave the pool and the fenced builds alone.
LEMMA QuietFences ==
    ASSUME IInv, HandedOut(pool), UNCHANGED <<pool, fenced>>, \A q \in Acquirers : Remembers(q)
    PROVE  Fences({})
<1>1. Advances(pool, pool, {})
  BY DEF IInv, TypeOK, Pool, Advances
<1> QED
  BY <1>1, Zenon DEF Fences, Enters

\* retirePoolEntry and retireEntryWithKey fence the builds of their key.
LEMMA RetireFences ==
    ASSUME IInv, HandedOut(pool), NEW p \in Acquirers, NEW k \in Keys, RetireBy(p, k), Return(p)
    PROVE  Fences({k})
<1>1. pool \in Pool /\ now \in Nat /\ acq \in [Acquirers -> Acquirer]
  BY Zenon DEF IInv, TypeOK
<1>2. Advances(pool, pool', {k}) /\ Shrinks(pool, pool')
  BY <1>1, RetireMoves, Zenon DEF RetireBy
<1>3. \A q \in Acquirers : Remembers(q)
  BY <1>1, Zenon DEF Return, Remembers, Idle
<1> QED
  BY <1>2, <1>3, Zenon DEF Fences, Enters, Shrinks, RetireBy

\* lookupOrRetire fences the builds of the keys it prunes and of the entry it
\* retires; its own build starts at the generation it leaves.
LEMMA LookupFences ==
    ASSUME IInv, HandedOut(pool), NEW p \in Acquirers, lookupOrRetire(p)
    PROVE  \E S \in SUBSET Keys : Fences(S)
<1> DEFINE k == acq[p].key
           wanted == poolEntryKey(acq[p].spec, acq[p].seen)
<1>1. k \in Keys /\ acq \in [Acquirers -> Acquirer] /\ pool \in Pool /\ now \in Nat
  BY Zenon DEF IInv, TypeOK, Acquirer
<1>2. PICK num \in RetireOrders(StaleKeys(pool)) :
         LookupOutcome(p, k, wanted, pruneStaleEntriesLocked(pool, num),
                       {pool.entries[j] : j \in DOMAIN num}, DOMAIN num)
  BY Zenon DEF lookupOrRetire
<1> DEFINE pl == pruneStaleEntriesLocked(pool, num)
           b == pl.entries[k]
           S == DOMAIN num
<1>3. pl \in Pool /\ S \subseteq Keys
  BY <1>1, <1>2, PruneType, Zenon DEF StaleKeys
<1>4. Advances(pool, pl, S) /\ Shrinks(pool, pl)
  BY <1>1, <1>2, PruneMoves, Zenon
<1>5. HandedOut(pl)
  BY <1>4, Zenon DEF Advances
<1> HIDE DEF pl, wanted, S
<1>6. LookupOutcome(p, k, wanted, pl, {pool.entries[j] : j \in S}, S)
  BY <1>2, Zenon DEF pl, wanted, S
<1>7. b \in Backends \cup {0}
  BY <1>1, <1>3, Zenon DEF Pool
<1> DEFINE swept == fenced \cup UNION {Building(j) : j \in S}
<1>8. \A q \in swept : q \in fenced \/ \E j \in S : q \in Building(j)
  BY Zenon
<1>9. ASSUME NEW ql \in Pool, Advances(pl, ql, {}), Shrinks(pl, ql), pool' = ql,
             fenced' = swept, \A q \in Acquirers : Remembers(q)
      PROVE  \E T \in SUBSET Keys : Fences(T)
  <2>1. Advances(pool, pool', S \cup {}) /\ Shrinks(pool, pool')
    BY <1>1, <1>3, <1>4, <1>9, MovesCompose, Zenon
  <2>2. Fences(S \cup {})
    BY <1>8, <1>9, <2>1, Zenon DEF Fences, Enters, Shrinks
  <2> QED
    BY <1>3, <2>2, Zenon
<1>10. ASSUME b # 0,
              pool' = generationLocked(holdLocked([pl EXCEPT !.lastUsed[b] = now], b), k),
              acq' = [acq EXCEPT ![p].pc = "using", ![p].backend = b],
              fenced' = swept
       PROVE  \E T \in SUBSET Keys : Fences(T)
  <2> DEFINE ql == holdLocked([pl EXCEPT !.lastUsed[b] = now], b)
  <2>1. [pl EXCEPT !.lastUsed[b] = now] \in Pool
    BY <1>1, <1>3, <1>7, <1>10, Zenon DEF Pool
  <2>2. ql \in Pool
    BY <1>7, <1>10, <2>1, HoldType, Zenon
  <2>3. /\ ql.counter = pl.counter /\ ql.generations = pl.generations
        /\ ql.entries = pl.entries /\ ql.tombstones = pl.tombstones
    BY <2>1, <1>3, Zenon DEF holdLocked, Pool
  <2> HIDE DEF ql
  <2>4. HandedOut(ql) /\ Advances(pl, ql, {}) /\ Shrinks(pl, ql)
    BY <1>3, <1>5, <2>3 DEF HandedOut, Advances, Shrinks, Pool
  <2>5. pool' = generationLocked(ql, k)
    BY <1>10, Zenon DEF ql
  <2>6. Advances(ql, pool', {}) /\ Shrinks(ql, pool') /\ pool' \in Pool
    BY <1>1, <2>2, <2>4, <2>5, GenerationMoves, GenerationType, Zenon
  <2>7. Advances(pl, pool', {} \cup {}) /\ Shrinks(pl, pool')
    BY <1>3, <2>2, <2>4, <2>6, MovesCompose, Zenon
  <2>8. Advances(pl, pool', {})
    BY <2>7, Zenon
  <2>9. \A q \in Acquirers : Remembers(q)
    BY <1>1, <1>10 DEF Remembers
  <2> QED
    BY <1>9, <1>10, <2>6, <2>7, <2>8, <2>9, Zenon
<1>11. ASSUME pool' = pl, fenced' = swept,
              acq' = [acq EXCEPT ![p].pc = "generation", ![p].attempt = @ + 1,
                                 ![p].staleKey = snap[b]]
       PROVE  \E T \in SUBSET Keys : Fences(T)
  <2>1. Advances(pl, pl, {}) /\ Shrinks(pl, pl)
    BY <1>3, <1>5 DEF Advances, Shrinks, Pool
  <2>2. \A q \in Acquirers : Remembers(q)
    BY <1>1, <1>11 DEF Remembers
  <2> QED
    BY <1>3, <1>9, <1>11, <2>1, <2>2, Zenon
<1>12. ASSUME pool' = generationLocked(IF b = 0 THEN pl ELSE retireLocked(pl, k), k),
              acq' = [acq EXCEPT ![p].pc = "fetch", ![p].seen = Unread, ![p].now = now,
                                 ![p].generation = pool'.generations[k]],
              fenced' = (swept \cup (IF b = 0 THEN {} ELSE Building(k))) \ {p}
       PROVE  \E T \in SUBSET Keys : Fences(T)
  <2> DEFINE ql == IF b = 0 THEN pl ELSE retireLocked(pl, k)
             R == IF b = 0 THEN {} ELSE {k}
  <2>1. ql \in Pool /\ Advances(pl, ql, R) /\ Shrinks(pl, ql)
    <3>1. CASE b = 0
      BY <3>1, <1>3, <1>5 DEF Advances, Shrinks, Pool
    <3>2. CASE b # 0
      BY <3>2, <1>1, <1>3, <1>5, RetireMoves, RetireType, Zenon
    <3> QED
      BY <3>1, <3>2, Zenon
  <2>2. HandedOut(ql)
    BY <2>1, Zenon DEF Advances
  <2>3. R \subseteq Keys /\ \A q \in fenced' : q \in swept \/ \E j \in R : q \in Building(j)
    BY <1>1, <1>12, Zenon
  <2>4. pool' = generationLocked(ql, k)
    BY <1>12, Zenon
  <2> HIDE DEF ql, R
  <2>5. /\ Advances(ql, pool', {}) /\ Shrinks(ql, pool') /\ pool' \in Pool
        /\ pool'.generations[k] # 0
    BY <1>1, <2>1, <2>2, <2>4, GenerationMoves, GenerationType, Zenon
  <2>6. Advances(pool, ql, S \cup R) /\ Shrinks(pool, ql)
    BY <1>1, <1>3, <1>4, <2>1, MovesCompose, Zenon
  <2>7. Advances(pool, pool', (S \cup R) \cup {}) /\ Shrinks(pool, pool')
    BY <1>1, <2>1, <2>5, <2>6, MovesCompose, Zenon
  <2>8. \A q \in Acquirers : Remembers(q)
    <3>1. acq'[p].key = k /\ acq'[p].generation = pool'.generations[k] /\ p \notin fenced'
      BY <1>1, <1>12, Zenon DEF Acquirer
    <3>2. Remembers(p)
      BY <3>1, <2>5, Zenon DEF Remembers
    <3>3. \A q \in Acquirers : q # p => Remembers(q)
      BY <1>1, <1>12, Zenon DEF Remembers
    <3> QED
      BY <3>2, <3>3, Zenon
  <2>9. Fences(S \cup R)
    BY <1>8, <2>3, <2>7, <2>8, Zenon DEF Fences, Enters, Shrinks
  <2> QED
    BY <1>3, <2>3, <2>9, Zenon
<1> QED
  BY <1>6, <1>10, <1>11, <1>12, Zenon DEF LookupOutcome

\* storePooledBackend fences the other builds of the key it stores.
LEMMA StoreFences ==
    ASSUME IInv, HandedOut(pool), NEW p \in Acquirers, storePooledBackend(p)
    PROVE  \E S \in SUBSET Keys : Fences(S)
<1> DEFINE k == acq[p].key
           next == acq[p].backend
           old == pool.entries[k]
<1>1. /\ k \in Keys /\ acq \in [Acquirers -> Acquirer] /\ pool \in Pool /\ now \in Nat
      /\ acq[p].now \in Nat /\ old \in Backends \cup {0}
  BY Zenon DEF IInv, TypeOK, Acquirer, Pool
<1>2. acq[p].pc = "store" /\ next \in Backends
  BY <1>1, Zenon DEF storePooledBackend, At, IInv, Custody, Handling, Acquirer
<1>3. ASSUME acq' = [acq EXCEPT ![p].pc = "using"]
          \/ acq' = [acq EXCEPT ![p].pc = "using", ![p].owned = FALSE]
          \/ acq' = [acq EXCEPT ![p].pc = "using", ![p].backend = old, ![p].owned = FALSE]
      PROVE  \A q \in Acquirers : Remembers(q)
  <2>1. CASE acq' = [acq EXCEPT ![p].pc = "using"]
    BY <1>1, <2>1 DEF Remembers
  <2>2. CASE acq' = [acq EXCEPT ![p].pc = "using", ![p].owned = FALSE]
    BY <1>1, <2>2 DEF Remembers
  <2>3. CASE acq' = [acq EXCEPT ![p].pc = "using", ![p].backend = old, ![p].owned = FALSE]
    BY <1>1, <2>3 DEF Remembers
  <2> QED
    BY <1>3, <2>1, <2>2, <2>3, Zenon
<1>4. ASSUME old # 0,
             pool' = holdLocked([pool EXCEPT !.lastUsed[old] = acq[p].now], old),
             acq' = [acq EXCEPT ![p].pc = "using", ![p].backend = old, ![p].owned = FALSE],
             fenced' = fenced \ {p}
      PROVE  Fences({})
  <2>1. /\ pool'.counter = pool.counter /\ pool'.generations = pool.generations
        /\ pool'.entries = pool.entries /\ pool'.tombstones = pool.tombstones
    BY <1>1, <1>4, Zenon DEF holdLocked, Pool
  <2>2. Advances(pool, pool', {})
    BY <1>1, <2>1 DEF Advances, HandedOut, Pool
  <2> QED
    BY <1>3, <1>4, <2>1, <2>2, Zenon DEF Fences, Enters
<1>5. ASSUME ~Tombstoned(k), old = 0, Unfenced(p, k),
             pool' = holdLocked(
                       [bumpGenerationLocked(pool, k) EXCEPT
                           !.entries[k] = next, !.lastUsed[next] = acq[p].now,
                           !.changed[k] = acq[p].now], next),
             acq' = [acq EXCEPT ![p].pc = "using", ![p].owned = FALSE],
             fenced' = (fenced \cup Building(k)) \ {p}
      PROVE  Fences({k})
  <2> DEFINE gl == bumpGenerationLocked(pool, k)
  <2>1. gl \in Pool /\ Advances(pool, gl, {k}) /\ Shrinks(pool, gl)
    BY <1>1, GenerationType, GenerationMoves, Zenon
  <2>2. gl.entries = pool.entries /\ gl.tombstones = pool.tombstones
    BY <1>1, Zenon DEF bumpGenerationLocked, Pool
  <2> HIDE DEF gl
  <2>3. pool' = holdLocked([gl EXCEPT !.entries[k] = next, !.lastUsed[next] = acq[p].now,
                                      !.changed[k] = acq[p].now], next)
    BY <1>5, Zenon DEF gl
  <2>4. /\ pool'.counter = gl.counter /\ pool'.generations = gl.generations
        /\ pool'.entries = [pool.entries EXCEPT ![k] = next]
        /\ pool'.tombstones = pool.tombstones
    BY <2>1, <2>2, <2>3, Zenon DEF holdLocked, Pool
  <2>5. Advances(pool, pool', {k})
    BY <2>1, <2>4, Zenon DEF Advances, HandedOut
  <2>6. pool.entries \in [Keys -> Backends \cup {0}]
    BY <1>1, Zenon DEF Pool
  <2>7. \A j \in Keys : j # k => pool'.entries[j] = pool.entries[j]
    BY <2>4, <2>6, Zenon
  <2>8. StoresAt(p, k)
    BY <1>1, <1>2, <1>5, <2>4, <2>6 DEF StoresAt
  <2>9. \A j \in Keys : Enters(j)
    BY <2>4, <2>7, <2>8, Zenon DEF Enters
  <2> QED
    BY <1>3, <1>5, <2>5, <2>9, Zenon DEF Fences
<1>6. ASSUME UNCHANGED pool, acq' = [acq EXCEPT ![p].pc = "using"], fenced' = fenced \ {p}
      PROVE  Fences({})
  <2>1. Advances(pool, pool, {})
    BY <1>1 DEF Advances, Pool
  <2> QED
    BY <1>3, <1>6, <2>1, Zenon DEF Fences, Enters
<1> QED
  BY <1>1, <1>4, <1>5, <1>6, Zenon DEF storePooledBackend

\* EvictBackendPoolForSink fences the builds of the deleted sink.
LEMMA EvictFences ==
    ASSUME IInv, HandedOut(pool), NEW k \in Keys, evictPoolKeyForDelete(k)
    PROVE  Fences({k})
<1> DEFINE rl == retireLocked(pool, k)
           tl == [rl EXCEPT !.tombstones[k] = now]
<1>1. pool \in Pool /\ now \in Nat /\ acq \in [Acquirers -> Acquirer]
  BY Zenon DEF IInv, TypeOK
<1>2. /\ rl \in Pool /\ Advances(pool, rl, {k}) /\ Shrinks(pool, rl)
      /\ rl.entries[k] = 0
  BY <1>1, RetireMoves, RetireType, Zenon
<1> HIDE DEF rl
<1>3. /\ tl \in Pool /\ tl.counter = rl.counter /\ tl.generations = rl.generations
      /\ tl.entries = rl.entries
      /\ \A j \in Keys : j # k => tl.tombstones[j] = rl.tombstones[j]
  BY <1>1, <1>2, Zenon DEF Pool
<1>4. pool' = pruneExpiredTombstonesLocked(tl)
  BY Zenon DEF evictPoolKeyForDelete, rl
<1> HIDE DEF tl
<1>5. Advances(pool, tl, {k}) /\ Shrinks(pool, tl)
  BY <1>2, <1>3, Zenon DEF Advances, HandedOut, Shrinks
<1>6. Advances(tl, pool', {}) /\ Shrinks(tl, pool') /\ pool' \in Pool
  BY <1>3, <1>4, <1>5, TombstoneMoves, PruneTombstonesType, Zenon DEF Advances
<1>7. Advances(pool, pool', {k} \cup {}) /\ Shrinks(pool, pool')
  BY <1>1, <1>3, <1>5, <1>6, MovesCompose, Zenon
<1>8. \A q \in Acquirers : Remembers(q)
  BY Zenon DEF evictPoolKeyForDelete, Remembers
<1> QED
  BY <1>7, <1>8, Zenon DEF evictPoolKeyForDelete, Fences, Enters, Shrinks

\* The steps of an acquire that neither store nor retire.
LEMMA ReadFences ==
    ASSUME IInv, HandedOut(pool), NEW p \in Acquirers,
           \/ \E k \in Keys, sp \in Specs : Begin(p, k, sp)
           \/ poolGenerationOf(p)
           \/ \E s \in Secrets : ReadSecret(p, s)
           \/ \E s \in Secrets, g \in BOOLEAN : ReadFails(p, s, g)
           \/ \E g \in BOOLEAN : caRulesFirst(p, g)
           \/ MetaGoneReread(p) \/ NewBackend(p) \/ NewBackendFails(p) \/ release(p)
           \/ \E b \in Backends : closeBackendLogged(p, b)
    PROVE  Fences({})
<1>1. pool \in Pool /\ now \in Nat /\ acq \in [Acquirers -> Acquirer] /\ acq[p].key \in Keys
  BY Zenon DEF IInv, TypeOK, Acquirer
<1>2. Advances(pool, pool, {})
  BY <1>1 DEF Advances, Pool
<1>3. CASE \E k \in Keys, sp \in Specs : Begin(p, k, sp)
  <2>1. PICK k \in Keys, sp \in Specs : Begin(p, k, sp)
    BY <1>3, Zenon
  <2>2. acq'[p].pc = "generation" /\ \A q \in Acquirers : q # p => acq'[q] = acq[q]
    BY <1>1, <2>1, Zenon DEF Begin, Idle
  <2>3. \A q \in Acquirers : Remembers(q)
    BY <2>2, Zenon DEF Remembers
  <2> QED
    BY <2>1, <2>3, QuietFences, Zenon DEF Begin
<1>4. CASE poolGenerationOf(p)
  <2>1. Advances(pool, pool', {}) /\ Shrinks(pool, pool')
    BY <1>1, <1>4, GenerationMoves, Zenon DEF poolGenerationOf
  <2>2. \A q \in Acquirers : Remembers(q)
    BY <1>1, <1>4 DEF poolGenerationOf, Remembers
  <2> QED
    BY <1>4, <2>1, <2>2, Zenon DEF poolGenerationOf, Fences, Enters, Shrinks
<1>5. CASE \E s \in Secrets : ReadSecret(p, s)
  <2>1. PICK s \in Secrets : ReadSecret(p, s)
    BY <1>5, Zenon
  <2>2. acq' = [acq EXCEPT ![p].seen[s] = secret[s].rv] /\ UNCHANGED <<pool, fenced>>
    BY <2>1, Zenon DEF ReadSecret
  <2>3. \A q \in Acquirers : acq'[q].pc = acq[q].pc /\ acq'[q].key = acq[q].key
                             /\ acq'[q].generation = acq[q].generation
    BY <1>1, <2>2, Zenon DEF Acquirer
  <2> QED
    BY <2>2, <2>3, QuietFences, Zenon DEF Remembers
<1>6. CASE \E s \in Secrets, g \in BOOLEAN : ReadFails(p, s, g)
  <2>1. PICK s \in Secrets, g \in BOOLEAN : ReadFails(p, s, g)
    BY <1>6, Zenon
  <2>2. /\ acq' = [acq EXCEPT ![p].gone = g, ![p].pc = AfterFailedRead(@, s)]
        /\ UNCHANGED <<pool, fenced>>
    BY <2>1, Zenon DEF ReadFails
  <2>3. AfterFailedRead(acq[p].pc, s) \in {"metaCA", "metaFailed", "fetchCA", "fetchFailed"}
    BY Zenon DEF AfterFailedRead
  <2>4. \A q \in Acquirers : Remembers(q)
    BY <1>1, <2>2, <2>3 DEF Remembers
  <2> QED
    BY <2>2, <2>4, QuietFences, Zenon
<1>7. CASE \E g \in BOOLEAN : caRulesFirst(p, g)
  <2>1. PICK g \in BOOLEAN : caRulesFirst(p, g)
    BY <1>7, Zenon
  <2>2. /\ acq'[p].pc \in {"metaFailed", "fetchFailed"}
        /\ \A q \in Acquirers : q # p => acq'[q] = acq[q]
    BY <1>1, <2>1, Zenon DEF caRulesFirst, Acquirer
  <2>3. \A q \in Acquirers : Remembers(q)
    BY <2>2, Zenon DEF Remembers
  <2> QED
    BY <2>1, <2>3, QuietFences, Zenon DEF caRulesFirst
<1>8. CASE MetaGoneReread(p)
  <2>1. \A q \in Acquirers : Remembers(q)
    BY <1>1, <1>8 DEF MetaGoneReread, Remembers
  <2> QED
    BY <1>8, <2>1, QuietFences, Zenon DEF MetaGoneReread
<1>9. CASE NewBackend(p)
  <2>1. \A q \in Acquirers : Remembers(q)
    BY <1>1, <1>9 DEF NewBackend, At, Remembers
  <2> QED
    BY <1>9, <2>1, QuietFences, Zenon DEF NewBackend
<1>10. CASE NewBackendFails(p)
  <2>1. \A q \in Acquirers : Remembers(q)
    BY <1>1, <1>10, Zenon DEF NewBackendFails, Return, Remembers, Idle
  <2> QED
    BY <1>2, <1>10, <2>1, Zenon DEF NewBackendFails, Fences, Enters
<1>11. CASE release(p)
  <2>1. \A q \in Acquirers : Remembers(q)
    BY <1>1, <1>11, Zenon DEF release, Return, Remembers, Idle
  <2>2. /\ pool'.counter = pool.counter /\ pool'.generations = pool.generations
        /\ pool'.entries = pool.entries /\ pool'.tombstones = pool.tombstones
    BY <1>1, <1>11, Zenon DEF release, Pool
  <2>3. Advances(pool, pool', {})
    BY <1>1, <2>2 DEF Advances, HandedOut, Pool
  <2> QED
    BY <1>11, <2>1, <2>2, <2>3, Zenon DEF release, Fences, Enters
<1>12. CASE \E b \in Backends : closeBackendLogged(p, b)
  BY <1>12, QuietFences, Zenon DEF closeBackendLogged, Remembers
<1> QED
  BY <1>3, <1>4, <1>5, <1>6, <1>7, <1>8, <1>9, <1>10, <1>11, <1>12, Zenon

\* The failed reads retire the entry of their key, or nothing.
LEMMA FailFences ==
    ASSUME IInv, HandedOut(pool), NEW p \in Acquirers,
           MetaGoneRetire(p) \/ MetaError(p) \/ FetchFailed(p)
    PROVE  \E S \in SUBSET Keys : Fences(S)
<1>1. pool \in Pool /\ acq \in [Acquirers -> Acquirer] /\ acq[p].key \in Keys
  BY Zenon DEF IInv, TypeOK, Acquirer
<1>2. Return(p)
  BY Zenon DEF MetaGoneRetire, MetaError, FetchFailed
<1>3. \/ RetireBy(p, acq[p].key)
      \/ UNCHANGED pool /\ fenced' \in {fenced, fenced \ {p}}
  BY Zenon DEF MetaGoneRetire, MetaError, FetchFailed
<1>4. CASE RetireBy(p, acq[p].key)
  BY <1>1, <1>2, <1>4, RetireFences, Zenon
<1>5. CASE UNCHANGED pool /\ fenced' \in {fenced, fenced \ {p}}
  <2>1. Advances(pool, pool, {})
    BY <1>1 DEF Advances, Pool
  <2>2. \A q \in Acquirers : Remembers(q)
    BY <1>1, <1>2, Zenon DEF Return, Remembers, Idle
  <2>3. Fences({})
    BY <1>5, <2>1, <2>2, Zenon DEF Fences, Enters
  <2> QED
    BY <2>3, Zenon
<1> QED
  BY <1>3, <1>4, <1>5, Zenon

\* Every step of the pool, of its callers and of their surroundings.
LEMMA StepFences ==
    ASSUME IInv, HandedOut(pool), [Next]_vars
    PROVE  \E S \in SUBSET Keys : Fences(S)
<1>1. ASSUME UNCHANGED <<pool, acq, fenced>>
      PROVE  Fences({})
  BY <1>1, QuietFences, Zenon DEF Remembers
<1>2. ASSUME NEW p \in Acquirers, NEW k \in Keys, NEW sp \in Specs, Begin(p, k, sp)
      PROVE  Fences({})
  BY <1>2, ReadFences, Zenon
<1>3. ASSUME NEW p \in Acquirers, AcquirerStep(p)
      PROVE  \E S \in SUBSET Keys : Fences(S)
  <2>1. CASE lookupOrRetire(p)
    BY <2>1, LookupFences, Zenon
  <2>2. CASE storePooledBackend(p)
    BY <2>2, StoreFences, Zenon
  <2>3. CASE MetaGoneRetire(p) \/ MetaError(p) \/ FetchFailed(p)
    BY <2>3, FailFences, Zenon
  <2> QED
    BY <1>3, <2>1, <2>2, <2>3, ReadFences, Zenon DEF AcquirerStep
<1>4. ASSUME NEW k \in Keys, evictPoolKeyForDelete(k)
      PROVE  Fences({k})
  BY <1>4, EvictFences, Zenon
<1>5. CASE UNCHANGED vars
  BY <1>1, <1>5, Zenon DEF vars
<1>6. CASE \/ \E b \in Backends : HookClose(b)
           \/ \E s \in Secrets, st \in {"ok", "empty", "missing"} : WriteSecret(s, st)
           \/ Tick
  BY <1>1, <1>6, Zenon DEF HookClose, WriteSecret, Tick
<1> QED
  BY <1>2, <1>3, <1>4, <1>5, <1>6, Zenon DEF Next

-----------------------------------------------------------------------------
(* The invariant of the fence: a build in flight remembers a generation     *)
(* that was handed out, and its key no longer has it once the build was     *)
(* overtaken.                                                               *)

BuildsRemember ==
    \A p \in Acquirers : acq[p].pc \in {"fetch", "store"} =>
        /\ acq[p].generation # 0 /\ acq[p].generation <= pool.counter
        /\ p \in fenced => pool.generations[acq[p].key] # acq[p].generation

FenceInv == IInv /\ HandedOut(pool) /\ BuildsRemember /\ TombstoneBlocksPooling

LEMMA InitFenceInv == Init => FenceInv
<1> SUFFICES ASSUME Init PROVE FenceInv
  BY Zenon
<1>1. HandedOut(pool) /\ TombstoneBlocksPooling
  BY DEF Init, HandedOut, TombstoneBlocksPooling
<1>2. BuildsRemember
  BY Zenon DEF Init, Idle, BuildsRemember
<1> QED
  BY <1>1, <1>2, InitIInv, Zenon DEF FenceInv

LEMMA NextFenceInv == FenceInv /\ [Next]_vars => FenceInv'
<1> SUFFICES ASSUME FenceInv, [Next]_vars PROVE FenceInv'
  BY Zenon
<1>1. IInv /\ IInv' /\ HandedOut(pool)
  BY NextIInv, Zenon DEF FenceInv
<1>2. PICK S \in SUBSET Keys : Fences(S)
  BY <1>1, StepFences, Zenon DEF FenceInv
<1>3. /\ pool \in Pool /\ pool' \in Pool
      /\ acq \in [Acquirers -> Acquirer] /\ acq' \in [Acquirers -> Acquirer]
      /\ fenced' \subseteq Acquirers
  BY <1>1, Zenon DEF IInv, TypeOK
<1>4. HandedOut(pool')
  BY <1>2, Zenon DEF Fences, Advances
<1>5. BuildsRemember'
  <2> SUFFICES ASSUME NEW q \in Acquirers, acq'[q].pc \in {"fetch", "store"}
               PROVE  /\ acq'[q].generation # 0 /\ acq'[q].generation <= pool'.counter
                      /\ q \in fenced' => pool'.generations[acq'[q].key] # acq'[q].generation
    BY Zenon DEF BuildsRemember
  <2>1. acq'[q].key \in Keys /\ acq'[q].generation \in Nat
    BY <1>3, Zenon DEF Acquirer
  <2>2. /\ pool.counter \in Nat /\ pool'.counter \in Nat /\ pool.counter <= pool'.counter
        /\ pool.generations[acq'[q].key] \in Nat /\ pool'.generations[acq'[q].key] \in Nat
    BY <1>2, <1>3, <2>1, Zenon DEF Fences, Advances, Pool
  <2>3. CASE /\ acq[q].pc \in {"fetch", "store"}
             /\ acq'[q].key = acq[q].key /\ acq'[q].generation = acq[q].generation
    <3>1. /\ acq'[q].generation # 0 /\ acq'[q].generation <= pool.counter
          /\ q \in fenced => pool.generations[acq'[q].key] # acq'[q].generation
      BY <2>3, Zenon DEF FenceInv, BuildsRemember
    <3>2. \/ acq'[q].key \notin S /\ pool'.generations[acq'[q].key] = pool.generations[acq'[q].key]
          \/ pool'.generations[acq'[q].key] = 0
          \/ pool'.generations[acq'[q].key] > pool.counter
      BY <1>2, <2>1, Zenon DEF Fences, Advances
    <3>3. q \in fenced' => q \in fenced \/ acq'[q].key \in S
      BY <1>2, <2>3, Zenon DEF Fences, Building
    <3> QED
      BY <2>1, <2>2, <3>1, <3>2, <3>3
  <2>4. CASE /\ q \notin fenced'
             /\ acq'[q].generation = pool'.generations[acq'[q].key]
             /\ acq'[q].generation # 0
    BY <1>4, <2>1, <2>4, Zenon DEF HandedOut
  <2> QED
    BY <1>2, <2>3, <2>4, Zenon DEF Fences, Remembers
<1>6. TombstoneBlocksPooling'
  <2> SUFFICES ASSUME NEW k \in Keys, pool'.tombstones[k] # 0 PROVE pool'.entries[k] = 0
    BY Zenon DEF TombstoneBlocksPooling
  <2>1. pool.tombstones[k] # 0 => pool.entries[k] = 0
    BY Zenon DEF FenceInv, TombstoneBlocksPooling
  <2> QED
    BY <1>2, <2>1, Zenon DEF Fences, Enters, StoresAt, Tombstoned
<1> QED
  BY <1>1, <1>4, <1>5, <1>6, Zenon DEF FenceInv

\* The generations and the tombstones fence the builds in every reachable state.
THEOREM FenceInvariance == Spec => []FenceInv
BY InitFenceInv, NextFenceInv, PTL DEF Spec

\* While its tombstone guards a deleted sink nothing is pooled for it, whichever
\* builds were in flight and however often the key was looked up meanwhile.
THEOREM TombstoneGuards == Spec => []TombstoneBlocksPooling
<1>1. FenceInv => TombstoneBlocksPooling
  BY Zenon DEF FenceInv
<1> QED
  BY <1>1, FenceInvariance, PTL

\* storePooledBackend pools no build that a store, a retire, a prune or a delete
\* of its key overtook, even after the key's generation aged out of the map.
THEOREM OvertakenIsNotPooled == Spec => StoreFence
<1> DEFINE Fenced(p) == /\ acq[p].pc = "store"
                        /\ ~Pooled(acq[p].backend)
                        /\ \E k \in Keys : pool'.entries[k] = acq[p].backend
                        => p \notin fenced
<1>1. FenceInv /\ [Next]_vars => [\A p \in Acquirers : Fenced(p)]_vars
  <2> SUFFICES ASSUME FenceInv, [Next]_vars, NEW p \in Acquirers, acq[p].pc = "store",
                      ~Pooled(acq[p].backend), NEW k \in Keys,
                      pool'.entries[k] = acq[p].backend
               PROVE  p \notin fenced
    BY Zenon
  <2>1. PICK S \in SUBSET Keys : Fences(S)
    BY StepFences, Zenon DEF FenceInv
  <2>2. acq[p].owned /\ acq[p].backend # 0
    BY Zenon DEF FenceInv, IInv, Custody, Handling
  <2>3. pool'.entries[k] \notin {pool.entries[k], 0}
    BY <2>2, Zenon DEF Pooled
  <2>4. PICK q \in Acquirers : StoresAt(q, k)
    BY <2>1, <2>3, Zenon DEF Fences, Enters
  <2>5. q = p
    BY <2>2, <2>4, Zenon DEF StoresAt, FenceInv, IInv, Custody, CustodyOf, OwnerAlone
  <2> QED
    BY <2>4, <2>5, Zenon DEF StoresAt, Unfenced, FenceInv, BuildsRemember
<1> QED
  BY <1>1, FenceInvariance, PTL DEF Spec, StoreFence

-----------------------------------------------------------------------------
(* Freshness.  What an acquire has read since it began is no older than     *)
(* what the Secrets were then, and so is what its backend was built from.   *)

ReadsAreFresh(p) ==
    /\ \A s \in Secrets : secret[s].rv >= begin[p][s]
    /\ acq[p].pc \in {"meta", "fetch"} =>
          \A s \in Secrets : acq[p].seen[s] = 0 \/ acq[p].seen[s] >= begin[p][s]
    /\ acq[p].pc \in {"store", "using"} =>
          /\ snap[acq[p].backend].spec = acq[p].spec
          /\ \A s \in Secrets : snap[acq[p].backend].versions[s] >= begin[p][s]

FreshInv == IInv /\ \A p \in Acquirers : ReadsAreFresh(p)

\* A step of another, a write of a Secret or a new build changes nothing of it.
LEMMA OthersStayFresh ==
    ASSUME FreshInv, IInv', NEW q \in Acquirers,
           acq'[q] = acq[q], begin'[q] = begin[q],
           \A s \in Secrets : secret'[s].rv >= secret[s].rv,
           \A b \in Backends : b <= built => snap'[b] = snap[b]
    PROVE  ReadsAreFresh(q)'
<1>1. /\ acq[q] \in Acquirer /\ begin[q] \in [Secrets -> Nat]
      /\ \A s \in Secrets : secret[s].rv \in Nat /\ secret'[s].rv \in Nat
  BY Zenon DEF FreshInv, IInv, TypeOK, Versions
<1>2. acq[q].pc \in {"store", "using"} => snap'[acq[q].backend] = snap[acq[q].backend]
  BY <1>1, Zenon DEF FreshInv, IInv, Custody, Handling, CustodyOf, HeldIsLive, Acquirer
<1>3. \A s \in Secrets : secret'[s].rv >= begin'[q][s]
  BY <1>1 DEF FreshInv, ReadsAreFresh
<1> QED
  BY <1>2, <1>3, Zenon DEF FreshInv, ReadsAreFresh

\* An acquirer that begins or returns has read nothing yet.
LEMMA StartIsFresh ==
    ASSUME FreshInv, NEW p \in Acquirers, acq'[p].pc \in {"idle", "generation"},
           \A s \in Secrets : secret'[s].rv >= begin'[p][s]
    PROVE  ReadsAreFresh(p)'
BY Zenon DEF ReadsAreFresh

\* A step of an acquirer that keeps its begin and is not about what it reads.
LEMMA QuietIsFresh ==
    ASSUME FreshInv, NEW p \in Acquirers, UNCHANGED <<secret, begin>>,
           \/ acq'[p].pc \in {"generation", "metaCA", "metaFailed", "fetchCA", "fetchFailed"}
           \/ acq'[p].pc \in {"meta", "fetch"} /\ acq'[p].seen = Unread
    PROVE  ReadsAreFresh(p)'
<1>1. \A s \in Secrets : secret'[s].rv >= begin'[p][s]
  BY Zenon DEF FreshInv, ReadsAreFresh
<1> QED
  BY <1>1, Zenon DEF ReadsAreFresh, Unread

\* The reads: what a GET returns is no older than what the Secret was at the
\* begin, and nothing is older than what was not read yet.
LEMMA ReadIsFresh ==
    ASSUME FreshInv, NEW p \in Acquirers, NEW s \in Secrets, ReadSecret(p, s)
    PROVE  ReadsAreFresh(p)'
<1>1. /\ acq \in [Acquirers -> Acquirer] /\ begin[p] \in [Secrets -> Nat]
      /\ acq[p].seen \in [Secrets -> Nat] /\ secret[s].rv \in Nat
  BY Zenon DEF FreshInv, IInv, TypeOK, Versions, Acquirer
<1>2. /\ acq' = [acq EXCEPT ![p].seen[s] = secret[s].rv]
      /\ UNCHANGED <<begin, secret, snap>> /\ acq[p].pc \in {"meta", "fetch"}
  BY Zenon DEF ReadSecret, At, world, builds
<1>3. /\ acq'[p].pc = acq[p].pc
      /\ acq'[p].seen = [acq[p].seen EXCEPT ![s] = secret[s].rv]
  BY <1>1, <1>2, Zenon DEF Acquirer
<1>4. \A u \in Secrets : acq'[p].seen[u] = IF u = s THEN secret[s].rv ELSE acq[p].seen[u]
  BY <1>1, <1>3, Zenon
<1> QED
  BY <1>1, <1>2, <1>3, <1>4 DEF FreshInv, ReadsAreFresh

\* The build: its key and its values are one complete read of the Secrets.
LEMMA BuildIsFresh ==
    ASSUME FreshInv, NEW p \in Acquirers, NewBackend(p)
    PROVE  ReadsAreFresh(p)'
<1>1. /\ acq \in [Acquirers -> Acquirer] /\ begin[p] \in [Secrets -> Nat]
      /\ acq[p].seen \in [Secrets -> Nat] /\ snap \in [Backends -> EntryKey]
      /\ built + 1 \in Backends
  <2>1. built \in 0..MaxBuilds /\ built < MaxBuilds /\ built + 1 \in 1..MaxBuilds
    BY PoolAssumption DEF FreshInv, IInv, TypeOK, NewBackend
  <2> QED
    BY <2>1, Zenon DEF FreshInv, IInv, TypeOK, Versions, Acquirer, Backends
<1>2. /\ acq[p].pc = "fetch" /\ \A s \in Secrets : acq[p].seen[s] # 0
      /\ UNCHANGED <<begin, secret>>
  BY Zenon DEF NewBackend, At, world
<1>3. /\ acq'[p].backend = built + 1 /\ acq'[p].pc = "store" /\ acq'[p].spec = acq[p].spec
      /\ snap'[built + 1] = [spec |-> acq[p].spec, versions |-> acq[p].seen]
  BY <1>1, Zenon DEF NewBackend, poolEntryKey, Acquirer
<1> QED
  BY <1>1, <1>2, <1>3 DEF FreshInv, ReadsAreFresh

\* The lookup: a hit is an entry built from exactly what was read.
LEMMA LookupIsFresh ==
    ASSUME FreshInv, NEW p \in Acquirers, lookupOrRetire(p)
    PROVE  ReadsAreFresh(p)'
<1> DEFINE k == acq[p].key
           wanted == poolEntryKey(acq[p].spec, acq[p].seen)
<1>1. /\ acq \in [Acquirers -> Acquirer] /\ begin[p] \in [Secrets -> Nat]
      /\ acq[p].seen \in [Secrets -> Nat]
  BY Zenon DEF FreshInv, IInv, TypeOK, Versions, Acquirer
<1>2. /\ acq[p].pc = "meta" /\ \A s \in Secrets : acq[p].seen[s] # 0
      /\ UNCHANGED <<begin, secret, snap>>
  BY Zenon DEF lookupOrRetire, At, world, builds
<1>3. PICK num \in RetireOrders(StaleKeys(pool)) :
         LookupOutcome(p, k, wanted, pruneStaleEntriesLocked(pool, num),
                       {pool.entries[j] : j \in DOMAIN num}, DOMAIN num)
  BY Zenon DEF lookupOrRetire
<1> DEFINE b == pruneStaleEntriesLocked(pool, num).entries[k]
<1>4. \/ /\ Matches(b, wanted)
         /\ acq' = [acq EXCEPT ![p].pc = "using", ![p].backend = b]
      \/ acq' = [acq EXCEPT ![p].pc = "generation", ![p].attempt = @ + 1, ![p].staleKey = snap[b]]
      \/ acq' = [acq EXCEPT ![p].pc = "fetch", ![p].seen = Unread, ![p].now = now,
                            ![p].generation = pool'.generations[k]]
  BY <1>3, Zenon DEF LookupOutcome
<1> HIDE DEF b
<1>5. CASE /\ Matches(b, wanted)
           /\ acq' = [acq EXCEPT ![p].pc = "using", ![p].backend = b]
  <2>1. acq'[p].pc = "using" /\ acq'[p].backend = b /\ acq'[p].spec = acq[p].spec
    BY <1>1, <1>5, Zenon DEF Acquirer
  <2>2. snap'[b] = [spec |-> acq[p].spec, versions |-> acq[p].seen]
    BY <1>2, <1>5, Zenon DEF Matches, poolEntryKey
  <2> QED
    BY <1>1, <1>2, <2>1, <2>2 DEF FreshInv, ReadsAreFresh
<1>6. CASE acq' = [acq EXCEPT ![p].pc = "generation", ![p].attempt = @ + 1, ![p].staleKey = snap[b]]
  <2>1. acq'[p].pc = "generation"
    BY <1>1, <1>6, Zenon DEF Acquirer
  <2> QED
    BY <1>2, <2>1, QuietIsFresh, Zenon
<1>7. CASE acq' = [acq EXCEPT ![p].pc = "fetch", ![p].seen = Unread, ![p].now = now,
                              ![p].generation = pool'.generations[k]]
  <2>1. acq'[p].pc = "fetch" /\ acq'[p].seen = Unread
    BY <1>1, <1>7, Zenon DEF Acquirer
  <2> QED
    BY <1>2, <2>1, QuietIsFresh, Zenon
<1> QED
  BY <1>4, <1>5, <1>6, <1>7, Zenon

\* The store: an entry that supersedes the build was built from the same read.
LEMMA StoreIsFresh ==
    ASSUME FreshInv, NEW p \in Acquirers, storePooledBackend(p)
    PROVE  ReadsAreFresh(p)'
<1> DEFINE old == pool.entries[acq[p].key]
<1>1. acq \in [Acquirers -> Acquirer]
  BY Zenon DEF FreshInv, IInv, TypeOK
<1>2. acq[p].pc = "store" /\ UNCHANGED <<begin, secret, snap>>
  BY Zenon DEF storePooledBackend, At, world, builds
<1>3. \/ /\ Matches(old, snap[acq[p].backend])
         /\ acq' = [acq EXCEPT ![p].pc = "using", ![p].backend = old, ![p].owned = FALSE]
      \/ acq' = [acq EXCEPT ![p].pc = "using", ![p].owned = FALSE]
      \/ acq' = [acq EXCEPT ![p].pc = "using"]
  BY Zenon DEF storePooledBackend
<1> HIDE DEF old
<1>4. CASE /\ Matches(old, snap[acq[p].backend])
           /\ acq' = [acq EXCEPT ![p].pc = "using", ![p].backend = old, ![p].owned = FALSE]
  <2>1. acq'[p].pc = "using" /\ acq'[p].backend = old /\ acq'[p].spec = acq[p].spec
    BY <1>1, <1>4, Zenon DEF Acquirer
  <2>2. snap'[old] = snap[acq[p].backend]
    BY <1>2, <1>4, Zenon DEF Matches
  <2> QED
    BY <1>2, <2>1, <2>2, Zenon DEF FreshInv, ReadsAreFresh
<1>5. CASE \/ acq' = [acq EXCEPT ![p].pc = "using", ![p].owned = FALSE]
           \/ acq' = [acq EXCEPT ![p].pc = "using"]
  <2>1. acq'[p].pc = "using" /\ acq'[p].backend = acq[p].backend /\ acq'[p].spec = acq[p].spec
    BY <1>1, <1>5 DEF Acquirer
  <2> QED
    BY <1>2, <2>1, Zenon DEF FreshInv, ReadsAreFresh
<1> QED
  BY <1>3, <1>4, <1>5, Zenon

\* The other steps of an acquirer end it, or leave what it has read alone.
LEMMA StepIsFresh ==
    ASSUME FreshInv, NEW p \in Acquirers,
           \/ \E k \in Keys, sp \in Specs : Begin(p, k, sp)
           \/ poolGenerationOf(p)
           \/ \E s \in Secrets, g \in BOOLEAN : ReadFails(p, s, g)
           \/ \E g \in BOOLEAN : caRulesFirst(p, g)
           \/ MetaGoneReread(p) \/ MetaGoneRetire(p) \/ MetaError(p)
           \/ FetchFailed(p) \/ NewBackendFails(p) \/ release(p)
    PROVE  ReadsAreFresh(p)'
<1>1. /\ acq \in [Acquirers -> Acquirer] /\ begin \in [Acquirers -> Versions]
      /\ \A s \in Secrets : secret[s].rv \in Nat
  BY Zenon DEF FreshInv, IInv, TypeOK
<1>2. ASSUME Return(p), UNCHANGED secret
      PROVE  ReadsAreFresh(p)'
  <2>1. acq'[p].pc = "idle" /\ begin'[p] = Unread
    BY <1>1, <1>2, Zenon DEF Return, Idle
  <2> QED
    BY <1>1, <1>2, <2>1, StartIsFresh DEF Unread
<1>3. CASE \E k \in Keys, sp \in Specs : Begin(p, k, sp)
  <2>1. PICK k \in Keys, sp \in Specs : Begin(p, k, sp)
    BY <1>3, Zenon
  <2>2. /\ acq'[p].pc = "generation" /\ begin'[p] = [s \in Secrets |-> secret[s].rv]
        /\ UNCHANGED secret
    BY <1>1, <2>1, Zenon DEF Begin, Idle, world
  <2> QED
    BY <1>1, <2>2, StartIsFresh
<1>4. CASE poolGenerationOf(p)
  <2>1. acq'[p].pc = "meta" /\ acq'[p].seen = Unread /\ UNCHANGED <<secret, begin>>
    BY <1>1, <1>4, Zenon DEF poolGenerationOf, world, Acquirer
  <2> QED
    BY <2>1, QuietIsFresh, Zenon
<1>5. CASE \E s \in Secrets, g \in BOOLEAN : ReadFails(p, s, g)
  <2>1. PICK s \in Secrets, g \in BOOLEAN : ReadFails(p, s, g)
    BY <1>5, Zenon
  <2>2. /\ acq' = [acq EXCEPT ![p].gone = g, ![p].pc = AfterFailedRead(@, s)]
        /\ UNCHANGED <<secret, begin>>
    BY <2>1, Zenon DEF ReadFails, world
  <2>3. AfterFailedRead(acq[p].pc, s) \in {"metaCA", "metaFailed", "fetchCA", "fetchFailed"}
    BY Zenon DEF AfterFailedRead
  <2>4. acq'[p].pc \in {"metaCA", "metaFailed", "fetchCA", "fetchFailed"}
    BY <1>1, <2>2, <2>3, Zenon DEF Acquirer
  <2> QED
    BY <2>2, <2>4, QuietIsFresh, Zenon
<1>6. CASE \E g \in BOOLEAN : caRulesFirst(p, g)
  <2>1. PICK g \in BOOLEAN : caRulesFirst(p, g)
    BY <1>6, Zenon
  <2>2. acq'[p].pc \in {"metaFailed", "fetchFailed"} /\ UNCHANGED <<secret, begin>>
    BY <1>1, <2>1, Zenon DEF caRulesFirst, world, Acquirer
  <2> QED
    BY <2>2, QuietIsFresh, Zenon
<1>7. CASE MetaGoneReread(p)
  <2>1. acq'[p].pc = "generation" /\ UNCHANGED <<secret, begin>>
    BY <1>1, <1>7, Zenon DEF MetaGoneReread, world, Acquirer
  <2> QED
    BY <2>1, QuietIsFresh, Zenon
<1>8. CASE MetaGoneRetire(p) \/ MetaError(p) \/ FetchFailed(p) \/ NewBackendFails(p) \/ release(p)
  <2>1. Return(p) /\ UNCHANGED secret
    BY <1>8, Zenon DEF MetaGoneRetire, MetaError, FetchFailed, NewBackendFails, release, world
  <2> QED
    BY <1>2, <2>1, Zenon
<1> QED
  BY <1>3, <1>4, <1>5, <1>6, <1>7, <1>8, Zenon

\* Which variables a step of acquirer p touches.
LEMMA StepIsOwn ==
    ASSUME IInv, NEW p \in Acquirers,
           (\E k \in Keys, sp \in Specs : Begin(p, k, sp)) \/ AcquirerStep(p)
    PROVE  /\ UNCHANGED secret
           /\ \A q \in Acquirers : q # p => acq'[q] = acq[q] /\ begin'[q] = begin[q]
           /\ \A b \in Backends : b <= built => snap'[b] = snap[b]
<1>1. /\ acq \in [Acquirers -> Acquirer] /\ begin \in [Acquirers -> Versions]
      /\ snap \in [Backends -> EntryKey] /\ built \in Nat
  BY DEF IInv, TypeOK
<1>2. ASSUME Return(p)
      PROVE  \A q \in Acquirers : q # p => acq'[q] = acq[q] /\ begin'[q] = begin[q]
  BY <1>1, <1>2, Zenon DEF Return
<1>3. CASE \E k \in Keys, sp \in Specs : Begin(p, k, sp)
  BY <1>1, <1>3, Zenon DEF Begin, world, builds
<1>4. CASE poolGenerationOf(p) \/ MetaGoneReread(p)
  BY <1>1, <1>4, Zenon DEF poolGenerationOf, MetaGoneReread, world, builds
<1>5. CASE \/ \E s \in Secrets : ReadSecret(p, s)
           \/ \E s \in Secrets, g \in BOOLEAN : ReadFails(p, s, g)
           \/ \E g \in BOOLEAN : caRulesFirst(p, g)
  BY <1>1, <1>5, Zenon DEF ReadSecret, ReadFails, caRulesFirst, world, builds
<1>6. CASE MetaGoneRetire(p) \/ MetaError(p) \/ FetchFailed(p) \/ NewBackendFails(p) \/ release(p)
  <2>1. Return(p) /\ UNCHANGED <<secret, snap>>
    BY <1>6, Zenon DEF MetaGoneRetire, MetaError, FetchFailed, NewBackendFails, release, world, builds
  <2> QED
    BY <1>2, <2>1, Zenon
<1>7. CASE lookupOrRetire(p)
  <2>1. UNCHANGED <<secret, snap, begin>>
    BY <1>7, Zenon DEF lookupOrRetire, world, builds
  <2>2. \A q \in Acquirers : q # p => acq'[q] = acq[q]
    BY <1>1, <1>7, Zenon DEF lookupOrRetire, LookupOutcome
  <2> QED
    BY <2>1, <2>2, Zenon
<1>8. CASE storePooledBackend(p)
  <2>1. UNCHANGED <<secret, snap, begin>>
    BY <1>8, Zenon DEF storePooledBackend, world, builds
  <2>2. \A q \in Acquirers : q # p => acq'[q] = acq[q]
    BY <1>1, <1>8, Zenon DEF storePooledBackend
  <2> QED
    BY <2>1, <2>2, Zenon
<1>9. CASE NewBackend(p)
  BY <1>1, <1>9 DEF NewBackend, world
<1>10. CASE \E b \in Backends : closeBackendLogged(p, b)
  BY <1>10, Zenon DEF closeBackendLogged, world, builds
<1> QED
  BY <1>3, <1>4, <1>5, <1>6, <1>7, <1>8, <1>9, <1>10, Zenon DEF AcquirerStep

LEMMA InitFreshInv == Init => FreshInv
<1> SUFFICES ASSUME Init, NEW p \in Acquirers PROVE ReadsAreFresh(p)
  BY InitIInv, Zenon DEF FreshInv
<1> QED
  BY DEF Init, Idle, Unread, ReadsAreFresh

LEMMA NextFreshInv == FreshInv /\ [Next]_vars => FreshInv'
<1> SUFFICES ASSUME FreshInv, [Next]_vars, NEW q \in Acquirers
             PROVE  ReadsAreFresh(q)'
  BY NextIInv, Zenon DEF FreshInv
<1>1. IInv /\ IInv'
  BY NextIInv, Zenon DEF FreshInv
<1>2. \A s \in Secrets : secret[s].rv \in Nat
  BY <1>1, Zenon DEF IInv, TypeOK
<1>3. ASSUME UNCHANGED <<acq, begin, snap>>, \A s \in Secrets : secret'[s].rv >= secret[s].rv
      PROVE  ReadsAreFresh(q)'
  BY <1>1, <1>3, OthersStayFresh, Zenon
<1>4. ASSUME NEW p \in Acquirers,
             (\E k \in Keys, sp \in Specs : Begin(p, k, sp)) \/ AcquirerStep(p)
      PROVE  ReadsAreFresh(q)'
  <2>1. CASE q # p
    BY <1>1, <1>2, <1>4, <2>1, StepIsOwn, OthersStayFresh
  <2>2. CASE \E b \in Backends : closeBackendLogged(p, b)
    BY <1>2, <1>3, <2>2 DEF closeBackendLogged, world, builds
  <2>3. CASE q = p
    BY <1>4, <2>2, <2>3, StepIsFresh, ReadIsFresh, BuildIsFresh, LookupIsFresh, StoreIsFresh, Zenon
       DEF AcquirerStep
  <2> QED
    BY <2>1, <2>3, Zenon
<1>5. CASE \/ \E k \in Keys : evictPoolKeyForDelete(k)
           \/ \E b \in Backends : HookClose(b)
           \/ Tick
           \/ UNCHANGED vars
  <2>1. UNCHANGED <<acq, begin, snap, secret>>
    BY <1>5, Zenon DEF evictPoolKeyForDelete, HookClose, Tick, vars, world, builds
  <2> QED
    BY <1>2, <1>3, <2>1
<1>6. ASSUME NEW s \in Secrets, NEW st, WriteSecret(s, st)
      PROVE  ReadsAreFresh(q)'
  <2>1. secret \in [Secrets -> [rv : Nat, state : {"ok", "empty", "missing"}]]
    BY <1>1, Zenon DEF IInv, TypeOK
  <2>2. \A u \in Secrets : secret'[u].rv >= secret[u].rv
    BY <1>2, <1>6, <2>1 DEF WriteSecret
  <2> QED
    BY <1>3, <1>6, <2>2, Zenon DEF WriteSecret, builds
<1> QED
  BY <1>4, <1>5, <1>6, Zenon DEF Next

\* No acquire returns a backend of another spec, or one built from Secrets older
\* than they were when it began: not from a hit, not from a build that another
\* one superseded, and not from reads that a write overtook.
THEOREM AcquiresAreFresh == Spec => []AcquiredIsFresh
<1>1. Spec => []FreshInv
  BY InitFreshInv, NextFreshInv, PTL DEF Spec
<1>2. FreshInv => AcquiredIsFresh
  BY Zenon DEF FreshInv, ReadsAreFresh, AcquiredIsFresh
<1> QED
  BY <1>1, <1>2, PTL
=============================================================================
