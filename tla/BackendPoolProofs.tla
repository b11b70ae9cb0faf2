------------------------- MODULE BackendPoolProofs -------------------------
(***************************************************************************)
(* Proofs about BackendPool for every set of sinks, acquirers, specs and   *)
(* Secrets and every value of the bounds: what its helpers and its larger  *)
(* actions do to the types, how a backend changes hands (one lemma about   *)
(* CustodyOf for each way), and the invariant that follows.                *)
(***************************************************************************)
EXTENDS BackendPool, FiniteSetTheorems, TLAPS

-----------------------------------------------------------------------------
(* The helpers that run under the mutex keep the pool well typed. *)

\* bumpGenerationLocked and generationLocked keep the pool's type.
LEMMA GenerationType ==
    ASSUME NEW pl \in Pool, NEW k \in Keys, now \in Nat
    PROVE  bumpGenerationLocked(pl, k) \in Pool /\ generationLocked(pl, k) \in Pool
<1>1. pl.counter + 1 \in Nat
  BY DEF Pool
<1>2. bumpGenerationLocked(pl, k) \in Pool
  BY <1>1, Zenon DEF Pool, bumpGenerationLocked
<1> QED
  BY <1>2, Zenon DEF generationLocked

\* retireLocked keeps the pool's type and returns a set of backends to close.
LEMMA RetireType ==
    ASSUME NEW pl \in Pool, NEW k \in Keys, now \in Nat
    PROVE  retireLocked(pl, k) \in Pool /\ ClosedByRetire(pl, k) \in SUBSET Backends
<1>1. CASE pl.entries[k] = 0
  BY <1>1, GenerationType, Zenon DEF retireLocked, ClosedByRetire
<1>2. CASE pl.entries[k] # 0
  <2>1. pl.entries[k] \in Backends
    BY <1>2, Zenon DEF Pool
  <2> QED
    BY <1>2, <2>1, GenerationType DEF retireLocked, ClosedByRetire, Pool
<1> QED
  BY <1>1, <1>2, Zenon

\* holdLocked keeps the pool's type.
LEMMA HoldType ==
    ASSUME NEW pl \in Pool, NEW b \in Backends
    PROVE  holdLocked(pl, b) \in Pool
BY DEF Pool, holdLocked

\* The prunes keep the pool's type, whatever order the stale keys are retired in.
LEMMA PruneType ==
    ASSUME NEW pl \in Pool, now \in Nat, NEW num \in RetireOrders(StaleKeys(pl))
    PROVE  /\ pruneStaleEntriesLocked(pl, num) \in Pool
           /\ {pl.entries[k] : k \in DOMAIN num} \in SUBSET Backends
           /\ DOMAIN num = StaleKeys(pl)
<1>1. DOMAIN num = StaleKeys(pl) /\ num \in [StaleKeys(pl) -> 1..Cardinality(StaleKeys(pl))]
  BY Zenon DEF RetireOrders
<1>2. StaleKeys(pl) \subseteq Keys /\ IsFiniteSet(StaleKeys(pl))
  BY PoolAssumption, FS_Subset, Zenon DEF StaleKeys
<1>3. Cardinality(StaleKeys(pl)) \in Nat
  BY <1>2, FS_CardinalityType, Zenon
<1>4. \A k \in StaleKeys(pl) : pl.entries[k] \in Backends
  BY <1>2, Zenon DEF StaleKeys, Pool
<1>5. \A k \in StaleKeys(pl) : num[k] \in Nat
  BY <1>1, <1>3
<1> DEFINE S == DOMAIN num
           pl1 == [pl EXCEPT
            !.counter = @ + Cardinality(S),
            !.entries = [k \in Keys |-> IF k \in S THEN 0 ELSE @[k]],
            !.retired = [b \in Backends |-> @[b] \/ \E k \in S : pl.entries[k] = b],
            !.generations = [k \in Keys |-> IF k \in S THEN pl.counter + num[k] ELSE @[k]],
            !.changed = [k \in Keys |-> IF k \in S THEN now ELSE @[k]]]
<1>a. pl.counter + Cardinality(S) \in Nat
  BY <1>1, <1>3 DEF Pool
<1>b. \A k \in S : pl.counter + num[k] \in Nat
  BY <1>1, <1>5 DEF Pool
<1>c. pl1 \in Pool
  BY <1>a, <1>b, Zenon DEF Pool
<1>6. pruneStaleEntriesLocked(pl, num) \in Pool
  <2>1. pruneExpiredTombstonesLocked(pl1) \in Pool
    BY <1>c, Zenon DEF pruneExpiredTombstonesLocked, Pool
  <2> QED
    BY <2>1, Zenon DEF pruneStaleEntriesLocked
<1> QED
  BY <1>1, <1>4, <1>6, Zenon

\* pruneExpiredTombstonesLocked keeps the pool's type.
LEMMA PruneTombstonesType ==
    ASSUME NEW pl \in Pool
    PROVE  pruneExpiredTombstonesLocked(pl) \in Pool
BY Zenon DEF pruneExpiredTombstonesLocked, Pool

-----------------------------------------------------------------------------
(* Type correctness. *)

\* The constant records and sets have their types.
LEMMA ConstantTypes ==
    /\ Unread \in Versions /\ NoKey \in EntryKey /\ Idle \in Acquirer
    /\ poolReadAttempts \in Nat /\ 1 \in 1..poolReadAttempts
<1>1. Unread \in Versions /\ NoKey \in EntryKey
  BY Zenon DEF Unread, Versions, NoKey, EntryKey
<1>2. (CHOOSE k \in Keys : TRUE) \in Keys
  BY PoolAssumption, Zenon
<1> QED
  BY <1>1, <1>2 DEF Idle, Acquirer, Stages, poolReadAttempts

\* Pool lookups keep their types: every case of lookupOrRetire.
LEMMA LookupType ==
    ASSUME TypeOK, NEW p \in Acquirers, lookupOrRetire(p)
    PROVE  TypeOK'
<1> DEFINE k == acq[p].key
           wanted == poolEntryKey(acq[p].spec, acq[p].seen)
<1>1. k \in Keys /\ acq[p] \in Acquirer /\ pool \in Pool /\ now \in Nat
  BY Zenon DEF TypeOK, Acquirer
<1>2. PICK num \in RetireOrders(StaleKeys(pool)) :
         LookupOutcome(p, k, wanted, pruneStaleEntriesLocked(pool, num),
                       {pool.entries[j] : j \in DOMAIN num}, DOMAIN num)
  BY Zenon DEF lookupOrRetire
<1> DEFINE pl == pruneStaleEntriesLocked(pool, num)
           b == pl.entries[k]
<1>3. pl \in Pool /\ {pool.entries[j] : j \in DOMAIN num} \in SUBSET Backends
  BY <1>1, <1>2, PruneType, Zenon
<1>4. UNCHANGED <<hookClose, builds, closes, world, begin>>
  BY Zenon DEF lookupOrRetire
<1> HIDE DEF pl, wanted
<1>5. LookupOutcome(p, k, wanted, pl, {pool.entries[j] : j \in DOMAIN num}, DOMAIN num)
  BY <1>2, Zenon DEF pl, wanted
<1>6. b \in Backends \cup {0}
  BY <1>1, <1>3, Zenon DEF Pool
<1>7. fenced' \in SUBSET Acquirers
  BY <1>5 DEF LookupOutcome, Building, TypeOK
<1>8. ASSUME b # 0,
             pool' = generationLocked(holdLocked([pl EXCEPT !.lastUsed[b] = now], b), k),
             acq' = [acq EXCEPT ![p].pc = "using", ![p].backend = b],
             toClose' = [toClose EXCEPT ![p] = {pool.entries[j] : j \in DOMAIN num}]
      PROVE  TypeOK'
  <2>1. [pl EXCEPT !.lastUsed[b] = now] \in Pool
    BY <1>1, <1>3, <1>6, <1>8, Zenon DEF Pool
  <2>2. pool' \in Pool
    BY <2>1, <1>1, <1>6, <1>8, HoldType, GenerationType, Zenon
  <2>3. acq' \in [Acquirers -> Acquirer]
    BY <1>1, <1>6, <1>8, Zenon DEF TypeOK, Acquirer, Stages
  <2> QED
    BY <2>2, <2>3, <1>3, <1>4, <1>7, <1>8, Zenon DEF TypeOK, builds, world
<1>9. ASSUME b # 0, ~force(p), pool' = pl,
             acq' = [acq EXCEPT ![p].pc = "generation", ![p].attempt = @ + 1,
                                ![p].staleKey = snap[b]],
             toClose' = [toClose EXCEPT ![p] = {pool.entries[j] : j \in DOMAIN num}]
      PROVE  TypeOK'
  <2>1. acq[p].attempt + 1 \in 1..poolReadAttempts
    BY <1>1, <1>9 DEF force, poolReadAttempts, Acquirer
  <2>2. snap[b] \in EntryKey
    BY <1>6, <1>9, Zenon DEF TypeOK
  <2>3. acq' \in [Acquirers -> Acquirer]
    BY <1>1, <1>9, <2>1, <2>2, Zenon DEF TypeOK, Acquirer, Stages
  <2> QED
    BY <2>3, <1>3, <1>4, <1>7, <1>9, Zenon DEF TypeOK, builds, world
<1>10. ASSUME pool' = generationLocked(IF b = 0 THEN pl ELSE retireLocked(pl, k), k),
              acq' = [acq EXCEPT ![p].pc = "fetch", ![p].seen = Unread, ![p].now = now,
                                 ![p].generation = pool'.generations[k]],
              toClose' = [toClose EXCEPT ![p] = {pool.entries[j] : j \in DOMAIN num}
                                                   \cup ClosedByRetire(pl, k)]
       PROVE  TypeOK'
  <2>1. pool' \in Pool /\ ClosedByRetire(pl, k) \in SUBSET Backends
    BY <1>1, <1>3, <1>10, RetireType, GenerationType, Zenon
  <2>2. pool'.generations[k] \in Nat
    BY <2>1, <1>1, Zenon DEF Pool
  <2>3. acq' \in [Acquirers -> Acquirer]
    BY <1>1, <1>10, <2>2, ConstantTypes, Zenon DEF TypeOK, Acquirer, Stages
  <2> QED
    BY <2>1, <2>3, <1>3, <1>4, <1>7, <1>10, Zenon DEF TypeOK, builds, world
<1> QED
  BY <1>5, <1>8, <1>9, <1>10, Zenon DEF LookupOutcome

\* RetireBy keeps the types of what it assigns.
LEMMA RetireByType ==
    ASSUME TypeOK, NEW p \in Acquirers, NEW k \in Keys, RetireBy(p, k)
    PROVE  /\ pool' \in Pool
           /\ toClose' \in [Acquirers -> SUBSET Backends]
           /\ fenced' \in SUBSET Acquirers
BY RetireType, Zenon DEF TypeOK, RetireBy, Building

\* storePooledBackend keeps the types in each of its outcomes.
LEMMA StoreType ==
    ASSUME TypeOK, NEW p \in Acquirers, storePooledBackend(p), acq[p].backend # 0
    PROVE  TypeOK'
<1> DEFINE k == acq[p].key
           next == acq[p].backend
           old == pool.entries[k]
<1>1. /\ k \in Keys /\ next \in Backends /\ old \in Backends \cup {0}
      /\ acq[p] \in Acquirer /\ pool \in Pool /\ now \in Nat /\ acq[p].now \in Nat
  BY Zenon DEF TypeOK, Acquirer, Pool
<1>2. fenced' \in SUBSET Acquirers /\ UNCHANGED <<hookClose, builds, closes, world, begin>>
  BY Zenon DEF storePooledBackend, TypeOK, Building
<1>3. ASSUME old # 0,
             pool' = holdLocked([pool EXCEPT !.lastUsed[old] = acq[p].now], old),
             acq' = [acq EXCEPT ![p].pc = "using", ![p].backend = old, ![p].owned = FALSE],
             toClose' = [toClose EXCEPT ![p] = {next}]
      PROVE  TypeOK'
  <2>1. [pool EXCEPT !.lastUsed[old] = acq[p].now] \in Pool
    BY <1>1, <1>3, Zenon DEF Pool
  <2>2. pool' \in Pool
    BY <1>1, <1>3, <2>1, HoldType, Zenon
  <2>3. acq' \in [Acquirers -> Acquirer]
    BY <1>1, <1>3, Zenon DEF TypeOK, Acquirer, Stages
  <2> QED
    BY <1>1, <1>2, <1>3, <2>2, <2>3, Zenon DEF TypeOK, builds, world
<1>4. ASSUME pool' = holdLocked([bumpGenerationLocked(pool, k) EXCEPT
                           !.entries[k] = next, !.lastUsed[next] = acq[p].now,
                           !.changed[k] = acq[p].now], next),
             acq' = [acq EXCEPT ![p].pc = "using", ![p].owned = FALSE],
             UNCHANGED toClose
      PROVE  TypeOK'
  <2>1. bumpGenerationLocked(pool, k) \in Pool
    BY <1>1, GenerationType, Zenon
  <2>2. [bumpGenerationLocked(pool, k) EXCEPT
           !.entries[k] = next, !.lastUsed[next] = acq[p].now,
           !.changed[k] = acq[p].now] \in Pool
    BY <1>1, <2>1, Zenon DEF Pool
  <2>3. pool' \in Pool
    BY <1>1, <1>4, <2>2, HoldType, Zenon
  <2>4. acq' \in [Acquirers -> Acquirer]
    BY <1>1, <1>4, Zenon DEF TypeOK, Acquirer, Stages
  <2> QED
    BY <1>2, <1>4, <2>3, <2>4, Zenon DEF TypeOK, builds, world
<1>5. ASSUME acq' = [acq EXCEPT ![p].pc = "using"], UNCHANGED <<pool, toClose>>
      PROVE  TypeOK'
  <2>1. acq' \in [Acquirers -> Acquirer]
    BY <1>1, <1>5, Zenon DEF TypeOK, Acquirer, Stages
  <2> QED
    BY <1>2, <1>5, <2>1, Zenon DEF TypeOK, builds, world
<1> QED
  BY <1>3, <1>4, <1>5, Zenon DEF storePooledBackend

-----------------------------------------------------------------------------
(* Custody through the steps, one lemma per way in which it can change.    *)

\* The types of the six arguments of CustodyOf.
Typed(pl, ac, tc, hc, n, cl) ==
    /\ pl \in Pool /\ ac \in [Acquirers -> Acquirer]
    /\ tc \in [Acquirers -> SUBSET Backends] /\ hc \in SUBSET Backends
    /\ n \in 0..MaxBuilds /\ cl \in [Backends -> Nat]

\* ac and bc differ at most in what acquirer p handles.
SameBut(p, ac, bc) ==
    \A q \in Acquirers \ {p} : bc[q].backend = ac[q].backend /\ bc[q].owned = ac[q].owned

\* pl and ql pool, count and retire the same backends.
SamePool(pl, ql) ==
    ql.entries = pl.entries /\ ql.holders = pl.holders /\ ql.retired = pl.retired

\* ql is pl with the keys S retired, of which the backends C can be closed now.
Retires(pl, ql, S, C) ==
    /\ ql.holders = pl.holders
    /\ \A k \in Keys : ql.entries[k] = IF k \in S THEN 0 ELSE pl.entries[k]
    /\ \A b \in Backends : ql.retired[b] <=> pl.retired[b] \/ \E k \in S : pl.entries[k] = b
    /\ C = {b \in Backends : pl.holders[b] = 0 /\ \E k \in S : pl.entries[k] = b}

\* Acquirer p, or the delete hook, must Close the backends C.
Owes(p, C, tc, hc, tc2, hc2) ==
    \/ tc2 = [tc EXCEPT ![p] = @ \cup C] /\ hc2 = hc
    \/ tc2 = tc /\ hc2 = hc \cup C

\* ql is pl with backend b pooled and held once under the free key k.
Stores(pl, ql, k, b) ==
    /\ pl.entries[k] = 0
    /\ ql.entries = [pl.entries EXCEPT ![k] = b]
    /\ ql.holders = [pl.holders EXCEPT ![b] = @ + 1]
    /\ ql.retired = pl.retired

\* ql is pl with one hold on b given back.
Unholds(pl, ql, b) ==
    /\ ql.entries = pl.entries /\ ql.retired = pl.retired
    /\ ql.holders = [pl.holders EXCEPT ![b] = @ - 1]

\* What a release that left ql must Close now.
ClosedByRelease(ql, b) == IF Drained(ql, b) THEN {b} ELSE {}
AddClose(p, C, tc, tc2) == tc2 = [tc EXCEPT ![p] = @ \cup C]

\* Custody depends on an acquirer only through the backend it has, and on the
\* pool only through its entries, holder counts and retired marks.
LEMMA FrameCustody ==
    ASSUME NEW pl, NEW ac, NEW tc, NEW hc, NEW n, NEW cl, NEW ql, NEW bc,
           NEW p \in Acquirers,
           CustodyOf(pl, ac, tc, hc, n, cl), SamePool(pl, ql), SameBut(p, ac, bc),
           bc[p].backend = ac[p].backend, bc[p].owned = ac[p].owned
    PROVE  CustodyOf(ql, bc, tc, hc, n, cl)
<1>1. \A q \in Acquirers : bc[q].backend = ac[q].backend /\ bc[q].owned = ac[q].owned
  BY Zenon DEF SameBut
<1>2. \A b \in Backends : Holders(b, bc) = Holders(b, ac)
  BY <1>1, Zenon DEF Holders
<1>3. \A b : InPool(b, ql) <=> InPool(b, pl)
  BY Zenon DEF InPool, SamePool
<1>4. HolderCount(ql, bc)
  BY <1>2, Zenon DEF HolderCount, CustodyOf, SamePool
<1>5. OwnerAlone(ql, bc, tc, hc)
  BY <1>1, <1>3 DEF OwnerAlone, CustodyOf, SamePool
<1>6. HeldIsLive(ql, bc, tc, hc, n, cl)
  BY <1>1, <1>3, Zenon DEF HeldIsLive, CustodyOf, SamePool
<1>7. PooledIsLive(ql, tc, hc, n, cl)
  BY Zenon DEF PooledIsLive, CustodyOf, SamePool
<1>8. Accounted(ql, bc, tc, hc, n, cl)
  BY <1>1, <1>3 DEF Accounted, CustodyOf, SamePool
<1> QED
  BY <1>4, <1>5, <1>6, <1>7, <1>8, Zenon DEF CustodyOf

\* Retiring the keys S hands the backends nobody holds to the acquirer, or to
\* the hook, that must Close them; the held ones stay with their holders.
LEMMA RetireCustody ==
    ASSUME NEW pl, NEW ac, NEW tc, NEW hc, NEW n, NEW cl, NEW ql, NEW tc2, NEW hc2,
           NEW C, NEW S \in SUBSET Keys, NEW p \in Acquirers,
           Typed(pl, ac, tc, hc, n, cl), CustodyOf(pl, ac, tc, hc, n, cl),
           Retires(pl, ql, S, C), Owes(p, C, tc, hc, tc2, hc2)
    PROVE  CustodyOf(ql, ac, tc2, hc2, n, cl)
<1>a. /\ ql.holders = pl.holders
      /\ \A k \in Keys : ql.entries[k] = IF k \in S THEN 0 ELSE pl.entries[k]
      /\ \A b \in Backends : ql.retired[b] <=> pl.retired[b] \/ \E k \in S : pl.entries[k] = b
  BY Zenon DEF Retires
<1>b. C = {b \in Backends : pl.holders[b] = 0 /\ \E k \in S : pl.entries[k] = b}
  BY Zenon DEF Retires
<1>c. \/ tc2 = [tc EXCEPT ![p] = @ \cup C] /\ hc2 = hc
      \/ tc2 = tc /\ hc2 = hc \cup C
  BY Zenon DEF Owes
<1>1. \A b : Pending(b, tc2, hc2) <=> Pending(b, tc, hc) \/ b \in C
  BY <1>c, Zenon DEF Pending, Typed
<1>2. \A b \in Backends : InPool(b, pl) <=> InPool(b, ql) \/ \E k \in S : pl.entries[k] = b
  BY <1>a DEF InPool, Backends
<1>3. \A b \in Backends : IsFiniteSet(Holders(b, ac))
  BY PoolAssumption, FS_Subset, Zenon DEF Holders
<1>4. \A b \in Backends : pl.holders[b] = 0 =>
         \A q \in Acquirers : ac[q].backend = b => ac[q].owned
  <2>1. \A b \in Backends : pl.holders[b] = 0 => Holders(b, ac) = {}
    BY <1>3, FS_EmptySet, Zenon DEF HolderCount, CustodyOf
  <2> QED
    BY <2>1, Zenon DEF Holders
<1>5. \A q \in Acquirers : ac[q].backend \in Backends \cup {0} /\ ac[q].owned \in BOOLEAN
  BY Zenon DEF Typed, Acquirer
<1>6. \A k \in Keys : pl.entries[k] \in Backends \cup {0}
  BY Zenon DEF Typed, Pool
<1>7. 0 \notin Backends
  BY DEF Backends
<1>8. \A b \in C : b \in Backends /\ InPool(b, pl) /\ \A q \in Acquirers : ac[q].backend # b
  <2>1. \A b \in C : b \in Backends /\ InPool(b, pl)
    BY <1>b, Zenon DEF InPool
  <2> QED
    BY <1>4, <1>b, <2>1, Zenon DEF OwnerAlone, CustodyOf
<1>9. HolderCount(ql, ac)
  BY <1>a, Zenon DEF HolderCount, CustodyOf
<1>10. OwnerAlone(ql, ac, tc2, hc2)
  <2>1. SUFFICES ASSUME NEW q \in Acquirers, ac[q].owned
                 PROVE  /\ ac[q].backend # 0 /\ ~InPool(ac[q].backend, ql)
                        /\ ~ql.retired[ac[q].backend] /\ ~Pending(ac[q].backend, tc2, hc2)
                        /\ \A r \in Acquirers : ac[r].backend = ac[q].backend => r = q
    BY Zenon DEF OwnerAlone
  <2>2. /\ ac[q].backend # 0 /\ ~InPool(ac[q].backend, pl)
        /\ ~pl.retired[ac[q].backend] /\ ~Pending(ac[q].backend, tc, hc)
        /\ \A r \in Acquirers : ac[r].backend = ac[q].backend => r = q
    BY <2>1, Zenon DEF OwnerAlone, CustodyOf
  <2>3. ac[q].backend \in Backends
    BY <2>2, <1>5, Zenon
  <2>4. ~\E k \in S : pl.entries[k] = ac[q].backend
    BY <2>2, Zenon DEF InPool
  <2> QED
    BY <2>2, <2>3, <2>4, <1>1, <1>2, <1>8, <1>a, Zenon
<1>11. HeldIsLive(ql, ac, tc2, hc2, n, cl)
  <2>1. SUFFICES ASSUME NEW q \in Acquirers, ac[q].backend # 0
                 PROVE  /\ ac[q].backend <= n /\ cl[ac[q].backend] = 0
                        /\ ~Pending(ac[q].backend, tc2, hc2)
                        /\ ac[q].owned \/ InPool(ac[q].backend, ql) \/ ql.retired[ac[q].backend]
    BY Zenon DEF HeldIsLive
  <2>2. ac[q].backend \in Backends
    BY <2>1, <1>5, Zenon
  <2> QED
    BY <2>1, <2>2, <1>1, <1>2, <1>8, <1>a DEF HeldIsLive, CustodyOf
<1>12. PooledIsLive(ql, tc2, hc2, n, cl)
  <2>1. SUFFICES ASSUME NEW k \in Keys, ql.entries[k] # 0
                 PROVE  /\ ql.entries[k] <= n /\ cl[ql.entries[k]] = 0
                        /\ ~ql.retired[ql.entries[k]] /\ ~Pending(ql.entries[k], tc2, hc2)
                        /\ \A j \in Keys : ql.entries[j] = ql.entries[k] => j = k
    BY Zenon DEF PooledIsLive
  <2>2. k \notin S /\ ql.entries[k] = pl.entries[k] /\ pl.entries[k] \in Backends
    BY <2>1, <1>6, <1>a, Zenon
  <2>3. /\ pl.entries[k] <= n /\ cl[pl.entries[k]] = 0
        /\ ~pl.retired[pl.entries[k]] /\ ~Pending(pl.entries[k], tc, hc)
        /\ \A j \in Keys : pl.entries[j] = pl.entries[k] => j = k
    BY <2>2, <1>7, Zenon DEF PooledIsLive, CustodyOf
  <2>4. \A j \in S : pl.entries[j] # pl.entries[k]
    BY <2>2, <2>3, Zenon
  <2>5. pl.entries[k] \notin C
    BY <2>4, <1>b, Zenon
  <2> QED
    BY <2>2, <2>3, <2>4, <2>5, <1>1, <1>7, <1>a, Zenon
<1>13. PendingOnce(tc2, hc2, n, cl)
  <2>1. \A b \in C : ~Pending(b, tc, hc) /\ b <= n /\ cl[b] = 0
    BY <1>7, <1>8 DEF PooledIsLive, CustodyOf, InPool
  <2>2. \A b \in Backends : Pending(b, tc2, hc2) => b <= n /\ cl[b] = 0
    BY <2>1, <1>1, Zenon DEF PendingOnce, CustodyOf
  <2>3. ASSUME NEW b \in Backends, NEW q \in Acquirers, b \in tc2[q]
        PROVE  b \notin hc2 /\ \A r \in Acquirers : b \in tc2[r] => r = q
    BY <2>1, <2>3, <1>c DEF PendingOnce, CustodyOf, Pending, Typed
  <2> QED
    BY <2>2, <2>3, Zenon DEF PendingOnce
<1>14. Accounted(ql, ac, tc2, hc2, n, cl)
  <2>1. SUFFICES ASSUME NEW b \in Backends
                 PROVE  /\ cl[b] <= 1
                        /\ b > n => ~ql.retired[b] /\ cl[b] = 0
                        /\ b <= n /\ cl[b] = 0 =>
                              \/ InPool(b, ql) \/ Pending(b, tc2, hc2)
                              \/ \E q \in Acquirers : ac[q].backend = b
    BY Zenon DEF Accounted
  <2>2. cl[b] <= 1 /\ (b > n => cl[b] = 0)
    BY Zenon DEF Accounted, CustodyOf
  <2>3. b > n => ~ql.retired[b]
    <3>1. InPool(b, pl) => b <= n
      BY <1>7, Zenon DEF InPool, PooledIsLive, CustodyOf
    <3>2. b \in Nat /\ n \in Nat
      BY DEF Typed, Backends
    <3> QED
      BY <3>1, <3>2, <1>2, <1>a DEF Accounted, CustodyOf
  <2>4. ASSUME b <= n, cl[b] = 0
        PROVE  \/ InPool(b, ql) \/ Pending(b, tc2, hc2)
               \/ \E q \in Acquirers : ac[q].backend = b
    <3>1. CASE \E k \in S : pl.entries[k] = b
      <4>1. CASE pl.holders[b] = 0
        BY <3>1, <4>1, <1>1, <1>b, Zenon
      <4>2. CASE pl.holders[b] # 0
        <5>1. Holders(b, ac) # {}
          BY <4>2, FS_EmptySet, Zenon DEF HolderCount, CustodyOf
        <5> QED
          BY <5>1, Zenon DEF Holders
      <4> QED
        BY <4>1, <4>2, Zenon
    <3>2. CASE ~\E k \in S : pl.entries[k] = b
      BY <3>2, <2>4, <1>1, <1>2, <1>a, Zenon DEF Accounted, CustodyOf
    <3> QED
      BY <3>1, <3>2, Zenon
  <2> QED
    BY <2>2, <2>3, <2>4, Zenon
<1> QED
  BY <1>9, <1>10, <1>11, <1>12, <1>13, <1>14, Zenon DEF CustodyOf


\* An acquirer without a backend takes a hold on a pooled one.
LEMMA HoldCustody ==
    ASSUME NEW pl, NEW ac, NEW tc, NEW hc, NEW n, NEW cl, NEW bc,
           NEW p \in Acquirers, NEW k \in Keys, NEW b \in Backends,
           Typed(pl, ac, tc, hc, n, cl), CustodyOf(pl, ac, tc, hc, n, cl),
           b = pl.entries[k], SameBut(p, ac, bc), ac[p].backend = 0,
           bc[p].backend = b, ~bc[p].owned
    PROVE  CustodyOf(holdLocked(pl, b), bc, tc, hc, n, cl)
<1> DEFINE ql == holdLocked(pl, b)
<1>1. ql.entries = pl.entries /\ ql.retired = pl.retired
  BY Zenon DEF holdLocked, Typed, Pool
<1>2. ql.holders = [pl.holders EXCEPT ![b] = @ + 1] /\ pl.holders \in [Backends -> Nat]
  BY Zenon DEF holdLocked, Typed, Pool
<1>3. b # 0 /\ InPool(b, pl) /\ b <= n /\ cl[b] = 0 /\ ~Pending(b, tc, hc)
  BY DEF Backends, InPool, PooledIsLive, CustodyOf
<1>4. \A c : InPool(c, ql) <=> InPool(c, pl)
  BY <1>1, Zenon DEF InPool
<1> HIDE DEF ql
<1>5. \A c \in Backends : IsFiniteSet(Holders(c, ac))
  BY PoolAssumption, FS_Subset, Zenon DEF Holders
<1>6. Holders(b, bc) = Holders(b, ac) \cup {p} /\ p \notin Holders(b, ac)
  BY <1>3, Zenon DEF Holders, SameBut
<1>7. \A c \in Backends : c # b => Holders(c, bc) = Holders(c, ac)
  BY DEF Holders, SameBut, Backends
<1>8. Cardinality(Holders(b, bc)) = Cardinality(Holders(b, ac)) + 1
  BY <1>5, <1>6, FS_AddElement, Zenon
<1>9. HolderCount(ql, bc)
  BY <1>2, <1>7, <1>8, Zenon DEF HolderCount, CustodyOf
<1>10. ~\E q \in Acquirers : ac[q].owned /\ ac[q].backend = b
  BY <1>3, Zenon DEF OwnerAlone, CustodyOf
<1>11. OwnerAlone(ql, bc, tc, hc)
  BY <1>1, <1>4, <1>10 DEF OwnerAlone, CustodyOf, SameBut
<1>12. HeldIsLive(ql, bc, tc, hc, n, cl)
  BY <1>1, <1>3, <1>4, Zenon DEF HeldIsLive, CustodyOf, SameBut
<1>13. PooledIsLive(ql, tc, hc, n, cl)
  BY <1>1 DEF PooledIsLive, CustodyOf
<1>14. Accounted(ql, bc, tc, hc, n, cl)
  <2>1. \A c \in Backends : (\E q \in Acquirers : ac[q].backend = c)
                              => \E q \in Acquirers : bc[q].backend = c
    BY DEF SameBut, Backends
  <2> QED
    BY <1>1, <1>4, <2>1, Zenon DEF Accounted, CustodyOf
<1> QED
  BY <1>9, <1>11, <1>12, <1>13, <1>14, Zenon DEF CustodyOf, ql

\* An owner gives up its build, which it must Close now.
LEMMA DropCustody ==
    ASSUME NEW pl, NEW ac, NEW tc, NEW hc, NEW n, NEW cl, NEW bc,
           NEW p \in Acquirers,
           Typed(pl, ac, tc, hc, n, cl), CustodyOf(pl, ac, tc, hc, n, cl),
           ac[p].owned, SameBut(p, ac, bc), bc[p].backend = 0, ~bc[p].owned
    PROVE  CustodyOf(pl, bc, [tc EXCEPT ![p] = @ \cup {ac[p].backend}], hc, n, cl)
<1> DEFINE b == ac[p].backend
           tc2 == [tc EXCEPT ![p] = @ \cup {b}]
<1>1. /\ b # 0 /\ ~InPool(b, pl) /\ ~pl.retired[b] /\ ~Pending(b, tc, hc)
      /\ \A q \in Acquirers : ac[q].backend = b => q = p
  BY Zenon DEF OwnerAlone, CustodyOf
<1>2. b \in Backends /\ b <= n /\ cl[b] = 0
  BY <1>1, Zenon DEF Typed, Acquirer, HeldIsLive, CustodyOf
<1>3. \A c : Pending(c, tc2, hc) <=> Pending(c, tc, hc) \/ c = b
  BY Zenon DEF Pending, Typed
<1>4. \A c \in Backends : Holders(c, bc) = Holders(c, ac)
  BY DEF Holders, SameBut, Backends
<1>5. HolderCount(pl, bc)
  BY <1>4, Zenon DEF HolderCount, CustodyOf
<1>6. OwnerAlone(pl, bc, tc2, hc)
  <2>1. SUFFICES ASSUME NEW r \in Acquirers, bc[r].owned
                 PROVE  /\ bc[r].backend # 0 /\ ~InPool(bc[r].backend, pl)
                        /\ ~pl.retired[bc[r].backend] /\ ~Pending(bc[r].backend, tc2, hc)
                        /\ \A q \in Acquirers : bc[q].backend = bc[r].backend => q = r
    BY Zenon DEF OwnerAlone
  <2>2. r # p /\ ac[r].owned /\ bc[r].backend = ac[r].backend /\ ac[r].backend # b
    BY <2>1, <1>1, Zenon DEF SameBut
  <2>3. /\ ac[r].backend # 0 /\ ~InPool(ac[r].backend, pl)
        /\ ~pl.retired[ac[r].backend] /\ ~Pending(ac[r].backend, tc, hc)
        /\ \A q \in Acquirers : ac[q].backend = ac[r].backend => q = r
    BY <2>2, Zenon DEF OwnerAlone, CustodyOf
  <2> QED
    BY <2>2, <2>3, <1>3, Zenon DEF SameBut
<1>7. HeldIsLive(pl, bc, tc2, hc, n, cl)
  BY <1>1, <1>3, Zenon DEF HeldIsLive, CustodyOf, SameBut
<1>8. PooledIsLive(pl, tc2, hc, n, cl)
  BY <1>1, <1>3, Zenon DEF PooledIsLive, CustodyOf, InPool
<1>9. PendingOnce(tc2, hc, n, cl)
  <2>1. \A c \in Backends : Pending(c, tc2, hc) => c <= n /\ cl[c] = 0
    BY <1>2, <1>3, Zenon DEF PendingOnce, CustodyOf
  <2>2. ASSUME NEW c \in Backends, NEW q \in Acquirers, c \in tc2[q]
        PROVE  c \notin hc /\ \A r \in Acquirers : c \in tc2[r] => r = q
    BY <2>2, <1>1 DEF PendingOnce, CustodyOf, Pending, Typed
  <2> QED
    BY <2>1, <2>2, Zenon DEF PendingOnce
<1>10. Accounted(pl, bc, tc2, hc, n, cl)
  <2>1. \A c \in Backends : (\E q \in Acquirers : ac[q].backend = c)
                              => c = b \/ \E q \in Acquirers : bc[q].backend = c
    BY Zenon DEF SameBut, Backends
  <2> QED
    BY <1>3, <2>1, Zenon DEF Accounted, CustodyOf
<1> QED
  BY <1>5, <1>6, <1>7, <1>8, <1>9, <1>10, Zenon DEF CustodyOf

\* An owner stores its build under a key that has no entry, keeping a hold.
LEMMA PoolCustody ==
    ASSUME NEW pl, NEW ac, NEW tc, NEW hc, NEW n, NEW cl, NEW ql, NEW bc,
           NEW p \in Acquirers, NEW k \in Keys,
           Typed(pl, ac, tc, hc, n, cl), CustodyOf(pl, ac, tc, hc, n, cl),
           ac[p].owned, SameBut(p, ac, bc), bc[p].backend = ac[p].backend, ~bc[p].owned,
           Stores(pl, ql, k, ac[p].backend)
    PROVE  CustodyOf(ql, bc, tc, hc, n, cl)
<1> DEFINE b == ac[p].backend
<1>a. /\ pl.entries[k] = 0 /\ ql.retired = pl.retired
      /\ ql.entries = [pl.entries EXCEPT ![k] = b]
      /\ ql.holders = [pl.holders EXCEPT ![b] = @ + 1]
  BY Zenon DEF Stores
<1>1. /\ b # 0 /\ ~InPool(b, pl) /\ ~pl.retired[b] /\ ~Pending(b, tc, hc)
      /\ \A q \in Acquirers : ac[q].backend = b => q = p
  BY Zenon DEF OwnerAlone, CustodyOf
<1>2. b \in Backends /\ b <= n /\ cl[b] = 0
  BY <1>1, Zenon DEF Typed, Acquirer, HeldIsLive, CustodyOf
<1>3. \A j \in Keys : ql.entries[j] = IF j = k THEN b ELSE pl.entries[j]
  BY <1>a, Zenon DEF Typed, Pool
<1>4. \A c \in Backends : InPool(c, ql) <=> InPool(c, pl) \/ c = b
  BY <1>3, <1>a DEF InPool, Backends
<1>5. \A c \in Backends : IsFiniteSet(Holders(c, ac))
  BY PoolAssumption, FS_Subset, Zenon DEF Holders
<1>6. Holders(b, bc) = Holders(b, ac) \cup {p} /\ p \notin Holders(b, ac)
  BY <1>1, Zenon DEF Holders, SameBut
<1>7. \A c \in Backends : c # b => Holders(c, bc) = Holders(c, ac)
  BY Zenon DEF Holders, SameBut
<1>8. Cardinality(Holders(b, bc)) = Cardinality(Holders(b, ac)) + 1
  BY <1>2, <1>5, <1>6, FS_AddElement, Zenon
<1>9. HolderCount(ql, bc)
  BY <1>2, <1>7, <1>8, <1>a DEF HolderCount, CustodyOf, Typed, Pool
<1>10. \A q \in Acquirers : ac[q].backend \in Backends \cup {0}
  BY Zenon DEF Typed, Acquirer
<1>11. OwnerAlone(ql, bc, tc, hc)
  BY <1>1, <1>4, <1>10, <1>a DEF OwnerAlone, CustodyOf, SameBut
<1>12. HeldIsLive(ql, bc, tc, hc, n, cl)
  BY <1>2, <1>4, <1>10, <1>a DEF HeldIsLive, CustodyOf, SameBut
<1>13. PooledIsLive(ql, tc, hc, n, cl)
  BY <1>1, <1>2, <1>3, <1>a DEF PooledIsLive, CustodyOf, InPool
<1>14. Accounted(ql, bc, tc, hc, n, cl)
  <2>1. \A c \in Backends : (\E q \in Acquirers : ac[q].backend = c)
                              => \E q \in Acquirers : bc[q].backend = c
    BY Zenon DEF SameBut
  <2> QED
    BY <1>4, <2>1, <1>a, Zenon DEF Accounted, CustodyOf
<1> QED
  BY <1>9, <1>11, <1>12, <1>13, <1>14, Zenon DEF CustodyOf

-----------------------------------------------------------------------------
\* A build belongs to the acquirer that made it.
LEMMA NewCustody ==
    ASSUME NEW pl, NEW ac, NEW tc, NEW hc, NEW n, NEW cl, NEW bc,
           NEW p \in Acquirers,
           Typed(pl, ac, tc, hc, n, cl), CustodyOf(pl, ac, tc, hc, n, cl),
           n < MaxBuilds, ac[p].backend = 0, SameBut(p, ac, bc),
           bc[p].backend = n + 1, bc[p].owned
    PROVE  CustodyOf(pl, bc, tc, hc, n + 1, cl)
<1> DEFINE b == n + 1
<1>1. b \in Backends /\ b # 0 /\ n \in Nat /\ b > n
  BY PoolAssumption DEF Backends, Typed
<1>2. \A q \in Acquirers : ac[q].backend \in Nat /\ (ac[q].backend # 0 => ac[q].backend <= n)
  BY DEF Typed, Acquirer, Backends, HeldIsLive, CustodyOf
<1>3. \A k \in Keys : pl.entries[k] \in Nat /\ (pl.entries[k] # 0 => pl.entries[k] <= n)
  BY DEF Typed, Pool, Backends, PooledIsLive, CustodyOf
<1>4. ~InPool(b, pl) /\ \A q \in Acquirers : ac[q].backend # b
  BY <1>1, <1>2, <1>3 DEF InPool
<1>5. ~pl.retired[b] /\ cl[b] = 0
  BY <1>1, Zenon DEF Accounted, CustodyOf
<1>6. ~Pending(b, tc, hc)
  BY <1>1 DEF PendingOnce, CustodyOf
<1> HIDE DEF b
<1>7. \A c \in Backends : Holders(c, bc) = Holders(c, ac)
  BY <1>1 DEF Holders, SameBut, Backends
<1>8. HolderCount(pl, bc)
  BY <1>7, Zenon DEF HolderCount, CustodyOf
<1>9. OwnerAlone(pl, bc, tc, hc)
  BY <1>1, <1>4, <1>5, <1>6 DEF OwnerAlone, CustodyOf, SameBut, b
<1>10. HeldIsLive(pl, bc, tc, hc, b, cl)
  <2>1. \A q \in Acquirers \ {p} : ac[q].backend # 0 => ac[q].backend <= b
    BY <1>1, <1>2 DEF b
  <2> QED
    BY <1>1, <1>5, <1>6, <2>1 DEF HeldIsLive, CustodyOf, SameBut, b
<1>11. PooledIsLive(pl, tc, hc, b, cl)
  <2>1. \A k \in Keys : pl.entries[k] # 0 => pl.entries[k] <= b
    BY <1>1, <1>3 DEF b
  <2> QED
    BY <2>1, Zenon DEF PooledIsLive, CustodyOf
<1>12. PendingOnce(tc, hc, b, cl)
  <2>1. \A c \in Backends : c <= n => c <= b
    BY <1>1 DEF b, Backends
  <2> QED
    BY <2>1, Zenon DEF PendingOnce, CustodyOf
<1>13. Accounted(pl, bc, tc, hc, b, cl)
  <2>1. \A c \in Backends : (c <= b => c <= n \/ c = b) /\ (c > b => c > n)
    BY <1>1 DEF b, Backends
  <2>2. \A c \in Backends : (\E q \in Acquirers : ac[q].backend = c)
                              => \E q \in Acquirers : bc[q].backend = c
    BY DEF SameBut, Backends
  <2> QED
    BY <2>1, <2>2, Zenon DEF Accounted, CustodyOf, b
<1> QED
  BY <1>8, <1>9, <1>10, <1>11, <1>12, <1>13, Zenon DEF CustodyOf, b

\* A hold is released; the last holder of a retired entry must Close it now.
LEMMA ReleaseCustody ==
    ASSUME NEW pl, NEW ac, NEW tc, NEW hc, NEW n, NEW cl, NEW ql, NEW bc, NEW tc2,
           NEW p \in Acquirers, NEW b \in Backends,
           Typed(pl, ac, tc, hc, n, cl), CustodyOf(pl, ac, tc, hc, n, cl),
           ac[p].backend = b, ~ac[p].owned, SameBut(p, ac, bc),
           bc[p].backend = 0, ~bc[p].owned,
           Unholds(pl, ql, b),
           AddClose(p, ClosedByRelease(ql, b), tc, tc2)
    PROVE  CustodyOf(ql, bc, tc2, hc, n, cl)
<1>a. /\ ql.entries = pl.entries /\ ql.retired = pl.retired
      /\ ql.holders = [pl.holders EXCEPT ![b] = @ - 1]
  BY Zenon DEF Unholds
<1>1. b # 0 /\ b <= n /\ cl[b] = 0 /\ ~Pending(b, tc, hc) /\ (InPool(b, pl) \/ pl.retired[b])
  BY DEF HeldIsLive, CustodyOf, Backends
<1>2. \A c \in Backends : IsFiniteSet(Holders(c, ac)) /\ IsFiniteSet(Holders(c, bc))
  BY PoolAssumption, FS_Subset, Zenon DEF Holders
<1>3. Holders(b, bc) = Holders(b, ac) \ {p} /\ p \in Holders(b, ac)
  BY <1>1, Zenon DEF Holders, SameBut
<1>4. \A c \in Backends : c # b => Holders(c, bc) = Holders(c, ac)
  BY DEF Holders, SameBut, Backends
<1>5. /\ Cardinality(Holders(b, bc)) = Cardinality(Holders(b, ac)) - 1
      /\ Cardinality(Holders(b, bc)) \in Nat
  BY <1>2, <1>3, FS_RemoveElement, FS_CardinalityType, Zenon
<1>6. pl.holders[b] - 1 = Cardinality(Holders(b, bc))
  BY <1>5, Zenon DEF HolderCount, CustodyOf
<1>7. HolderCount(ql, bc)
  BY <1>4, <1>6, <1>a DEF HolderCount, CustodyOf, Typed, Pool
<1>8. \A c : InPool(c, ql) <=> InPool(c, pl)
  BY <1>a, Zenon DEF InPool
<1>9. ~\E q \in Acquirers : ac[q].owned /\ ac[q].backend = b
  BY <1>1, Zenon DEF OwnerAlone, CustodyOf
<1>10. Drained(ql, b) => pl.retired[b] /\ ~InPool(b, pl) /\ \A q \in Acquirers : bc[q].backend # b
  <2>1. Drained(ql, b) => pl.retired[b] /\ Holders(b, bc) = {}
    BY <1>2, <1>7, <1>a, FS_EmptySet, Zenon DEF Drained, HolderCount
  <2>2. pl.retired[b] => ~InPool(b, pl)
    BY <1>1, Zenon DEF PooledIsLive, CustodyOf, InPool
  <2> QED
    BY <2>1, <2>2, <1>1, <1>9, Zenon DEF Holders, SameBut
<1>11. \A c : Pending(c, tc2, hc) <=> Pending(c, tc, hc) \/ (c = b /\ Drained(ql, b))
  BY Zenon DEF Pending, Typed, ClosedByRelease, AddClose
<1>12. OwnerAlone(ql, bc, tc2, hc)
  <2>1. SUFFICES ASSUME NEW r \in Acquirers, bc[r].owned
                 PROVE  /\ bc[r].backend # 0 /\ ~InPool(bc[r].backend, ql)
                        /\ ~ql.retired[bc[r].backend] /\ ~Pending(bc[r].backend, tc2, hc)
                        /\ \A q \in Acquirers : bc[q].backend = bc[r].backend => q = r
    BY Zenon DEF OwnerAlone
  <2>2. r # p /\ ac[r].owned /\ bc[r].backend = ac[r].backend /\ ac[r].backend # b
    BY <2>1, <1>9, Zenon DEF SameBut
  <2>3. /\ ac[r].backend # 0 /\ ~InPool(ac[r].backend, pl)
        /\ ~pl.retired[ac[r].backend] /\ ~Pending(ac[r].backend, tc, hc)
        /\ \A q \in Acquirers : ac[q].backend = ac[r].backend => q = r
    BY <2>2, Zenon DEF OwnerAlone, CustodyOf
  <2> QED
    BY <2>2, <2>3, <1>8, <1>11, <1>a, Zenon DEF SameBut
<1>13. HeldIsLive(ql, bc, tc2, hc, n, cl)
  BY <1>8, <1>10, <1>11, <1>a DEF HeldIsLive, CustodyOf, SameBut
<1>14. PooledIsLive(ql, tc2, hc, n, cl)
  <2>1. SUFFICES ASSUME NEW k \in Keys, ql.entries[k] # 0
                 PROVE  /\ ql.entries[k] <= n /\ cl[ql.entries[k]] = 0
                        /\ ~ql.retired[ql.entries[k]] /\ ~Pending(ql.entries[k], tc2, hc)
                        /\ \A j \in Keys : ql.entries[j] = ql.entries[k] => j = k
    BY Zenon DEF PooledIsLive
  <2>2. /\ pl.entries[k] <= n /\ cl[pl.entries[k]] = 0
        /\ ~pl.retired[pl.entries[k]] /\ ~Pending(pl.entries[k], tc, hc)
        /\ \A j \in Keys : pl.entries[j] = pl.entries[k] => j = k
    BY <2>1, <1>a, Zenon DEF PooledIsLive, CustodyOf
  <2>3. pl.entries[k] = b => ~Drained(ql, b)
    BY <1>10, Zenon DEF InPool
  <2> QED
    BY <2>2, <2>3, <1>11, <1>a, Zenon
<1>15. PendingOnce(tc2, hc, n, cl)
  <2>1. \A c \in Backends : Pending(c, tc2, hc) => c <= n /\ cl[c] = 0
    BY <1>1, <1>11, Zenon DEF PendingOnce, CustodyOf
  <2>2. ASSUME NEW c \in Backends, NEW q \in Acquirers, c \in tc2[q]
        PROVE  c \notin hc /\ \A r \in Acquirers : c \in tc2[r] => r = q
    BY <2>2, <1>1 DEF PendingOnce, CustodyOf, Pending, Typed, ClosedByRelease, AddClose
  <2> QED
    BY <2>1, <2>2, Zenon DEF PendingOnce
<1>16. Accounted(ql, bc, tc2, hc, n, cl)
  <2>1. \A c \in Backends : (\E q \in Acquirers : ac[q].backend = c)
                              => c = b \/ \E q \in Acquirers : bc[q].backend = c
    BY Zenon DEF SameBut, Backends
  <2>2. \/ InPool(b, ql) \/ Pending(b, tc2, hc) \/ \E q \in Acquirers : bc[q].backend = b
    <3>1. CASE InPool(b, pl)
      BY <3>1, <1>8, Zenon
    <3>2. CASE pl.retired[b] /\ ql.holders[b] = 0
      BY <3>2, <1>11, <1>a, Zenon DEF Drained
    <3>3. CASE ql.holders[b] # 0
      <4>1. Holders(b, bc) # {}
        BY <3>3, <1>7, FS_EmptySet, Zenon DEF HolderCount
      <4> QED
        BY <4>1, Zenon DEF Holders
    <3> QED
      BY <3>1, <3>2, <3>3, <1>1, Zenon
  <2> QED
    BY <1>8, <1>11, <2>1, <2>2, <1>a, Zenon DEF Accounted, CustodyOf
<1> QED
  BY <1>7, <1>12, <1>13, <1>14, <1>15, <1>16, Zenon DEF CustodyOf

\* The count of a held backend is positive.
LEMMA HeldCount ==
    ASSUME NEW pl, NEW ac, NEW tc, NEW hc, NEW n, NEW cl,
           NEW p \in Acquirers, NEW b \in Backends,
           CustodyOf(pl, ac, tc, hc, n, cl), ac[p].backend = b, ~ac[p].owned
    PROVE  pl.holders[b] - 1 \in Nat
<1>1. IsFiniteSet(Holders(b, ac)) /\ p \in Holders(b, ac)
  BY PoolAssumption, FS_Subset, Zenon DEF Holders
<1>2. Cardinality(Holders(b, ac)) \in Nat /\ Cardinality(Holders(b, ac)) # 0
  BY <1>1, FS_CardinalityType, FS_EmptySet, Zenon
<1> QED
  BY <1>2 DEF HolderCount, CustodyOf

\* A pending Close is made, by an acquirer or by the delete hook.
LEMMA CloseCustody ==
    ASSUME NEW pl, NEW ac, NEW tc, NEW hc, NEW n, NEW cl, NEW tc2, NEW hc2,
           NEW p \in Acquirers, NEW b \in Backends,
           Typed(pl, ac, tc, hc, n, cl), CustodyOf(pl, ac, tc, hc, n, cl),
           \/ b \in tc[p] /\ tc2 = [tc EXCEPT ![p] = @ \ {b}] /\ hc2 = hc
           \/ b \in hc /\ tc2 = tc /\ hc2 = hc \ {b}
    PROVE  CustodyOf(pl, ac, tc2, hc2, n, [cl EXCEPT ![b] = @ + 1])
<1> DEFINE cl2 == [cl EXCEPT ![b] = @ + 1]
<1>1. Pending(b, tc, hc) /\ b <= n /\ cl[b] = 0 /\ b # 0 /\ b \in Nat /\ n \in Nat
  BY DEF Pending, PendingOnce, CustodyOf, Backends, Typed
<1>2. \A c \in Backends : Pending(c, tc2, hc2) <=> Pending(c, tc, hc) /\ c # b
  BY DEF Pending, PendingOnce, CustodyOf, Typed
<1>3. \A c \in Backends : cl2[c] = IF c = b THEN 1 ELSE cl[c]
  BY <1>1 DEF Typed
<1>4. \A k \in Keys : pl.entries[k] \in Backends \cup {0} /\ pl.entries[k] # b
  BY <1>1, Zenon DEF PooledIsLive, CustodyOf, Typed, Pool
<1>5. \A q \in Acquirers : ac[q].backend \in Backends \cup {0} /\ ac[q].backend # b
  BY <1>1, Zenon DEF HeldIsLive, CustodyOf, Typed, Acquirer
<1> HIDE DEF cl2
<1>6. OwnerAlone(pl, ac, tc2, hc2)
  BY <1>2, <1>5, Zenon DEF OwnerAlone, CustodyOf
<1>7. HeldIsLive(pl, ac, tc2, hc2, n, cl2)
  BY <1>2, <1>3, <1>5, Zenon DEF HeldIsLive, CustodyOf
<1>8. PooledIsLive(pl, tc2, hc2, n, cl2)
  BY <1>2, <1>3, <1>4, Zenon DEF PooledIsLive, CustodyOf
<1>9. PendingOnce(tc2, hc2, n, cl2)
  <2>1. \A c \in Backends : Pending(c, tc2, hc2) => c <= n /\ cl2[c] = 0
    BY <1>2, <1>3, Zenon DEF PendingOnce, CustodyOf
  <2>2. ASSUME NEW c \in Backends, NEW q \in Acquirers, c \in tc2[q]
        PROVE  c \notin hc2 /\ \A r \in Acquirers : c \in tc2[r] => r = q
    BY <2>2 DEF PendingOnce, CustodyOf, Typed
  <2> QED
    BY <2>1, <2>2, Zenon DEF PendingOnce
<1>10. Accounted(pl, ac, tc2, hc2, n, cl2)
  BY <1>1, <1>2, <1>3 DEF Accounted, CustodyOf
<1> QED
  BY <1>6, <1>7, <1>8, <1>9, <1>10, Zenon DEF CustodyOf, cl2

-----------------------------------------------------------------------------
(* What the pool helpers do to entries, holder counts and retired marks.   *)

\* generationLocked and bumpGenerationLocked touch none of them.
LEMMA GenerationFields ==
    ASSUME NEW pl \in Pool, NEW k \in Keys
    PROVE  SamePool(pl, generationLocked(pl, k)) /\ SamePool(pl, bumpGenerationLocked(pl, k))
BY Zenon DEF SamePool, generationLocked, bumpGenerationLocked, Pool

\* pruneExpiredTombstonesLocked touches none of them.
LEMMA TombstoneFields ==
    ASSUME NEW pl \in Pool
    PROVE  SamePool(pl, pruneExpiredTombstonesLocked(pl))
BY Zenon DEF SamePool, pruneExpiredTombstonesLocked, Pool

\* retireLocked retires the key's backend and asks for its Close if it is idle.
LEMMA RetireFields ==
    ASSUME NEW pl \in Pool, NEW k \in Keys, now \in Nat
    PROVE  Retires(pl, retireLocked(pl, k), {k}, ClosedByRetire(pl, k))
<1>1. SamePool(pl, bumpGenerationLocked(pl, k)) /\ bumpGenerationLocked(pl, k) \in Pool
  BY GenerationFields, GenerationType, Zenon
<1>2. pl.entries \in [Keys -> Backends \cup {0}] /\ pl.retired \in [Backends -> BOOLEAN]
  BY Zenon DEF Pool
<1>3. ClosedByRetire(pl, k) =
         {b \in Backends : pl.holders[b] = 0 /\ \E j \in {k} : pl.entries[j] = b}
  BY Zenon DEF ClosedByRetire
<1>4. CASE pl.entries[k] = 0
  BY <1>1, <1>2, <1>3, <1>4 DEF retireLocked, SamePool, Backends, Retires
<1>5. CASE pl.entries[k] # 0
  <2> DEFINE ql == [bumpGenerationLocked(pl, k) EXCEPT
                      !.entries[k] = 0, !.retired[pl.entries[k]] = TRUE]
  <2>1. ql = retireLocked(pl, k)
    BY <1>5, Zenon DEF retireLocked
  <2>2. /\ ql.holders = pl.holders
        /\ ql.entries = [pl.entries EXCEPT ![k] = 0]
        /\ ql.retired = [pl.retired EXCEPT ![pl.entries[k]] = TRUE]
    BY <1>1, Zenon DEF SamePool, Pool
  <2> HIDE DEF ql
  <2> QED
    BY <2>1, <2>2, <1>2, <1>3 DEF Retires
<1> QED
  BY <1>4, <1>5, Zenon

\* pruneStaleEntriesLocked retires the stale keys, which nobody holds.
LEMMA PruneFields ==
    ASSUME NEW pl \in Pool, NEW num \in RetireOrders(StaleKeys(pl)), now \in Nat
    PROVE  Retires(pl, pruneStaleEntriesLocked(pl, num), DOMAIN num,
                   {pl.entries[k] : k \in DOMAIN num})
<1>1. DOMAIN num = StaleKeys(pl)
  BY Zenon DEF RetireOrders
<1>2. StaleKeys(pl) \in SUBSET Keys
  BY Zenon DEF StaleKeys
<1>3. \A k \in StaleKeys(pl) : pl.entries[k] \in Backends /\ pl.holders[pl.entries[k]] = 0
  BY <1>2, Zenon DEF StaleKeys, Pool
<1>4. LET ql == pruneStaleEntriesLocked(pl, num) IN
      /\ ql.holders = pl.holders
      /\ ql.entries = [k \in Keys |-> IF k \in DOMAIN num THEN 0 ELSE pl.entries[k]]
      /\ ql.retired = [b \in Backends |-> pl.retired[b] \/ \E k \in DOMAIN num : pl.entries[k] = b]
  BY Zenon DEF pruneStaleEntriesLocked, pruneExpiredTombstonesLocked, Pool
<1>5. {pl.entries[k] : k \in DOMAIN num} =
         {b \in Backends : pl.holders[b] = 0 /\ \E k \in DOMAIN num : pl.entries[k] = b}
  BY <1>1, <1>3, Zenon
<1> QED
  BY <1>4, <1>5, Zenon DEF Retires

-----------------------------------------------------------------------------
(* Every step of an acquirer, of the hook and of the world preserves the    *)
(* inductive invariant.                                                     *)

\* The inductive invariant: types and custody need each other, since only the
\* holder count keeps a release from taking a counter below zero.
IInv == TypeOK /\ Custody

\* A step that neither moves a backend nor takes or drops a hold.
LEMMA QuietStep ==
    ASSUME IInv, NEW p \in Acquirers, SamePool(pool, pool'), SameBut(p, acq, acq'),
           acq'[p].backend = acq[p].backend, acq'[p].owned = acq[p].owned,
           UNCHANGED <<toClose, hookClose, built, closes>>
    PROVE  CustodyOf(pool, acq, toClose, hookClose, built, closes)'
<1>1. CustodyOf(pool', acq', toClose, hookClose, built, closes)
  BY FrameCustody, Zenon DEF IInv, Custody
<1> QED
  BY <1>1, Zenon

\* A retire by an acquirer that returns at once.
LEMMA RetireStep ==
    ASSUME IInv, NEW p \in Acquirers, NEW k \in Keys, toClose[p] = {}, acq[p].backend = 0,
           RetireBy(p, k), Return(p), UNCHANGED <<hookClose, built, closes>>
    PROVE  CustodyOf(pool, acq, toClose, hookClose, built, closes)'
<1>1. Typed(pool, acq, toClose, hookClose, built, closes)
  BY Zenon DEF IInv, TypeOK, Typed
<1>2. CustodyOf(pool, acq, toClose, hookClose, built, closes)
  BY Zenon DEF IInv, Custody
<1>3. /\ pool' = retireLocked(pool, k)
      /\ toClose' = [toClose EXCEPT ![p] = @ \cup ClosedByRetire(pool, k)]
  BY Zenon DEF RetireBy
<1>4. CustodyOf(pool', acq, toClose', hookClose, built, closes)
  <2>1. Retires(pool, pool', {k}, ClosedByRetire(pool, k)) /\ {k} \in SUBSET Keys
    BY <1>3, RetireFields, Zenon DEF IInv, TypeOK
  <2>2. Owes(p, ClosedByRetire(pool, k), toClose, hookClose, toClose', hookClose)
    BY <1>3, Zenon DEF Owes
  <2> QED
    BY <1>1, <1>2, <2>1, <2>2, RetireCustody, Zenon
<1>5. ~acq[p].owned
  BY <1>2, Zenon DEF CustodyOf, OwnerAlone
<1>6. acq'[p].backend = acq[p].backend /\ acq'[p].owned = acq[p].owned /\ SameBut(p, acq, acq')
  BY <1>1, <1>5, Zenon DEF Return, Idle, SameBut, Typed, Acquirer
<1>7. CustodyOf(pool', acq', toClose', hookClose, built, closes)
  BY <1>4, <1>6, FrameCustody, Zenon DEF SamePool
<1> QED
  BY <1>7, Zenon

\* A lookup: the prune, then a hit, a re-read or a miss.
LEMMA LookupStep ==
    ASSUME IInv, NEW p \in Acquirers, lookupOrRetire(p)
    PROVE  Custody'
<1> DEFINE k == acq[p].key
           wanted == poolEntryKey(acq[p].spec, acq[p].seen)
<1>1. Typed(pool, acq, toClose, hookClose, built, closes) /\ now \in Nat /\ k \in Keys
  BY Zenon DEF IInv, TypeOK, Typed, Acquirer
<1>2. CustodyOf(pool, acq, toClose, hookClose, built, closes) /\ Handling
  BY Zenon DEF IInv, Custody
<1>3. PICK num \in RetireOrders(StaleKeys(pool)) :
         LookupOutcome(p, k, wanted, pruneStaleEntriesLocked(pool, num),
                       {pool.entries[j] : j \in DOMAIN num}, DOMAIN num)
  BY Zenon DEF lookupOrRetire
<1> DEFINE pl == pruneStaleEntriesLocked(pool, num)
           pruned == {pool.entries[j] : j \in DOMAIN num}
           tc == [toClose EXCEPT ![p] = @ \cup pruned]
           b == pl.entries[k]
<1>4. pl \in Pool /\ pruned \in SUBSET Backends /\ DOMAIN num \in SUBSET Keys
  BY <1>1, PruneType, Zenon DEF Typed, StaleKeys
<1>5. Retires(pool, pl, DOMAIN num, pruned)
  BY <1>1, PruneFields, Zenon DEF Typed
<1> HIDE DEF pl, pruned, wanted
<1>6. LookupOutcome(p, k, wanted, pl, pruned, DOMAIN num)
  BY <1>3, Zenon DEF pl, pruned, wanted
<1>7. UNCHANGED <<hookClose, built, closes>> /\ At(p, "meta")
  BY Zenon DEF lookupOrRetire, builds
<1>8. acq[p].backend = 0 /\ ~acq[p].owned /\ acq[p].pc = "meta"
  BY <1>2, <1>7, Zenon DEF Handling, At, CustodyOf, OwnerAlone
<1>9. CustodyOf(pl, acq, tc, hookClose, built, closes)
  <2>1. Owes(p, pruned, toClose, hookClose, tc, hookClose)
    BY Zenon DEF Owes
  <2> QED
    BY <1>1, <1>2, <1>4, <1>5, <2>1, RetireCustody
<1>10. Typed(pl, acq, tc, hookClose, built, closes)
  BY <1>1, <1>4, Zenon DEF Typed
<1>11. b \in Backends \cup {0}
  BY <1>1, <1>4, Zenon DEF Pool
<1>12. tc[p] = pruned /\ tc = [toClose EXCEPT ![p] = pruned]
  BY <1>1, <1>7, Zenon DEF At, Typed
<1>13. ASSUME b # 0,
              pool' = generationLocked(holdLocked([pl EXCEPT !.lastUsed[b] = now], b), k),
              acq' = [acq EXCEPT ![p].pc = "using", ![p].backend = b],
              toClose' = [toClose EXCEPT ![p] = pruned]
       PROVE  Custody'
  <2> DEFINE pl1 == [pl EXCEPT !.lastUsed[b] = now]
  <2>1. pl1 \in Pool /\ SamePool(pl, pl1)
    BY <1>1, <1>4, <1>11, <1>13, Zenon DEF Pool, SamePool
  <2> HIDE DEF pl1
  <2>2. Typed(pl1, acq, tc, hookClose, built, closes) /\ pl1.entries[k] = b
    BY <2>1, <1>10, Zenon DEF Typed, SamePool
  <2>3. CustodyOf(pl1, acq, tc, hookClose, built, closes)
    BY <2>1, <1>9, FrameCustody, Zenon DEF SameBut
  <2>4. SameBut(p, acq, acq') /\ acq'[p].backend = b /\ ~acq'[p].owned /\ acq'[p].pc = "using"
    BY <1>1, <1>8, <1>13 DEF SameBut, Typed, Acquirer
  <2>5. CustodyOf(holdLocked(pl1, b), acq', tc, hookClose, built, closes)
    BY <2>2, <2>3, <2>4, <1>1, <1>8, <1>11, <1>13, HoldCustody, Zenon
  <2>6. holdLocked(pl1, b) \in Pool /\ pool' = generationLocked(holdLocked(pl1, b), k)
    BY <2>1, <1>11, <1>13, HoldType, Zenon DEF pl1
  <2>7. SamePool(holdLocked(pl1, b), pool')
    BY <2>6, <1>1, GenerationFields, Zenon
  <2>8. CustodyOf(pool', acq', tc, hookClose, built, closes)
    BY <2>5, <2>7, FrameCustody, Zenon DEF SameBut
  <2>9. Handling'
    BY <2>4, <1>1, <1>2, <1>13, Zenon DEF Handling, Typed
  <2> QED
    BY <2>8, <2>9, <1>7, <1>12, <1>13, Zenon DEF Custody
<1>14. ASSUME pool' = pl,
              acq' = [acq EXCEPT ![p].pc = "generation", ![p].attempt = @ + 1,
                                 ![p].staleKey = snap[b]],
              toClose' = [toClose EXCEPT ![p] = pruned]
       PROVE  Custody'
  <2>1. /\ SameBut(p, acq, acq') /\ acq'[p].backend = acq[p].backend
        /\ acq'[p].owned = acq[p].owned /\ acq'[p].pc = "generation"
    BY <1>1, <1>14 DEF SameBut, Typed, Acquirer
  <2>2. SamePool(pl, pool')
    BY <1>14, Zenon DEF SamePool
  <2>3. CustodyOf(pool', acq', tc, hookClose, built, closes)
    BY <2>1, <2>2, <1>9, FrameCustody, Zenon
  <2>4. Handling'
    BY <2>1, <1>1, <1>2, <1>8, <1>14, Zenon DEF Handling, Typed
  <2> QED
    BY <2>3, <2>4, <1>7, <1>12, <1>14, Zenon DEF Custody
<1>15. ASSUME pool' = generationLocked(IF b = 0 THEN pl ELSE retireLocked(pl, k), k),
              acq' = [acq EXCEPT ![p].pc = "fetch", ![p].seen = Unread, ![p].now = now,
                                 ![p].generation = pool'.generations[k]],
              toClose' = [toClose EXCEPT ![p] = pruned \cup ClosedByRetire(pl, k)]
       PROVE  Custody'
  <2> DEFINE ql == IF b = 0 THEN pl ELSE retireLocked(pl, k)
             tc2 == [tc EXCEPT ![p] = @ \cup ClosedByRetire(pl, k)]
  <2>1. ql \in Pool /\ SamePool(ql, pool')
    BY <1>1, <1>4, <1>15, RetireType, GenerationFields, Zenon
  <2>2. toClose' = tc2
    BY <1>1, <1>12, <1>15, Zenon DEF Typed
  <2>3. CustodyOf(ql, acq, tc2, hookClose, built, closes)
    <3>1. CASE b = 0
      <4>1. ClosedByRetire(pl, k) = {}
        BY <3>1 DEF ClosedByRetire, Backends
      <4>2. tc2 = tc /\ ql = pl
        BY <4>1, <3>1, <1>10, Zenon DEF Typed
      <4> QED
        BY <4>2, <1>9, Zenon
    <3>2. CASE b # 0
      <4>1. Retires(pl, ql, {k}, ClosedByRetire(pl, k)) /\ {k} \in SUBSET Keys
        BY <3>2, <1>1, <1>4, RetireFields, Zenon
      <4>2. Owes(p, ClosedByRetire(pl, k), tc, hookClose, tc2, hookClose)
        BY Zenon DEF Owes
      <4> HIDE DEF ql, tc2
      <4> QED
        BY <4>1, <4>2, <1>9, <1>10, RetireCustody
    <3> QED
      BY <3>1, <3>2, Zenon
  <2>4. /\ SameBut(p, acq, acq') /\ acq'[p].backend = acq[p].backend
        /\ acq'[p].owned = acq[p].owned /\ acq'[p].pc = "fetch"
    BY <1>1, <1>15 DEF SameBut, Typed, Acquirer
  <2> HIDE DEF ql, tc2
  <2>5. CustodyOf(pool', acq', tc2, hookClose, built, closes)
    BY <2>1, <2>3, <2>4, FrameCustody, Zenon
  <2>6. Handling'
    BY <2>4, <1>1, <1>2, <1>8, <1>15, Zenon DEF Handling, Typed
  <2> QED
    BY <2>2, <2>5, <2>6, <1>7, Zenon DEF Custody
<1> QED
  BY <1>6, <1>13, <1>14, <1>15, Zenon DEF LookupOutcome

-----------------------------------------------------------------------------
\* The store: the build is superseded, pooled, or kept by its owner.
LEMMA StoreStep ==
    ASSUME IInv, NEW p \in Acquirers, storePooledBackend(p)
    PROVE  Custody'
<1> DEFINE k == acq[p].key
           next == acq[p].backend
           old == pool.entries[k]
<1>1. Typed(pool, acq, toClose, hookClose, built, closes) /\ now \in Nat /\ k \in Keys
  BY Zenon DEF IInv, TypeOK, Typed, Acquirer
<1>2. CustodyOf(pool, acq, toClose, hookClose, built, closes) /\ Handling
  BY Zenon DEF IInv, Custody
<1>3. UNCHANGED <<hookClose, built, closes>> /\ At(p, "store")
  BY Zenon DEF storePooledBackend, builds
<1>4. acq[p].owned /\ next \in Backends /\ toClose[p] = {} /\ acq[p].pc = "store"
  BY <1>1, <1>2, <1>3, Zenon DEF Handling, At, Typed, Acquirer
<1>5. old \in Backends \cup {0} /\ acq[p].now \in Nat /\ pool \in Pool
  BY <1>1, Zenon DEF Typed, Pool, Acquirer
<1>6. ASSUME old # 0,
             pool' = holdLocked([pool EXCEPT !.lastUsed[old] = acq[p].now], old),
             acq' = [acq EXCEPT ![p].pc = "using", ![p].backend = old, ![p].owned = FALSE],
             toClose' = [toClose EXCEPT ![p] = {next}]
      PROVE  Custody'
  <2> DEFINE dropped == [acq[p] EXCEPT !.backend = 0, !.owned = FALSE]
             ac1 == [acq EXCEPT ![p] = dropped]
             tc1 == [toClose EXCEPT ![p] = @ \cup {next}]
             pl1 == [pool EXCEPT !.lastUsed[old] = acq[p].now]
  <2>1. toClose' = tc1
    BY <1>4, <1>6, Zenon
  <2>a. dropped \in Acquirer /\ dropped.backend = 0 /\ ~dropped.owned
    BY <1>1 DEF Typed, Acquirer
  <2>2. ac1 \in [Acquirers -> Acquirer] /\ ac1[p].backend = 0 /\ ~ac1[p].owned
    BY <1>1, <2>a, Zenon DEF Typed
  <2>3. SameBut(p, acq, ac1)
    BY <1>1, Zenon DEF SameBut, Typed
  <2>4. CustodyOf(pool, ac1, tc1, hookClose, built, closes)
    BY <1>1, <1>2, <1>4, <2>2, <2>3, DropCustody, Zenon
  <2>5. pl1 \in Pool /\ SamePool(pool, pl1)
    BY <1>5, <1>6, Zenon DEF Pool, SamePool
  <2>6. Typed(pl1, ac1, tc1, hookClose, built, closes)
    BY <1>1, <1>4, <2>2, <2>5, Zenon DEF Typed
  <2>7. SameBut(p, ac1, acq') /\ acq'[p].backend = old /\ ~acq'[p].owned /\ acq'[p].pc = "using"
    BY <1>1, <1>6 DEF SameBut, Typed, Acquirer
  <2>8. pl1.entries[k] = old /\ SameBut(p, ac1, ac1)
    BY <2>5, Zenon DEF SamePool, SameBut
  <2>9. pool' = holdLocked(pl1, old)
    BY <1>6, Zenon
  <2> HIDE DEF pl1, ac1, tc1
  <2>10. CustodyOf(pl1, ac1, tc1, hookClose, built, closes)
    BY <2>4, <2>5, <2>8, FrameCustody, Zenon
  <2>11. CustodyOf(holdLocked(pl1, old), acq', tc1, hookClose, built, closes)
    BY <2>2, <2>6, <2>7, <2>8, <2>10, <1>1, <1>5, <1>6, HoldCustody, Zenon
  <2>12. Handling'
    BY <1>1, <1>2, <1>6, <2>7, Zenon DEF Handling, Typed
  <2> QED
    BY <2>1, <2>9, <2>11, <2>12, <1>3, Zenon DEF Custody
<1>7. ASSUME old = 0,
             pool' = holdLocked([bumpGenerationLocked(pool, k) EXCEPT
                           !.entries[k] = next, !.lastUsed[next] = acq[p].now,
                           !.changed[k] = acq[p].now], next),
             acq' = [acq EXCEPT ![p].pc = "using", ![p].owned = FALSE],
             UNCHANGED toClose
      PROVE  Custody'
  <2>1. bumpGenerationLocked(pool, k) \in Pool /\ SamePool(pool, bumpGenerationLocked(pool, k))
    BY <1>1, <1>5, GenerationType, GenerationFields, Zenon
  <2>2. Stores(pool, pool', k, next)
    BY <1>7, <2>1, Zenon DEF holdLocked, SamePool, Pool, Stores
  <2>3. SameBut(p, acq, acq') /\ acq'[p].backend = next /\ ~acq'[p].owned /\ acq'[p].pc = "using"
    BY <1>1, <1>7 DEF SameBut, Typed, Acquirer
  <2>4. CustodyOf(pool', acq', toClose, hookClose, built, closes)
    BY <1>1, <1>2, <1>4, <2>2, <2>3, PoolCustody
  <2>5. Handling'
    BY <1>1, <1>2, <1>4, <1>7, <2>3, Zenon DEF Handling, Typed
  <2> QED
    BY <2>4, <2>5, <1>3, <1>7, Zenon DEF Custody
<1>8. ASSUME acq' = [acq EXCEPT ![p].pc = "using"], UNCHANGED <<pool, toClose>>
      PROVE  Custody'
  <2>1. /\ SameBut(p, acq, acq') /\ acq'[p].backend = acq[p].backend
        /\ acq'[p].owned = acq[p].owned /\ acq'[p].pc = "using"
    BY <1>1, <1>8, Zenon DEF SameBut, Typed, Acquirer
  <2>2. SamePool(pool, pool')
    BY <1>8, Zenon DEF SamePool
  <2>3. Handling'
    BY <1>1, <1>2, <1>4, <1>8, <2>1, Zenon DEF Handling, Typed
  <2> QED
    BY <2>1, <2>2, <2>3, <1>3, <1>8, QuietStep, Zenon DEF Custody
<1> QED
  BY <1>6, <1>7, <1>8, Zenon DEF storePooledBackend

\* The release: an owner closes its build, a holder gives its hold back.
LEMMA ReleaseStep ==
    ASSUME IInv, NEW p \in Acquirers, release(p)
    PROVE  TypeOK' /\ Custody'
<1> DEFINE b == acq[p].backend
<1>1. Typed(pool, acq, toClose, hookClose, built, closes)
  BY Zenon DEF IInv, TypeOK, Typed
<1>2. CustodyOf(pool, acq, toClose, hookClose, built, closes) /\ Handling
  BY Zenon DEF IInv, Custody
<1>3. UNCHANGED <<hookClose, snap, built, closes, secret, now, fenced>> /\ At(p, "using") /\ Return(p)
  BY Zenon DEF release, builds, world
<1>4. b \in Backends /\ toClose[p] = {} /\ pool \in Pool
  BY <1>1, <1>2, <1>3, Zenon DEF Handling, At, Typed, Acquirer
<1>5. acq' \in [Acquirers -> Acquirer] /\ begin' \in [Acquirers -> Versions]
  BY <1>3, ConstantTypes, Zenon DEF Return, IInv, TypeOK
<1>6. SameBut(p, acq, acq') /\ acq'[p].backend = 0 /\ ~acq'[p].owned /\ acq'[p].pc = "idle"
  BY <1>1, <1>3, Zenon DEF Return, SameBut, Typed, Idle
<1>7. Handling'
  BY <1>1, <1>2, <1>3, <1>6, Zenon DEF Handling, Return, Typed
<1>8. CASE acq[p].owned
  <2>1. toClose' = [toClose EXCEPT ![p] = @ \cup {b}] /\ pool' = pool
    BY <1>4, <1>8, Zenon DEF release
  <2>2. CustodyOf(pool, acq', toClose', hookClose, built, closes)
    BY <2>1, <1>1, <1>2, <1>6, <1>8, DropCustody, Zenon
  <2>3. toClose' \in [Acquirers -> SUBSET Backends]
    BY <2>1, <1>1, <1>4, Zenon DEF Typed
  <2> QED
    BY <2>1, <2>2, <2>3, <1>3, <1>5, <1>7, Zenon DEF Custody, IInv, TypeOK
<1>9. CASE ~acq[p].owned
  <2>1. pool' = [pool EXCEPT !.holders[b] = @ - 1]
    BY <1>9, Zenon DEF release
  <2>a. toClose' = [toClose EXCEPT ![p] = @ \cup ClosedByRelease(pool', b)]
    BY <1>4, <1>9, Zenon DEF release, ClosedByRelease
  <2>2. Unholds(pool, pool', b)
    BY <2>1, <1>4, Zenon DEF Pool, Unholds
  <2>3. /\ CustodyOf(pool', acq', toClose', hookClose, built, closes)
        /\ pool.holders[b] - 1 \in Nat
    <3> DEFINE ql == pool'
               tc2 == toClose'
    <3>1. b \in Backends /\ acq[p].backend = b /\ ~acq[p].owned
      BY <1>4, <1>9, Zenon
    <3>2. Unholds(pool, ql, b)
      BY <2>2, Zenon
    <3>3. AddClose(p, ClosedByRelease(ql, b), toClose, tc2)
      BY <2>a, Zenon DEF AddClose
    <3> HIDE DEF ql, tc2, b
    <3>4. CustodyOf(pool, acq, toClose, hookClose, built, closes)
      BY <1>2, Zenon
    <3>5. SameBut(p, acq, acq') /\ acq'[p].backend = 0 /\ ~acq'[p].owned
      BY <1>6, Zenon
    <3>6. CustodyOf(ql, acq', tc2, hookClose, built, closes)
      BY <3>1, <3>2, <3>3, <3>4, <3>5, <1>1, ReleaseCustody
    <3>7. pool.holders[b] - 1 \in Nat
      BY <3>1, <3>4, HeldCount, Zenon
    <3> QED
      BY <3>6, <3>7, Zenon DEF ql, tc2
  <2>4. pool' \in Pool
    BY <2>1, <2>3, <1>4, Zenon DEF Pool
  <2>5. toClose' \in [Acquirers -> SUBSET Backends]
    BY <2>a, <1>1, <1>4, Zenon DEF Typed, ClosedByRelease
  <2> QED
    BY <2>3, <2>4, <2>5, <1>3, <1>5, <1>7, Zenon DEF Custody, IInv, TypeOK
<1> QED
  BY <1>8, <1>9, Zenon

\* A Close, by an acquirer or by the delete hook.
LEMMA CloseStep ==
    ASSUME IInv, NEW p \in Acquirers, NEW b \in Backends,
           closeBackendLogged(p, b) \/ HookClose(b)
    PROVE  TypeOK' /\ Custody'
<1>1. Typed(pool, acq, toClose, hookClose, built, closes)
  BY Zenon DEF IInv, TypeOK, Typed
<1>2. CustodyOf(pool, acq, toClose, hookClose, built, closes)
  BY Zenon DEF IInv, Custody
<1>3. /\ closes' = [closes EXCEPT ![b] = @ + 1]
      /\ UNCHANGED <<pool, acq, snap, built, secret, now, begin, fenced>>
      /\ \/ b \in toClose[p] /\ toClose' = [toClose EXCEPT ![p] = @ \ {b}] /\ hookClose' = hookClose
         \/ b \in hookClose /\ toClose' = toClose /\ hookClose' = hookClose \ {b}
  BY Zenon DEF closeBackendLogged, HookClose, builds, world
<1>4. TypeOK'
  BY <1>3 DEF IInv, TypeOK
<1>5. CustodyOf(pool, acq, toClose', hookClose', built, [closes EXCEPT ![b] = @ + 1])
  BY <1>1, <1>2, <1>3, CloseCustody, Zenon
<1>6. Handling'
  BY <1>3, Zenon DEF IInv, Custody, Handling
<1> QED
  BY <1>3, <1>4, <1>5, <1>6, Zenon DEF Custody

\* The delete hook retires the key and sets its tombstone.
LEMMA EvictStep ==
    ASSUME IInv, NEW p \in Acquirers, NEW k \in Keys, evictPoolKeyForDelete(k)
    PROVE  TypeOK' /\ Custody'
<1>1. Typed(pool, acq, toClose, hookClose, built, closes) /\ now \in Nat
  BY Zenon DEF IInv, TypeOK, Typed
<1>2. CustodyOf(pool, acq, toClose, hookClose, built, closes)
  BY Zenon DEF IInv, Custody
<1> DEFINE pl1 == retireLocked(pool, k)
           pl2 == [pl1 EXCEPT !.tombstones[k] = now]
           C == ClosedByRetire(pool, k)
<1>3. pl1 \in Pool /\ C \in SUBSET Backends /\ Retires(pool, pl1, {k}, C) /\ {k} \in SUBSET Keys
  BY <1>1, RetireType, RetireFields, Zenon DEF Typed
<1> HIDE DEF pl1, C
<1>4. pl2 \in Pool /\ SamePool(pl1, pl2)
  BY <1>1, <1>3, Zenon DEF Pool, SamePool
<1> HIDE DEF pl2
<1>5. pool' = pruneExpiredTombstonesLocked(pl2) /\ hookClose' = hookClose \cup C
  BY Zenon DEF evictPoolKeyForDelete, pl2, pl1, C
<1>6. pool' \in Pool /\ SamePool(pl2, pool')
  BY <1>4, <1>5, PruneTombstonesType, TombstoneFields, Zenon
<1>7. SamePool(pl1, pool') /\ SameBut(p, acq, acq)
  BY <1>4, <1>6, Zenon DEF SamePool, SameBut
<1>8. UNCHANGED <<acq, toClose, snap, built, closes, secret, now, begin>>
  BY Zenon DEF evictPoolKeyForDelete, builds, world
<1>9. Owes(p, C, toClose, hookClose, toClose, hookClose')
  BY <1>5, Zenon DEF Owes
<1>10. CustodyOf(pl1, acq, toClose, hookClose', built, closes)
  BY <1>1, <1>2, <1>3, <1>9, RetireCustody, Zenon
<1>11. CustodyOf(pool', acq, toClose, hookClose', built, closes)
  BY <1>7, <1>10, FrameCustody, Zenon
<1>12. fenced' \in SUBSET Acquirers
  BY Zenon DEF evictPoolKeyForDelete, Building, IInv, TypeOK
<1>13. TypeOK'
  BY <1>3, <1>5, <1>6, <1>8, <1>12, Zenon DEF IInv, TypeOK
<1>14. Handling'
  BY <1>8, Zenon DEF IInv, Custody, Handling
<1> QED
  BY <1>8, <1>11, <1>13, <1>14, Zenon DEF Custody

\* A build: a new backend in the hands of the acquirer that made it.
LEMMA BuildStep ==
    ASSUME IInv, NEW p \in Acquirers, NewBackend(p)
    PROVE  TypeOK' /\ Custody'
<1>1. Typed(pool, acq, toClose, hookClose, built, closes)
  BY Zenon DEF IInv, TypeOK, Typed
<1>2. CustodyOf(pool, acq, toClose, hookClose, built, closes) /\ Handling
  BY Zenon DEF IInv, Custody
<1>3. acq[p].backend = 0 /\ acq[p].pc = "fetch" /\ built < MaxBuilds
  BY <1>2, Zenon DEF NewBackend, At, Handling
<1>4. built + 1 \in Backends /\ built' = built + 1 /\ built' \in 0..MaxBuilds
  BY <1>1, <1>3, PoolAssumption DEF Backends, Typed, NewBackend
<1>5. /\ acq' = [acq EXCEPT ![p].pc = "store", ![p].backend = built + 1, ![p].owned = TRUE]
      /\ UNCHANGED <<pool, toClose, hookClose, closes, secret, now, begin, fenced>>
  BY Zenon DEF NewBackend, world
<1>6. acq' \in [Acquirers -> Acquirer]
  <2>1. ASSUME NEW a \in Acquirer, NEW c \in Backends
        PROVE  [a EXCEPT !.pc = "store", !.backend = c, !.owned = TRUE] \in Acquirer
    BY Zenon DEF Acquirer, Stages
  <2>2. [acq[p] EXCEPT !.pc = "store", !.backend = built + 1, !.owned = TRUE] \in Acquirer
    BY <1>1, <1>4, <2>1, Zenon DEF Typed
  <2> QED
    BY <2>2, <1>1, <1>5, Zenon DEF Typed
<1>7. snap' \in [Backends -> EntryKey]
  BY <1>1, Zenon DEF NewBackend, poolEntryKey, EntryKey, Typed, Acquirer, IInv, TypeOK
<1>8. SameBut(p, acq, acq') /\ acq'[p].backend = built + 1 /\ acq'[p].owned /\ acq'[p].pc = "store"
  BY <1>1, <1>5, Zenon DEF SameBut, Typed, Acquirer
<1>9. CustodyOf(pool, acq', toClose, hookClose, built + 1, closes)
  BY <1>1, <1>2, <1>3, <1>8, NewCustody, Zenon
<1>10. built + 1 # 0
  BY <1>1 DEF Typed
<1>11. Handling'
  BY <1>1, <1>2, <1>5, <1>8, <1>10, Zenon DEF Handling, Typed
<1> QED
  BY <1>4, <1>5, <1>6, <1>7, <1>9, <1>11, Zenon DEF Custody, IInv, TypeOK

\* Acquirer p, which has no backend, moves on to a = acq'[p], still without one.
Moves(p, a) ==
    /\ acq[p].pc \notin {"store", "using"}
    /\ acq' = [acq EXCEPT ![p] = a]
    /\ a \in Acquirer /\ a.backend = 0 /\ ~a.owned /\ a.pc \notin {"store", "using"}

\* Such a move keeps Handling, and custody with it if the pool only changes its
\* generations and no Close is owed or made.
LEMMA MoveStep ==
    ASSUME IInv, NEW p \in Acquirers, NEW a, Moves(p, a)
    PROVE  /\ Handling' /\ acq' \in [Acquirers -> Acquirer]
           /\ acq[p].backend = 0
           /\ SamePool(pool, pool') /\ UNCHANGED <<toClose, hookClose, built, closes>>
                => Custody'
<1>1. acq \in [Acquirers -> Acquirer] /\ Handling
      /\ CustodyOf(pool, acq, toClose, hookClose, built, closes)
  BY Zenon DEF IInv, TypeOK, Custody
<1>2. acq[p].backend = 0
  BY <1>1, Zenon DEF Moves, Handling
<1>3. ~acq[p].owned
  BY <1>1, <1>2, Zenon DEF CustodyOf, OwnerAlone
<1>4. acq' \in [Acquirers -> Acquirer] /\ acq'[p] = a
  BY <1>1, Zenon DEF Moves
<1>5. SameBut(p, acq, acq') /\ \A q \in Acquirers \ {p} : acq'[q] = acq[q]
  BY <1>1, Zenon DEF Moves, SameBut
<1>6. Handling'
  BY <1>1, <1>4, <1>5, Zenon DEF Moves, Handling
<1>7. acq'[p].backend = acq[p].backend /\ acq'[p].owned = acq[p].owned
  <2>1. acq[p].owned \in BOOLEAN /\ a.owned \in BOOLEAN
    BY <1>1, Zenon DEF Acquirer, Moves
  <2> QED
    BY <2>1, <1>2, <1>3, <1>4, Zenon DEF Moves
<1>8. ASSUME SamePool(pool, pool'), UNCHANGED <<toClose, hookClose, built, closes>>
      PROVE  Custody'
  BY <1>5, <1>6, <1>7, <1>8, QuietStep, Zenon DEF Custody
<1> QED
  BY <1>2, <1>4, <1>6, <1>8, Zenon

\* The steps that only move an acquirer that has no backend.
LEMMA QuietSteps ==
    ASSUME IInv, NEW p \in Acquirers,
           \/ \E k \in Keys, sp \in Specs : Begin(p, k, sp)
           \/ poolGenerationOf(p)
           \/ \E s \in Secrets : ReadSecret(p, s)
           \/ \E s \in Secrets, g \in BOOLEAN : ReadFails(p, s, g)
           \/ \E g \in BOOLEAN : caRulesFirst(p, g)
           \/ MetaGoneReread(p)
           \/ NewBackendFails(p)
    PROVE  TypeOK' /\ Custody'
<1>1. TypeOK /\ acq[p] \in Acquirer /\ acq[p].key \in Keys /\ pool \in Pool /\ now \in Nat
  BY Zenon DEF IInv, TypeOK, Acquirer
<1>a. acq[p].pc \notin {"store", "using"} => acq[p].backend = 0 /\ ~acq[p].owned
  BY Zenon DEF IInv, Custody, Handling, CustodyOf, OwnerAlone
<1>2. SamePool(pool, pool)
  BY Zenon DEF SamePool
<1>3. ASSUME NEW k \in Keys, NEW sp \in Specs, Begin(p, k, sp)
      PROVE  TypeOK' /\ Custody'
  <2> DEFINE a == [Idle EXCEPT !.pc = "generation", !.key = k, !.spec = sp]
  <2>1. Moves(p, a)
    BY <1>3, ConstantTypes, Zenon DEF Begin, At, Moves, Acquirer, Idle, Stages
  <2>2. begin' \in [Acquirers -> Versions]
    BY <1>1, <1>3, Zenon DEF Begin, TypeOK, Versions
  <2> HIDE DEF a
  <2> QED
    BY <2>1, <2>2, <1>1, <1>2, <1>3, MoveStep, Zenon DEF Begin, TypeOK, builds, world
<1>4. ASSUME poolGenerationOf(p)
      PROVE  TypeOK' /\ Custody'
  <2> DEFINE g == pool'.generations[acq[p].key]
             a == [acq[p] EXCEPT !.pc = "meta", !.seen = Unread, !.gone = FALSE,
                                 !.readGeneration = g]
  <2>1. pool' \in Pool /\ SamePool(pool, pool')
    BY <1>1, <1>4, GenerationType, GenerationFields, Zenon DEF poolGenerationOf
  <2>2. g \in Nat
    BY <2>1, <1>1, Zenon DEF Pool
  <2> HIDE DEF g
  <2>3. acq' = [acq EXCEPT ![p] = a] /\ acq[p].pc = "generation"
    BY <1>1, <1>4, Zenon DEF poolGenerationOf, At, TypeOK, g
  <2>4. a \in Acquirer /\ a.backend = 0 /\ ~a.owned /\ a.pc = "meta"
    BY <2>2, <2>3, <1>1, <1>a, ConstantTypes, Zenon DEF Acquirer, Stages
  <2> HIDE DEF a
  <2>5. Moves(p, a)
    BY <2>3, <2>4, Zenon DEF Moves
  <2> QED
    BY <2>1, <2>5, <1>1, <1>4, MoveStep, Zenon DEF poolGenerationOf, TypeOK, builds, world
<1>5. ASSUME NEW s \in Secrets, ReadSecret(p, s)
      PROVE  TypeOK' /\ Custody'
  <2> DEFINE a == [acq[p] EXCEPT !.seen[s] = secret[s].rv]
  <2>1. acq' = [acq EXCEPT ![p] = a] /\ acq[p].pc \notin {"store", "using"}
    BY <1>1, <1>5, Zenon DEF ReadSecret, At, TypeOK
  <2>2. secret[s].rv \in Nat
    BY <1>1, Zenon DEF TypeOK
  <2>3. a \in Acquirer /\ a.backend = 0 /\ ~a.owned /\ a.pc = acq[p].pc
    BY <2>1, <2>2, <1>1, <1>a, Zenon DEF Acquirer, Versions
  <2> HIDE DEF a
  <2>4. Moves(p, a)
    BY <2>1, <2>3, Zenon DEF Moves
  <2> QED
    BY <2>4, <1>1, <1>2, <1>5, MoveStep, Zenon DEF ReadSecret, TypeOK, builds, world
<1>6. ASSUME NEW s \in Secrets, NEW g \in BOOLEAN, ReadFails(p, s, g)
      PROVE  TypeOK' /\ Custody'
  <2> DEFINE stage == AfterFailedRead(acq[p].pc, s)
             a == [acq[p] EXCEPT !.gone = g, !.pc = stage]
  <2>1. stage \in {"metaCA", "metaFailed", "fetchCA", "fetchFailed"}
    BY Zenon DEF AfterFailedRead
  <2>2. acq' = [acq EXCEPT ![p] = a] /\ acq[p].pc \notin {"store", "using"}
    BY <1>1, <1>6, Zenon DEF ReadFails, At, TypeOK
  <2> HIDE DEF stage
  <2>3. a \in Acquirer /\ a.backend = 0 /\ ~a.owned /\ a.pc \notin {"store", "using"}
    BY <2>1, <2>2, <1>1, <1>a, Zenon DEF Acquirer, Stages
  <2> HIDE DEF a
  <2>4. Moves(p, a)
    BY <2>2, <2>3, Zenon DEF Moves
  <2> QED
    BY <2>4, <1>1, <1>2, <1>6, MoveStep, Zenon DEF ReadFails, TypeOK, builds, world
<1>7. ASSUME NEW g \in BOOLEAN, caRulesFirst(p, g)
      PROVE  TypeOK' /\ Custody'
  <2> DEFINE stage == IF acq[p].pc = "metaCA" THEN "metaFailed" ELSE "fetchFailed"
             gone == acq[p].gone \/ g
             a == [acq[p] EXCEPT !.gone = gone, !.pc = stage]
  <2>1. stage \in {"metaFailed", "fetchFailed"} /\ gone \in BOOLEAN
    BY Zenon
  <2>2. acq' = [acq EXCEPT ![p] = a] /\ acq[p].pc \notin {"store", "using"}
    BY <1>1, <1>7, Zenon DEF caRulesFirst, At, TypeOK
  <2> HIDE DEF stage, gone
  <2>3. a \in Acquirer /\ a.backend = 0 /\ ~a.owned /\ a.pc \notin {"store", "using"}
    BY <2>1, <2>2, <1>1, <1>a, Zenon DEF Acquirer, Stages
  <2> HIDE DEF a
  <2>4. Moves(p, a)
    BY <2>2, <2>3, Zenon DEF Moves
  <2> QED
    BY <2>4, <1>1, <1>2, <1>7, MoveStep, Zenon DEF caRulesFirst, TypeOK, builds, world
<1>8. ASSUME MetaGoneReread(p)
      PROVE  TypeOK' /\ Custody'
  <2> DEFINE n == acq[p].attempt + 1
             key == snap[pool.entries[acq[p].key]]
             a == [acq[p] EXCEPT !.pc = "generation", !.attempt = n, !.staleKey = key]
  <2>1. n \in 1..poolReadAttempts
    BY <1>1, <1>8 DEF MetaGoneReread, force, poolReadAttempts, Acquirer
  <2>2. key \in EntryKey
    BY <1>1, <1>8, Zenon DEF MetaGoneReread, TypeOK, Pool
  <2>3. acq' = [acq EXCEPT ![p] = a] /\ acq[p].pc \notin {"store", "using"}
    BY <1>1, <1>8, Zenon DEF MetaGoneReread, At, TypeOK
  <2> HIDE DEF n, key
  <2>4. a \in Acquirer /\ a.backend = 0 /\ ~a.owned /\ a.pc = "generation"
    BY <2>1, <2>2, <2>3, <1>1, <1>a, Zenon DEF Acquirer, Stages
  <2> HIDE DEF a
  <2>5. Moves(p, a)
    BY <2>3, <2>4, Zenon DEF Moves
  <2> QED
    BY <2>5, <1>1, <1>2, <1>8, MoveStep, Zenon DEF MetaGoneReread, TypeOK, builds, world
<1>9. ASSUME NewBackendFails(p)
      PROVE  TypeOK' /\ Custody'
  <2>1. Moves(p, Idle)
    BY <1>1, <1>9, ConstantTypes, Zenon DEF NewBackendFails, At, Return, Moves, Idle
  <2>2. begin' \in [Acquirers -> Versions]
    BY <1>1, <1>9, ConstantTypes, Zenon DEF NewBackendFails, Return, TypeOK
  <2> QED
    BY <2>1, <2>2, <1>1, <1>2, <1>9, MoveStep, Zenon DEF NewBackendFails, TypeOK, builds, world
<1> QED
  BY <1>3, <1>4, <1>5, <1>6, <1>7, <1>8, <1>9, Zenon

\* The acquires that fail: they return, after a retire if they observed one.
LEMMA FailSteps ==
    ASSUME IInv, NEW p \in Acquirers,
           MetaGoneRetire(p) \/ MetaError(p) \/ FetchFailed(p)
    PROVE  TypeOK' /\ Custody'
<1>1. TypeOK /\ acq[p].key \in Keys /\ SamePool(pool, pool)
  BY Zenon DEF IInv, TypeOK, Acquirer, SamePool
<1>2. Return(p) /\ UNCHANGED <<hookClose, snap, built, closes, secret, now>>
  BY Zenon DEF MetaGoneRetire, MetaError, FetchFailed, builds, world
<1>3. acq[p].pc \notin {"store", "using"} /\ toClose[p] = {}
  BY Zenon DEF MetaGoneRetire, MetaError, FetchFailed, At
<1>4. Moves(p, Idle)
  BY <1>2, <1>3, ConstantTypes, Zenon DEF Return, Moves, Idle
<1>5. begin' \in [Acquirers -> Versions]
  BY <1>1, <1>2, ConstantTypes, Zenon DEF Return, TypeOK
<1>6. \/ RetireBy(p, acq[p].key)
      \/ UNCHANGED <<pool, toClose>> /\ fenced' \in SUBSET Acquirers
  BY <1>1, Zenon DEF MetaGoneRetire, MetaError, FetchFailed, TypeOK
<1>7. Handling' /\ acq' \in [Acquirers -> Acquirer] /\ acq[p].backend = 0
  BY <1>4, MoveStep, Zenon
<1>8. CASE RetireBy(p, acq[p].key)
  <2>1. CustodyOf(pool, acq, toClose, hookClose, built, closes)'
    BY <1>1, <1>2, <1>3, <1>7, <1>8, RetireStep, Zenon
  <2>2. TypeOK'
    BY <1>1, <1>2, <1>5, <1>7, <1>8, RetireByType, Zenon DEF TypeOK
  <2> QED
    BY <2>1, <2>2, <1>7, Zenon DEF Custody
<1>9. CASE UNCHANGED <<pool, toClose>> /\ fenced' \in SUBSET Acquirers
  BY <1>1, <1>2, <1>4, <1>5, <1>7, <1>9, MoveStep, Zenon DEF TypeOK
<1> QED
  BY <1>6, <1>8, <1>9, Zenon

\* The pool starts empty.
LEMMA InitIInv == Init => IInv
<1> SUFFICES ASSUME Init PROVE IInv
  BY Zenon
<1>1. TypeOK
  BY PoolAssumption, ConstantTypes DEF Init, TypeOK, Pool, Backends
<1>2. \A p \in Acquirers : acq[p].backend = 0 /\ ~acq[p].owned /\ acq[p].pc = "idle"
  BY Zenon DEF Init, Idle
<1>3. /\ \A k \in Keys : pool.entries[k] = 0
      /\ \A b \in Backends : pool.holders[b] = 0 /\ ~pool.retired[b] /\ closes[b] = 0
      /\ \A b : ~Pending(b, toClose, hookClose)
      /\ \A p \in Acquirers : toClose[p] = {}
  BY Zenon DEF Init, Pending
<1>4. \A b \in Backends : Holders(b, acq) = {}
  BY <1>2 DEF Holders, Backends
<1>5. HolderCount(pool, acq)
  BY <1>3, <1>4, FS_EmptySet, Zenon DEF HolderCount
<1>6. \A b \in Backends : ~(b <= built)
  BY DEF Init, Backends
<1> QED
  BY <1>1, <1>2, <1>3, <1>5, <1>6 DEF IInv, Custody, Handling, CustodyOf, OwnerAlone,
     HeldIsLive, PooledIsLive, PendingOnce, Accounted

\* Every step of Next preserves the inductive invariant.
LEMMA NextIInv == IInv /\ [Next]_vars => IInv'
<1> SUFFICES ASSUME IInv, [Next]_vars PROVE TypeOK' /\ Custody'
  BY Zenon DEF IInv
<1>1. PICK q \in Acquirers : TRUE
  BY PoolAssumption, Zenon
<1>2. ASSUME UNCHANGED <<pool, acq, toClose, hookClose, snap, built, closes, begin, fenced>>,
             secret' \in [Secrets -> [rv : Nat, state : {"ok", "empty", "missing"}]],
             now' \in Nat
      PROVE  TypeOK' /\ Custody'
  <2>1. TypeOK'
    BY <1>2, Zenon DEF IInv, TypeOK
  <2>2. SamePool(pool, pool') /\ SameBut(q, acq, acq')
    BY <1>2, Zenon DEF SamePool, SameBut
  <2>3. Handling'
    BY <1>2, Zenon DEF IInv, Custody, Handling
  <2> QED
    BY <2>1, <2>2, <2>3, <1>1, <1>2, QuietStep, Zenon DEF Custody
<1>3. ASSUME NEW p \in Acquirers, NEW k \in Keys, NEW sp \in Specs, Begin(p, k, sp)
      PROVE  TypeOK' /\ Custody'
  BY <1>3, QuietSteps, Zenon
<1>4. ASSUME NEW p \in Acquirers, AcquirerStep(p)
      PROVE  TypeOK' /\ Custody'
  <2>1. CASE lookupOrRetire(p)
    BY <2>1, LookupType, LookupStep, Zenon DEF IInv
  <2>2. CASE storePooledBackend(p)
    <3>1. acq[p].backend # 0
      BY <2>2, Zenon DEF IInv, Custody, Handling, storePooledBackend, At
    <3> QED
      BY <2>2, <3>1, StoreType, StoreStep, Zenon DEF IInv
  <2>3. CASE release(p)
    BY <2>3, ReleaseStep, Zenon
  <2>4. CASE NewBackend(p)
    BY <2>4, BuildStep, Zenon
  <2>5. CASE \E b \in Backends : closeBackendLogged(p, b)
    BY <2>5, CloseStep, Zenon
  <2>6. CASE MetaGoneRetire(p) \/ MetaError(p) \/ FetchFailed(p)
    BY <2>6, FailSteps, Zenon
  <2> QED
    BY <1>4, <2>1, <2>2, <2>3, <2>4, <2>5, <2>6, QuietSteps, Zenon DEF AcquirerStep
<1>5. ASSUME NEW k \in Keys, evictPoolKeyForDelete(k)
      PROVE  TypeOK' /\ Custody'
  BY <1>1, <1>5, EvictStep, Zenon
<1>6. ASSUME NEW b \in Backends, HookClose(b)
      PROVE  TypeOK' /\ Custody'
  BY <1>1, <1>6, CloseStep, Zenon
<1>7. ASSUME NEW s \in Secrets, NEW st \in {"ok", "empty", "missing"}, WriteSecret(s, st)
      PROVE  TypeOK' /\ Custody'
  <2>1. secret[s].rv + 1 \in Nat
    BY DEF IInv, TypeOK
  <2>2. secret' \in [Secrets -> [rv : Nat, state : {"ok", "empty", "missing"}]]
    BY <1>7, <2>1, Zenon DEF IInv, TypeOK, WriteSecret
  <2> QED
    BY <1>2, <1>7, <2>2, Zenon DEF IInv, TypeOK, WriteSecret, builds
<1>8. CASE Tick
  BY <1>2, <1>8 DEF IInv, TypeOK, Tick, builds
<1>9. CASE UNCHANGED vars
  BY <1>2, <1>9, Zenon DEF IInv, TypeOK, vars
<1> QED
  BY <1>3, <1>4, <1>5, <1>6, <1>7, <1>8, <1>9, Zenon DEF Next

\* The types and the custody of every backend hold in every reachable state.
THEOREM Invariance == Spec => []IInv
BY InitIInv, NextIInv, PTL DEF Spec

\* Type correctness of the pool and of every acquirer, for any number of sinks,
\* acquirers and Secrets; in particular no holder count ever goes below zero.
THEOREM TypeCorrect == Spec => []TypeOK
<1>1. IInv => TypeOK
  BY Zenon DEF IInv
<1> QED
  BY <1>1, Invariance, PTL

\* Every backend always has exactly one party that will close it.
THEOREM CustodyHolds == Spec => []Custody
<1>1. IInv => Custody
  BY Zenon DEF IInv
<1> QED
  BY <1>1, Invariance, PTL

\* No export, cleanup or probe ever runs on a backend that the pool has closed.
THEOREM NeverUsedAfterClose == Spec => []NoUseAfterClose
<1>1. IInv => NoUseAfterClose
  BY Zenon DEF IInv, Custody, CustodyOf, HeldIsLive, NoUseAfterClose
<1> QED
  BY <1>1, Invariance, PTL

\* No two of the retires, evictions, prunes and releases close one backend.
THEOREM NeverClosedTwice == Spec => []ClosedOnce
<1>1. IInv => ClosedOnce
  BY Zenon DEF IInv, Custody, CustodyOf, Accounted, ClosedOnce
<1> QED
  BY <1>1, Invariance, PTL

\* No backend that was built is dropped without a Close.
THEOREM NeverLeaked == Spec => []NoLeak
<1>1. IInv => NoLeak
  <2> SUFFICES ASSUME IInv, NEW b \in 1..built, closes[b] = 0
               PROVE  \/ Pooled(b) \/ ClosePending(b)
                      \/ \E p \in Acquirers : acq[p].backend = b
    BY Zenon DEF NoLeak
  <2>1. b \in Backends /\ b <= built
    BY PoolAssumption DEF IInv, TypeOK, Backends
  <2> QED
    BY <2>1, Zenon DEF IInv, Custody, CustodyOf, Accounted, InPool, Pending, Pooled, ClosePending
<1> QED
  BY <1>1, Invariance, PTL

=============================================================================
