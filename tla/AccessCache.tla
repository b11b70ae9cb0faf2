---------------------------- MODULE AccessCache ----------------------------
(***************************************************************************)
(* The two caches of authorization answers: the operator's own reviews     *)
(* (internal/collect/access.go, "access") and those of the clients of the  *)
(* HTTP API (internal/inventory/auth.go, auth_cache.go, "auth").           *)
(*                                                                         *)
(* A key stands for what a review asks: resource, namespace and verb, and  *)
(* for a client its token.  What the API server would answer changes; a    *)
(* call looks into the cache, asks if it must, and stores what it was      *)
(* told.  Each of these is a step of its own.  An entry counts down the    *)
(* ticks until its expiresAt.                                              *)
(***************************************************************************)
EXTENDS Integers, Sequences, FiniteSets, SequencesExt

CONSTANTS
    Cache,       \* "access" | "auth"
    Keys,        \* what is asked
    Callers,     \* workers of the engine, or requests to the HTTP API
    TTL,         \* ticks an entry lives; 0 switches the cache of the HTTP API off
    Capacity,    \* the entries that AccessChecker keeps
    RequireGet,  \* RequireInventoryGet: clients need more than a valid token
    Absent,
    MaxChanges   \* bound on changes of what the API server answers

VARIABLES
    valid,    \* key -> the token of its client is valid (TRUE for the operator's reviews)
    right,    \* key -> the API server allows it
    entry,    \* key -> [allowed, left : ticks until it expires] | Absent
    lru,      \* keys, the most recently used first
    call,     \* caller -> [pc, key, ans]
    changes

vars == <<valid, right, entry, lru, call, changes>>
Idle == [pc |-> "idle", key |-> Absent, ans |-> "none"]
Answers == {"none", "allowed", "denied", "unauthorized", "error"}

\* Type correctness.
TypeOK ==
    /\ valid \in [Keys -> BOOLEAN] /\ right \in [Keys -> BOOLEAN]
    /\ entry \in [Keys -> [allowed : BOOLEAN, left : -1..TTL] \cup {Absent}]
    /\ lru \in Seq(Keys)
    /\ call \in [Callers -> [pc : {"idle", "ask", "review", "authorize", "store", "done"}, key : Keys \cup {Absent},
                             ans : Answers]]
    /\ changes \in 0..MaxChanges

Init ==
    /\ valid = [k \in Keys |-> TRUE] /\ right \in [Keys -> BOOLEAN]
    /\ entry = [k \in Keys |-> Absent] /\ lru = <<>>
    /\ call = [c \in Callers |-> Idle]
    /\ changes = 0

\* Somebody changes the rights, or a token expires.
Edit(k) ==
    /\ changes < MaxChanges /\ changes' = changes + 1
    /\ \/ right' = [right EXCEPT ![k] = ~@] /\ UNCHANGED valid
       \/ Cache = "auth" /\ valid' = [valid EXCEPT ![k] = ~@] /\ UNCHANGED right
    /\ UNCHANGED <<entry, lru, call>>

Tick ==
    /\ \E k \in Keys : entry[k] # Absent /\ entry[k].left >= 0
    /\ entry' = [k \in Keys |-> IF entry[k] = Absent \/ entry[k].left < 0 THEN entry[k]
                                ELSE [entry[k] EXCEPT !.left = @ - 1]]
    /\ UNCHANGED <<valid, right, lru, call, changes>>

AsAnswer(b) == IF b THEN "allowed" ELSE "denied"
ToFront(k) == <<k>> \o Remove(lru, k)
WithinCapacity(s) == SubSeq(s, 1, IF Len(s) < Capacity THEN Len(s) ELSE Capacity)

\* The call goes on at pc with the answer it has so far.
Step(c, pc, ans) == call' = [call EXCEPT ![c].pc = pc, ![c].ans = ans]

Begin(c, k) ==
    /\ call[c].pc = "idle"
    /\ call' = [call EXCEPT ![c] = [pc |-> "ask", key |-> k, ans |-> "none"]]
    /\ UNCHANGED <<valid, right, entry, lru, changes>>

-----------------------------------------------------------------------------
(* AccessChecker. *)

\* Mutant: a hit renews the entry.
lookup_Renews(c, k) ==
    IF entry[k] # Absent /\ entry[k].left > 0
    THEN /\ Step(c, "done", AsAnswer(entry[k].allowed))
         /\ lru' = ToFront(k) /\ entry' = [entry EXCEPT ![k].left = TTL]
    ELSE /\ Step(c, "review", "none")
         /\ lru' = Remove(lru, k) /\ entry' = [entry EXCEPT ![k] = Absent]

\* A hit becomes the most recent entry; an expired entry is dropped.
lookup(c, k) ==
    IF entry[k] # Absent /\ entry[k].left > 0
    THEN /\ Step(c, "done", AsAnswer(entry[k].allowed))
         /\ lru' = ToFront(k) /\ UNCHANGED entry
    ELSE /\ Step(c, "review", "none")
         /\ lru' = Remove(lru, k) /\ entry' = [entry EXCEPT ![k] = Absent]

\* Records the answer and evicts the least recently used beyond the capacity.
store(k, allowed) ==
    LET kept == WithinCapacity(ToFront(k)) IN
    /\ lru' = kept
    /\ entry' = [j \in Keys |-> IF j = k THEN [allowed |-> allowed, left |-> TTL]
                                ELSE IF Contains(kept, j) THEN entry[j] ELSE Absent]

\* The SelfSubjectAccessReview answers, or fails and nothing is stored.
Review(c, k) ==
    /\ Step(c, "store", AsAnswer(right[k])) \/ Step(c, "done", "error")
    /\ UNCHANGED <<lru, entry>>

CanAccess(c) ==
    /\ LET k == call[c].key IN
       \/ call[c].pc = "ask" /\ lookup(c, k)
       \/ call[c].pc = "review" /\ Review(c, k)
       \/ call[c].pc = "store" /\ Step(c, "done", call[c].ans) /\ store(k, call[c].ans = "allowed")
    /\ UNCHANGED <<valid, right, changes>>

-----------------------------------------------------------------------------
(* The middleware of the HTTP API. *)

\* get leaves an expired entry where it is, and still uses it in its last instant.
get(k) == TTL > 0 /\ entry[k] # Absent /\ entry[k].left >= 0

\* Without a TTL there is no cache.
set(k, allowed) ==
    entry' = IF TTL = 0 THEN entry ELSE [entry EXCEPT ![k] = [allowed |-> allowed, left |-> TTL]]

\* A cached refusal counts only where the right is required.
Cached(c, k) ==
    IF get(k) THEN Step(c, "done", AsAnswer(~RequireGet \/ entry[k].allowed))
    ELSE Step(c, "review", "none")

\* A token that is not valid and a review that fails get the same answer; it
\* ends the request and nothing is stored.
authenticate(c, k) ==
    \/ Step(c, "done", "unauthorized")
    \/ valid[k] /\ RequireGet /\ Step(c, "authorize", "none")
    \/ valid[k] /\ ~RequireGet /\ Step(c, "store", "allowed")

\* The SubjectAccessReview answers, or fails and nothing is stored.
authorizeResource(c, k) == Step(c, "store", AsAnswer(right[k])) \/ Step(c, "done", "error")

Middleware(c) ==
    /\ LET k == call[c].key IN
       \/ call[c].pc = "ask" /\ Cached(c, k) /\ UNCHANGED entry
       \/ call[c].pc = "review" /\ authenticate(c, k) /\ UNCHANGED entry
       \/ call[c].pc = "authorize" /\ authorizeResource(c, k) /\ UNCHANGED entry
       \/ call[c].pc = "store" /\ Step(c, "done", call[c].ans) /\ set(k, call[c].ans = "allowed")
    /\ UNCHANGED <<valid, right, lru, changes>>

-----------------------------------------------------------------------------
Call(c) == (Cache = "access" /\ CanAccess(c)) \/ (Cache = "auth" /\ Middleware(c))

Return(c) ==
    /\ call[c].pc = "done"
    /\ call' = [call EXCEPT ![c] = Idle]
    /\ UNCHANGED <<valid, right, entry, lru, changes>>

Next ==
    \/ Tick
    \/ \E k \in Keys : Edit(k)
    \/ \E c \in Callers : Call(c) \/ Return(c) \/ \E k \in Keys : Begin(c, k)

\* Time passes and calls return; nobody has to call.
Fairness == WF_vars(Tick) /\ \A c \in Callers : WF_vars(Call(c)) /\ WF_vars(Return(c))
Spec == Init /\ [][Next]_vars /\ Fairness

-----------------------------------------------------------------------------
(* Properties. *)

\* The list and the map of AccessChecker hold the same keys, each once, and no
\* more than the capacity, whatever the order of concurrent calls.
CacheBounded ==
    Cache = "access" =>
        /\ Len(lru) <= Capacity
        /\ Len(lru) = Cardinality(Range(lru))
        /\ Range(lru) = {k \in Keys : entry[k] # Absent}

\* A verdict is what the API server says now; a failed review is no verdict.
Right(c) ==
    LET k == call[c].key
        needed == Cache = "access" \/ RequireGet
    IN  call[c].pc = "done" =>
            /\ call[c].ans = "allowed" => valid[k] /\ (needed => right[k])
            /\ call[c].ans = "denied" => needed /\ ~right[k]

AllRight == \A c \in Callers : Right(c)

\* Once the rights stop changing, answers become right and stay so: entries
\* expire however often they are used, and a call that stores an old answer
\* late delays that by one more TTL at most (lookup, store, get, set).
AnswersConverge == <>[]AllRight
=============================================================================
