-------------------------- MODULE StoreWatchProofs --------------------------
(***************************************************************************)
(* No change of the store goes unnoticed: NoticeCovered and StreamCovered  *)
(* hold for any number of namespaces, goroutines and clients, and any      *)
(* capacity of the channel.                                                *)
(***************************************************************************)
EXTENDS StoreWatch, TLAPS

\* A stream.
ViewType == [pc : {"off", "reading", "waiting"}, todo : SUBSET NS,
             buf : [NS -> Nat], shown : [NS -> Nat]]

\* What the proof has to know of the types.
Types ==
    /\ ver \in [NS -> Nat] /\ seen \in [NS -> Nat]
    /\ mut \in [Mutators -> SUBSET NS]
    /\ \A m \in Mutators : \A a, b \in mut[m] : a = b
    /\ ch \in Seq(NS)
    /\ work \subseteq NS /\ queue \subseteq NS /\ flushing \subseteq NS /\ pending \subseteq NS
    /\ sig \in [Clients -> BOOLEAN]
    /\ view \in [Clients -> ViewType]

\* What a stream without a signal has read, or is about to show, is current but
\* for the shards it still has to read and the changes still to be announced.
Reading ==
    \A c \in Clients : \A n \in NS :
        ~sig[c] /\ n \notin Unannounced =>
            /\ view[c].pc = "reading" => n \in view[c].todo \/ view[c].buf[n] = ver[n]
            /\ view[c].pc = "waiting" => view[c].shown[n] = ver[n]

\* While the source is not subscribed, no worker takes what the first list
\* enqueued.
Listed == "list" \in started /\ "source" \notin started => queue = NS

Inv == Types /\ Listed /\ NoticeCovered /\ Reading

\* The elements of a channel after a send and after a receive.
LEMMA AppendRange == ASSUME NEW S, NEW s \in Seq(S), NEW e \in S
                     PROVE  Range(Append(s, e)) = Range(s) \cup {e}
<1>1. DOMAIN Append(s, e) = DOMAIN s \cup {Len(s) + 1}
  OBVIOUS
<1>2. /\ \A i \in DOMAIN s : Append(s, e)[i] = s[i]
      /\ Append(s, e)[Len(s) + 1] = e
  OBVIOUS
<1> QED  BY <1>1, <1>2 DEF Range

LEMMA TailRange == ASSUME NEW S, NEW s \in Seq(S), s # <<>>
                   PROVE  Range(s) \subseteq {Head(s)} \cup Range(Tail(s))
<1> SUFFICES ASSUME NEW i \in DOMAIN s
             PROVE  s[i] \in {Head(s)} \cup Range(Tail(s))
  BY Zenon DEF Range
<1>1. CASE i = 1
  BY <1>1
<1>2. CASE i # 1
  <2>1. i - 1 \in DOMAIN Tail(s) /\ Tail(s)[i - 1] = s[i]
    BY <1>2
  <2> QED  BY <2>1 DEF Range
<1> QED  BY <1>1, <1>2


\* A change adds its namespace to what is to be announced, an announcement
\* takes at most its own away.
LEMMA ChangeUnannounced ==
    ASSUME Types, NEW m \in Mutators, NEW n \in NS, Change(m, n)
    PROVE  Unannounced' = Unannounced \cup {n}
<1>1. \A k \in Mutators : mut'[k] = IF k = m THEN {n} ELSE mut[k]
  BY Zenon DEF Types, Change
<1> QED  BY <1>1 DEF Change, Unannounced

LEMMA NotifyUnannounced ==
    ASSUME Types, NEW m \in Mutators, NEW n \in mut[m], notifyWatchers(m)
    PROVE  Unannounced \subseteq Unannounced' \cup {n}
<1>1. \A k \in Mutators : mut'[k] = IF k = m THEN {} ELSE mut[k]
  BY DEF Types, notifyWatchers
<1>2. mut[m] = {n}
  BY DEF Types
<1> QED  BY <1>1, <1>2 DEF Unannounced

\* A send puts the namespace into the channel, or drops it.
LEMMA SentCases ==
    ASSUME NEW n, Sent(n)
    PROVE  \/ "source" \notin started /\ ch' = ch /\ missed' = missed
           \/ ch' = Append(ch, n) /\ missed' = missed
           \/ ch' = ch /\ missed' = missed \cup ({n} \ Range(ch))
  BY Zenon DEF Sent

\* Every step keeps the types.
LEMMA TypesKept == Types /\ [Next]_vars => Types'
<1> SUFFICES ASSUME Types, [Next]_vars PROVE Types'
  BY Zenon
<1>1. ASSUME NEW m \in Mutators, NEW n \in NS, Change(m, n) PROVE Types'
  <2>1. mut' \in [Mutators -> SUBSET NS] /\ \A k \in Mutators : mut'[k] = IF k = m THEN {n} ELSE mut[k]
    BY <1>1 DEF Types, Change
  <2>2. \A k \in Mutators : \A a, b \in mut'[k] : a = b
    BY <2>1, Zenon DEF Types
  <2>3. ver' \in [NS -> Nat]
    BY <1>1 DEF Types, Change
  <2> QED  BY <1>1, <2>1, <2>2, <2>3 DEF Types, Change, sourceVars, queueVars, streamVars
<1>2. ASSUME NEW m \in Mutators, notifyWatchers(m) PROVE Types'
  <2>1. ch' \in Seq(NS)
    <3>1. PICK n \in mut[m] : Sent(n)
      BY <1>2, Zenon DEF notifyWatchers
    <3>2. n \in NS
      BY Zenon DEF Types
    <3>3. ch' = ch \/ ch' = Append(ch, n)
      BY <3>1, SentCases, Zenon
    <3>4. ch \in Seq(NS) /\ Append(ch, n) \in Seq(NS)
      BY <3>2 DEF Types
    <3> QED  BY <3>3, <3>4, Zenon
  <2>2. mut' \in [Mutators -> SUBSET NS] /\ \A k \in Mutators : mut'[k] = IF k = m THEN {} ELSE mut[k]
    BY <1>2, Zenon DEF Types, notifyWatchers
  <2>3. \A k \in Mutators : \A a, b \in mut'[k] : a = b
    BY <2>2, Zenon DEF Types
  <2>4. sig' \in [Clients -> BOOLEAN]
    BY <1>2, Zenon DEF notifyWatchers, Types
  <2> QED  BY <1>2, <2>1, <2>2, <2>3, <2>4 DEF Types, notifyWatchers, queueVars
<1>3. CASE Start \/ StartLoop \/ ListInventories \/ Elapse
  BY <1>3, Zenon DEF Types, Start, StartLoop, ListInventories, Elapse, storeVars, queueVars, streamVars
<1>4. CASE Receive
  <2>1. ch' \in Seq(NS)
    BY <1>4 DEF Types, Receive
  <2> QED  BY <1>4, <2>1 DEF Types, Receive, storeVars, queueVars, streamVars
<1>5. CASE flush \/ Pass
  BY <1>5, Zenon DEF Types, flush, Pass, storeVars, sourceVars, queueVars, streamVars
<1>6. ASSUME NEW n \in NS, inventoriesInNamespace(n) \/ Take(n) PROVE Types'
  BY <1>6, Zenon DEF Types, inventoriesInNamespace, Take, storeVars, sourceVars, streamVars
<1>7. ASSUME NEW c \in Clients, Subscribe(c) \/ snapshotAll(c) \/ send(c) \/ Signal(c) \/ Unsubscribe(c)
      PROVE  Types'
  <2>1. NoView \in ViewType /\ Shards \subseteq NS /\ view \in [Clients -> ViewType]
    BY Zenon DEF NoView, ViewType, Shards, Types
  <2>2. view' \in [Clients -> ViewType]
    <3>1. CASE Subscribe(c)
      BY <2>1, <3>1, Zenon DEF Subscribe, ViewType
    <3>2. CASE snapshotAll(c)
      <4>1. PICK n \in view[c].todo :
               view' = [view EXCEPT ![c].todo = @ \ {n}, ![c].buf[n] = ver[n]]
        BY <3>2, Zenon DEF snapshotAll
      <4>2. ver[n] \in Nat
        BY <2>1, Zenon DEF Types, ViewType
      <4> QED  BY <2>1, <4>1, <4>2 DEF ViewType
    <3>3. CASE send(c)
      BY <2>1, <3>3, Zenon DEF send, ViewType
    <3>4. CASE Signal(c)
      BY <2>1, <3>4 DEF Signal, ViewType
    <3>5. CASE Unsubscribe(c)
      BY <2>1, <3>5, Zenon DEF Unsubscribe
    <3> QED  BY <1>7, <3>1, <3>2, <3>3, <3>4, <3>5
  <2>3. sig' \in [Clients -> BOOLEAN]
    BY <1>7, Zenon DEF Types, Subscribe, snapshotAll, send, Signal, Unsubscribe
  <2> QED  BY <1>7, <2>2, <2>3 DEF Types, ViewType, Subscribe, snapshotAll, send, Signal, Unsubscribe,
                                   storeVars, sourceVars, queueVars
<1>8. CASE UNCHANGED vars
  BY <1>8, Zenon DEF Types, vars
<1> QED  BY <1>1, <1>2, <1>3, <1>4, <1>5, <1>6, <1>7, <1>8 DEF Next, Stream

\* Every step keeps unread changes on their way to a pass.
LEMMA CoveredKept == Types /\ Listed /\ NoticeCovered /\ [Next]_vars => NoticeCovered'
<1> SUFFICES ASSUME Types, Listed, NoticeCovered, [Next]_vars PROVE NoticeCovered'
  BY Zenon
<1>1. ASSUME NEW m \in Mutators, NEW n \in NS, Change(m, n) PROVE NoticeCovered'
  <2>1. OnItsWay' = OnItsWay \cup {n}
    BY <1>1, ChangeUnannounced, Zenon DEF OnItsWay, Change, sourceVars, queueVars
  <2>2. \A k \in NS \ {n} : ver'[k] = ver[k]
    BY <1>1, Zenon DEF Change, Types
  <2> QED  BY <1>1, <2>1, <2>2 DEF NoticeCovered, Change, sourceVars, queueVars
<1>2. ASSUME NEW m \in Mutators, notifyWatchers(m) PROVE NoticeCovered'
  <2>1. PICK n \in mut[m] : Sent(n)
    BY <1>2, Zenon DEF notifyWatchers
  <2>2. n \in NS /\ Unannounced \subseteq Unannounced' \cup {n}
    BY <1>2, NotifyUnannounced, Zenon DEF Types
  <2>3. Range(ch) \subseteq Range(ch') /\ missed \subseteq missed'
    <3>1. Range(Append(ch, n)) = Range(ch) \cup {n}
      BY <2>2, AppendRange DEF Types
    <3> QED  BY <2>1, <3>1, SentCases
  <2>4. "source" \in started => n \in Range(ch') \cup missed'
    <3>1. Range(Append(ch, n)) = Range(ch) \cup {n}
      BY <2>2, AppendRange DEF Types
    <3>2. CASE ch' = Append(ch, n)
      BY <3>1, <3>2, Zenon
    <3>3. CASE ch' = ch /\ missed' = missed \cup ({n} \ Range(ch))
      <4>1. n \in Range(ch) \cup (missed \cup ({n} \ Range(ch)))
        BY Zenon
      <4> QED  BY <3>3, <4>1, Zenon
    <3> QED  BY <2>1, <3>2, <3>3, SentCases
  <2> QED  BY <1>2, <2>2, <2>3, <2>4 DEF Listed, NoticeCovered, OnItsWay, notifyWatchers, queueVars
<1>3. CASE Start \/ StartLoop \/ Elapse
  BY <1>3 DEF NoticeCovered, OnItsWay, Unannounced, Start, StartLoop, Elapse, storeVars, queueVars
<1>4. CASE ListInventories
  BY <1>4, Zenon DEF NoticeCovered, OnItsWay, ListInventories
<1>5. CASE Receive
  <2>1. Range(ch) \subseteq {Head(ch)} \cup Range(ch')
    BY <1>5, TailRange, Zenon DEF Receive, Types
  <2> QED  BY <1>5, <2>1 DEF NoticeCovered, OnItsWay, Unannounced, Receive, storeVars, queueVars
<1>6. CASE flush
  BY <1>6 DEF NoticeCovered, OnItsWay, Unannounced, flush, Selecting, storeVars, queueVars
<1>7. ASSUME NEW n \in NS, inventoriesInNamespace(n) PROVE NoticeCovered'
  BY <1>7 DEF NoticeCovered, OnItsWay, Unannounced, inventoriesInNamespace, storeVars
<1>8. ASSUME NEW n \in NS, Take(n) PROVE NoticeCovered'
  BY <1>8 DEF NoticeCovered, OnItsWay, Unannounced, Take, storeVars, sourceVars
<1>9. CASE Pass
  BY <1>9 DEF NoticeCovered, OnItsWay, Unannounced, Pass, storeVars, sourceVars, Types
<1>10. ASSUME NEW c \in Clients, Subscribe(c) \/ snapshotAll(c) \/ send(c) \/ Signal(c) \/ Unsubscribe(c)
       PROVE  NoticeCovered'
  BY <1>10 DEF NoticeCovered, OnItsWay, Unannounced, Subscribe, snapshotAll, send, Signal,
               Unsubscribe, storeVars, sourceVars, queueVars
<1>11. CASE UNCHANGED vars
  BY <1>11 DEF NoticeCovered, OnItsWay, Unannounced, vars
<1> QED  BY <1>1, <1>2, <1>3, <1>4, <1>5, <1>6, <1>7, <1>8, <1>9, <1>10, <1>11 DEF Next, Stream

\* Every step keeps what the streams have read current.
LEMMA ReadingKept == Types /\ Reading /\ [Next]_vars => Reading'
<1> SUFFICES ASSUME Types, Reading, [Next]_vars PROVE Reading'
  BY Zenon
<1>1. ASSUME NEW m \in Mutators, NEW n \in NS, Change(m, n) PROVE Reading'
  <2>1. Unannounced' = Unannounced \cup {n}
    BY <1>1, ChangeUnannounced, Zenon
  <2>2. \A k \in NS \ {n} : ver'[k] = ver[k]
    BY <1>1, Zenon DEF Change, Types
  <2> QED  BY <1>1, <2>1, <2>2 DEF Reading, Change, streamVars
<1>2. ASSUME NEW m \in Mutators, notifyWatchers(m) PROVE Reading'
  BY <1>2, Zenon DEF Reading, notifyWatchers, Types
<1>3. ASSUME NEW n \in NS,
             \/ Start \/ StartLoop \/ ListInventories \/ Elapse \/ Receive \/ flush
             \/ inventoriesInNamespace(n) \/ Take(n) \/ Pass \/ UNCHANGED vars
      PROVE  Reading'
  BY <1>3 DEF Reading, Unannounced, Start, StartLoop, ListInventories, Elapse, Receive, flush,
              inventoriesInNamespace, Take, Pass, vars, storeVars, streamVars
<1>4. ASSUME NEW c \in Clients, Subscribe(c) PROVE Reading'
  BY <1>4 DEF Reading, Unannounced, Subscribe, Shards, NoView, Types, storeVars
<1>5. ASSUME NEW c \in Clients, snapshotAll(c) PROVE Reading'
  BY <1>5 DEF Reading, Unannounced, snapshotAll, Types, ViewType, storeVars
<1>6. ASSUME NEW c \in Clients, send(c) PROVE Reading'
  <2>1. \A d \in Clients \ {c} : view'[d] = view[d]
    BY <1>6, Zenon DEF send, Types
  <2>2. view[c].pc = "reading" /\ view[c].todo = {} /\ view'[c].pc = "waiting"
        /\ view'[c].shown = view[c].buf
    BY <1>6 DEF send, Types
  <2>3. sig' = sig /\ ver' = ver /\ Unannounced' = Unannounced
    BY <1>6, Zenon DEF send, storeVars, Unannounced
  <2> SUFFICES ASSUME NEW d \in Clients, NEW n \in NS, ~sig'[d], n \notin Unannounced'
               PROVE  /\ view'[d].pc = "reading" => n \in view'[d].todo \/ view'[d].buf[n] = ver'[n]
                      /\ view'[d].pc = "waiting" => view'[d].shown[n] = ver'[n]
    BY Zenon DEF Reading
  <2> QED  BY <2>1, <2>2, <2>3 DEF Reading
<1>7. ASSUME NEW c \in Clients, Signal(c) PROVE Reading'
  <2>1. \A d \in Clients \ {c} : view'[d] = view[d] /\ sig'[d] = sig[d]
    BY <1>7, Zenon DEF Signal, Types
  <2>2. view'[c].pc = "reading" /\ view'[c].todo = Shards /\ view'[c].buf = [n \in NS |-> 0]
    BY <1>7 DEF Signal, Types, NoView
  <2>3. ver' = ver /\ Unannounced' = Unannounced
    BY <1>7, Zenon DEF Signal, storeVars, Unannounced
  <2> SUFFICES ASSUME NEW d \in Clients, NEW n \in NS, ~sig'[d], n \notin Unannounced'
               PROVE  /\ view'[d].pc = "reading" => n \in view'[d].todo \/ view'[d].buf[n] = ver'[n]
                      /\ view'[d].pc = "waiting" => view'[d].shown[n] = ver'[n]
    BY Zenon DEF Reading
  <2>4. n \in Shards \/ ver[n] = 0
    BY DEF Shards, Types
  <2> QED  BY <2>1, <2>2, <2>3, <2>4 DEF Reading
<1>8. ASSUME NEW c \in Clients, Unsubscribe(c) PROVE Reading'
  BY <1>8 DEF Reading, Unannounced, Unsubscribe, NoView, Types, storeVars
<1> QED
  <2>1. CASE NS = {}
    BY <2>1, Zenon DEF Reading
  <2> QED  BY <2>1, <1>1, <1>2, <1>3, <1>4, <1>5, <1>6, <1>7, <1>8 DEF Next, Stream

\* Every step keeps the first list on the queue until the source subscribed.
LEMMA ListedKept == Types /\ Listed /\ [Next]_vars => Listed'
<1> SUFFICES ASSUME Types, Listed, [Next]_vars PROVE Listed'
  BY Zenon
<1>1. CASE \/ Start \/ StartLoop \/ ListInventories \/ Elapse \/ Receive \/ flush \/ Pass
           \/ UNCHANGED vars
  BY <1>1, Zenon DEF Listed, Start, StartLoop, ListInventories, Elapse, Receive, flush, Pass, vars,
              sourceVars, queueVars
<1>2. ASSUME NEW n \in NS, inventoriesInNamespace(n) \/ Take(n) PROVE Listed'
  <2>1. CASE Take(n)
    BY <2>1, Zenon DEF Listed, Take, sourceVars
  <2>2. CASE inventoriesInNamespace(n)
    <3>1. started' = started /\ (queue' = queue \/ queue' = queue \cup {n})
      BY <2>2, Zenon DEF inventoriesInNamespace
    <3> QED  BY <3>1 DEF Listed
  <2> QED  BY <1>2, <2>1, <2>2
<1>3. ASSUME NEW m \in Mutators, notifyWatchers(m) \/ \E n \in NS : Change(m, n) PROVE Listed'
  BY <1>3, Zenon DEF Listed, notifyWatchers, Change, sourceVars, queueVars
<1>4. ASSUME NEW c \in Clients, Subscribe(c) \/ snapshotAll(c) \/ send(c) \/ Signal(c) \/ Unsubscribe(c)
      PROVE  Listed'
  BY <1>4, Zenon DEF Listed, Subscribe, snapshotAll, send, Signal, Unsubscribe, sourceVars, queueVars
<1> QED  BY <1>1, <1>2, <1>3, <1>4 DEF Next, Stream

\* The invariant the properties rest on: store, channel, pending set, queue and
\* streams of store.go, inventory_store_source.go and server.go together.
LEMMA Invariant == Spec => []Inv
<1>1. Init => Inv
  BY DEF Init, Inv, Types, ViewType, Listed, NoticeCovered, Reading, NoView
<1>2. Inv /\ [Next]_vars => Inv'
  BY TypesKept, ListedKept, CoveredKept, ReadingKept, Zenon DEF Inv
<1> QED  BY <1>1, <1>2, PTL DEF Spec

\* A change of the store that no pass has read is on its way to one, unless the
\* channel was full or a list failed (notifyWatchers, the loop of the source).
THEOREM ChangesAreNoticed == Spec => []NoticeCovered
<1>1. Inv => NoticeCovered
  BY Zenon DEF Inv
<1> QED  BY Invariant, <1>1, PTL

\* A stream that waits without a signal has shown what the store holds, but for
\* changes that are about to be announced (handleWatch, notifyWatchers).
THEOREM StreamsAreCurrent == Spec => []StreamCovered
<1>1. Inv => StreamCovered
  BY Zenon DEF Inv, Reading, StreamCovered
<1> QED  BY Invariant, <1>1, PTL
=============================================================================
