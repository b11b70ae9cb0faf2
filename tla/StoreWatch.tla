----------------------------- MODULE StoreWatch -----------------------------
(***************************************************************************)
(* How a change of the store reaches those who wait for one                *)
(* (internal/collect/store.go, internal/controller/inventory_store_source  *)
(* .go, internal/inventory/server.go).                                     *)
(*                                                                         *)
(* The content of a namespace is the number of changes made to it.  A      *)
(* goroutine that changed it announces the change after it gave up the     *)
(* lock.  One subscriber is the source of the inventory controller, which  *)
(* collects namespaces until a timer fires and then puts their inventories *)
(* (one per namespace here) on the workqueue; the others are the streams   *)
(* of the HTTP API, which show the content of all namespaces.              *)
(***************************************************************************)
EXTENDS Naturals, Sequences

CONSTANTS
    NS,          \* the namespaces
    Mutators,    \* the goroutines that change the store
    Clients,     \* the clients of the stream
    ChanCap,     \* the capacity of a namespace channel (8 in the code)
    MaxChanges,  \* bound on the changes of a namespace
    MaxFaults    \* bound on failed lists and interrupted streams

VARIABLES
    ver,      \* namespace -> Store.versions, and the content it stands for
    mut,      \* mutator -> {the namespace it has changed and not announced} | {}
    ch,       \* the channel of the source
    started,  \* what was started: "source", "loop", "list", in any order the code allows
    timer,    \* "off" | "running" | "fired"
    pending,  \* the namespaces the source has received
    flushing, \* the namespaces of the flush in progress
    queue,    \* namespaces whose inventory is on the workqueue
    work,     \* {the namespace whose inventory a worker has taken and not read} | {}
    seen,     \* namespace -> the content the last pass of its inventory read
    missed,   \* namespaces of which an announcement was dropped or a list failed
    sig,      \* client -> its channel, of capacity 1, holds a signal
    view,     \* client -> [pc, todo : shards to read, buf : read so far, shown]
    faults

storeVars == <<ver, mut>>
sourceVars == <<ch, started, timer, pending, flushing>>
queueVars == <<queue, work, seen>>
streamVars == <<sig, view>>
vars == <<ver, mut, ch, started, timer, pending, flushing, queue, work, seen, missed,
          sig, view, faults>>

NoView == [pc |-> "off", todo |-> {}, buf |-> [n \in NS |-> 0], shown |-> [n \in NS |-> 0]]
Range(s) == {s[i] : i \in DOMAIN s}

\* Type correctness.
TypeOK ==
    /\ ver \in [NS -> 0..MaxChanges] /\ seen \in [NS -> 0..MaxChanges]
    /\ mut \in [Mutators -> SUBSET NS]
    /\ ch \in Seq(NS) /\ Len(ch) <= ChanCap
    /\ started \subseteq {"source", "loop", "list"}
    /\ timer \in {"off", "running", "fired"}
    /\ pending \subseteq NS /\ flushing \subseteq NS /\ queue \subseteq NS /\ missed \subseteq NS
    /\ work \subseteq NS
    /\ sig \in [Clients -> BOOLEAN]
    /\ view \in [Clients -> [pc : {"off", "reading", "waiting"}, todo : SUBSET NS,
                             buf : [NS -> 0..MaxChanges], shown : [NS -> 0..MaxChanges]]]
    /\ faults \in 0..MaxFaults

Init ==
    /\ ver = [n \in NS |-> 0] /\ seen = [n \in NS |-> 0]
    /\ mut = [m \in Mutators |-> {}]
    /\ ch = <<>> /\ started = {} /\ timer = "off"
    /\ pending = {} /\ flushing = {} /\ queue = {} /\ work = {} /\ missed = {}
    /\ sig = [c \in Clients |-> FALSE] /\ view = [c \in Clients |-> NoView]
    /\ faults = 0

-----------------------------------------------------------------------------
(* The store. *)

\* Upsert, Remove and RemoveTarget: content and version change under the lock.
Change(m, n) ==
    /\ mut[m] = {} /\ ver[n] < MaxChanges
    /\ ver' = [ver EXCEPT ![n] = @ + 1]
    /\ mut' = [mut EXCEPT ![m] = {n}]
    /\ UNCHANGED <<sourceVars, queueVars, missed, streamVars, faults>>

\* The send to the source does not block: it is dropped if the channel is full.
Sent(n) ==
    IF "source" \notin started THEN UNCHANGED <<ch, missed>>
    ELSE IF Len(ch) < ChanCap THEN ch' = Append(ch, n) /\ UNCHANGED missed
    ELSE missed' = missed \cup ({n} \ Range(ch)) /\ UNCHANGED ch

\* Announces the change to the source and to every stream that subscribed.
notifyWatchers(m) ==
    /\ \E n \in mut[m] : Sent(n)
    /\ sig' = [c \in Clients |-> view[c].pc # "off" \/ sig[c]]
    /\ mut' = [mut EXCEPT ![m] = {}]
    /\ UNCHANGED <<ver, started, timer, pending, flushing, queueVars, view, faults>>

-----------------------------------------------------------------------------
(* The source of the inventory controller. *)

\* Start subscribes and returns; its loop is a goroutine of its own.
Start ==
    /\ "source" \notin started
    /\ started' = started \cup {"source"}
    /\ UNCHANGED <<storeVars, ch, timer, pending, flushing, queueVars, missed, streamVars, faults>>

StartLoop ==
    /\ "source" \in started /\ "loop" \notin started
    /\ started' = started \cup {"loop"}
    /\ UNCHANGED <<storeVars, ch, timer, pending, flushing, queueVars, missed, streamVars, faults>>

\* The watch of the inventories themselves enqueues each of them at first.
ListInventories ==
    /\ "list" \notin started
    /\ started' = started \cup {"list"}
    /\ queue' = NS
    /\ UNCHANGED <<storeVars, ch, timer, pending, flushing, work, seen, missed, streamVars, faults>>

\* The loop waits in its select, flush is not running.
Selecting == "loop" \in started /\ flushing = {}

\* Mutant: only the last namespace is remembered.
Receive_Last ==
    /\ Selecting /\ ch # <<>>
    /\ pending' = {Head(ch)}
    /\ ch' = Tail(ch)
    /\ timer' = "running"
    /\ UNCHANGED <<storeVars, started, flushing, queueVars, missed, streamVars, faults>>

\* A namespace arrives: it is remembered and the timer starts over.
Receive ==
    /\ Selecting /\ ch # <<>>
    /\ pending' = pending \cup {Head(ch)}
    /\ ch' = Tail(ch)
    /\ timer' = "running"
    /\ UNCHANGED <<storeVars, started, flushing, queueVars, missed, streamVars, faults>>

Elapse ==
    /\ timer = "running"
    /\ timer' = "fired"
    /\ UNCHANGED <<storeVars, ch, started, pending, flushing, queueVars, missed, streamVars, faults>>

\* flush takes what is pending and starts afresh.
flush ==
    /\ Selecting /\ timer = "fired"
    /\ timer' = "off"
    /\ flushing' = pending
    /\ pending' = {}
    /\ UNCHANGED <<storeVars, ch, started, queueVars, missed, streamVars, faults>>

\* One namespace of the flush: its inventories are listed and enqueued, or
\* the list fails and they are not.
inventoriesInNamespace(n) ==
    /\ n \in flushing
    /\ flushing' = flushing \ {n}
    /\ \/ queue' = queue \cup {n} /\ UNCHANGED <<missed, faults>>
       \/ /\ faults < MaxFaults /\ faults' = faults + 1
          /\ missed' = missed \cup {n}
          /\ UNCHANGED queue
    /\ UNCHANGED <<storeVars, ch, started, timer, pending, work, seen, streamVars>>

\* Workers start when every source has been started.
Take(n) ==
    /\ {"source", "list"} \subseteq started
    /\ work = {} /\ n \in queue
    /\ queue' = queue \ {n} /\ work' = {n}
    /\ UNCHANGED <<storeVars, sourceVars, seen, missed, streamVars, faults>>

\* The pass reads the store (SnapshotNamespace).
Pass ==
    /\ work # {}
    /\ seen' = [n \in NS |-> IF n \in work THEN ver[n] ELSE seen[n]]
    /\ work' = {}
    /\ missed' = missed \ work
    /\ UNCHANGED <<storeVars, sourceVars, queue, streamVars, faults>>

-----------------------------------------------------------------------------
(* The stream of the HTTP API. *)

\* The shards that exist; a namespace without content may have none yet.
Shards == {n \in NS : ver[n] > 0}

\* handleWatch subscribes before it reads for the first time.
Subscribe(c) ==
    /\ view[c].pc = "off"
    /\ view' = [view EXCEPT ![c] = [NoView EXCEPT !.pc = "reading", !.todo = Shards]]
    /\ sig' = [sig EXCEPT ![c] = FALSE]
    /\ UNCHANGED <<storeVars, sourceVars, queueVars, missed, faults>>

\* snapshotAll locks the shards one after the other.
snapshotAll(c) ==
    /\ view[c].pc = "reading"
    /\ \E n \in view[c].todo :
          view' = [view EXCEPT ![c].todo = @ \ {n}, ![c].buf[n] = ver[n]]
    /\ UNCHANGED <<storeVars, sourceVars, queueVars, missed, sig, faults>>

\* send writes the summary of what was read.
send(c) ==
    /\ view[c].pc = "reading" /\ view[c].todo = {}
    /\ view' = [view EXCEPT ![c].pc = "waiting", ![c].shown = view[c].buf]
    /\ UNCHANGED <<storeVars, sourceVars, queueVars, missed, sig, faults>>

\* A signal starts the next summary.
Signal(c) ==
    /\ view[c].pc = "waiting" /\ sig[c]
    /\ sig' = [sig EXCEPT ![c] = FALSE]
    /\ view' = [view EXCEPT ![c].pc = "reading", ![c].todo = Shards, ![c].buf = NoView.buf]
    /\ UNCHANGED <<storeVars, sourceVars, queueVars, missed, faults>>

\* The client is gone, or the write failed: handleWatch returns and unsubscribes.
Unsubscribe(c) ==
    /\ faults < MaxFaults /\ faults' = faults + 1
    /\ view[c].pc = "waiting" \/ (view[c].pc = "reading" /\ view[c].todo = {})
    /\ view' = [view EXCEPT ![c] = NoView]
    /\ sig' = [sig EXCEPT ![c] = FALSE]
    /\ UNCHANGED <<storeVars, sourceVars, queueVars, missed>>

Stream(c) == snapshotAll(c) \/ send(c) \/ Signal(c)

Next ==
    \/ \E m \in Mutators, n \in NS : Change(m, n)
    \/ \E m \in Mutators : notifyWatchers(m)
    \/ Start \/ StartLoop \/ ListInventories \/ Receive \/ Elapse \/ flush
    \/ \E n \in NS : inventoriesInNamespace(n) \/ Take(n)
    \/ Pass
    \/ \E c \in Clients : Subscribe(c) \/ Stream(c) \/ Unsubscribe(c)

\* Goroutines run, timers fire, the manager starts its sources.
Progress ==
    \/ \E m \in Mutators : notifyWatchers(m)
    \/ Start \/ StartLoop \/ ListInventories \/ Receive \/ Elapse \/ flush
    \/ \E n \in NS : inventoriesInNamespace(n) \/ Take(n)
    \/ Pass
    \/ \E c \in Clients : Stream(c)

Spec == Init /\ [][Next]_vars /\ WF_vars(Progress)

-----------------------------------------------------------------------------
(* Properties. *)

Unannounced == UNION {mut[m] : m \in Mutators}

\* The namespaces whose inventory will still be looked at: its announcement is
\* to come or on its way, or it is about to be reconciled.
OnItsWay ==
    Unannounced \cup Range(ch) \cup pending \cup flushing \cup queue \cup work

\* A change that no pass has read yet is on its way to one, unless the channel
\* was full or a list failed; until the inventories are listed for the first
\* time nothing has to be (notifyWatchers, Start subscribing before it
\* returns, flush swapping the pending set).
NoticeCovered ==
    "list" \in started => \A n \in NS \ (missed \cup OnItsWay) : seen[n] = ver[n]

\* What a stream that waits has shown is what the store holds, unless a signal
\* waits for it or a change is about to be announced (Subscribe before the
\* first send, the channel of capacity one).
StreamCovered ==
    \A c \in Clients :
        view[c].pc = "waiting" /\ ~sig[c] =>
            \A n \in NS \ Unannounced : view[c].shown[n] = ver[n]

Arrived(n) == n \in missed \/ seen[n] = ver[n]

\* Every change is read by a pass, unless its announcement was dropped or its
\* list failed (the coalescing timer fires once changes pause).
NoticesArrive == \A n \in NS : []<>Arrived(n)
=============================================================================
