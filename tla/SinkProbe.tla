----------------------------- MODULE SinkProbe -----------------------------
(***************************************************************************)
(* Connection probes: the family sink reconciler                           *)
(* (internal/controller/family_sink_controller.go,                         *)
(* family_sink_connection.go), the KollectConnectionTest reconciler        *)
(* (kollectconnectiontest_controller.go), the probe of every backend       *)
(* (internal/sink/probe.go) and the ls-remote result cache of the git      *)
(* probe (internal/sink/git/ref_cache.go).                                 *)
(*                                                                         *)
(* A reconcile reads its object from the informer cache, which may lag     *)
(* behind the API server; probes; and writes the status with the           *)
(* resourceVersion it read, so the write fails if the object has changed.  *)
(* Time is relative: Tick ages what has an age.                            *)
(***************************************************************************)
EXTENDS Integers

CONSTANTS
    Sinks,       \* family sinks, numbers above 0
    Test,        \* the KollectConnectionTest
    Types,       \* the sink types of this instance
    Novel,       \* those whose failures never read the same: S3 puts a request id in each
    Applied,     \* a connection test is applied
    SinkFields,  \* the spec fields and annotations users change on sinks,
    Marks,       \*   of {"test", "insecure"} and of {"ann", "preview"}
    GitCLI,      \* a git executable is on the pinned PATH
    TTLs,        \* values of ttlSecondsAfterFinished, in ticks
    Worlds,      \* the Secret (missing, empty, bad or good) and the backend (up or not)
    CacheTTL,    \* refCache.ttl, in ticks
    Absent,
    MaxEdits,    \* bound: changes by users and of the world, errors and restarts included
    MaxFaults    \* bound: API errors and restarts

VARIABLES
    obj,      \* sinks and the test, as the API server has them
    cache,    \* as the informer cache has them
    world,    \* the Secret, and whether the backend answers
    refs,     \* lsRemoteRefCache: the one key, [ok, left] or Absent
    lately,   \* what ls-remote would have answered, by age in ticks
    age,      \* ticks since the test completed, up to its TTL
    second,   \* the wall clock second, modulo 2
    timer,    \* the test's RequeueAfter is pending
    queue, rec, edits, faults

vars == <<obj, cache, world, refs, lately, age, second, timer, queue, rec, edits, faults>>
ambient == <<world, refs, lately, age, second, timer>>

Objs == Sinks \cup {Test}
Verdicts == {"none", "True", "False"}
Failures == {"failed", "failed anew"}
Messages == {"none", "ok", "no secret"} \cup Failures
MaxTTL == CHOOSE n \in TTLs : \A m \in TTLs : m <= n

NewSink(s, type, test) ==
    [uid |-> s, gen |-> 1, type |-> type, test |-> test, ann |-> FALSE, insecure |-> FALSE,
     preview |-> FALSE, verified |-> "none", obs |-> 0, degraded |-> FALSE, tls |-> FALSE,
     message |-> "none", rendered |-> Absent]
NewTest(uid, ref, own, ttl) ==
    [uid |-> uid, gen |-> 1, ref |-> ref, own |-> own, ttl |-> ttl, owner |-> 0,
     done |-> FALSE, obs |-> 0, ok |-> FALSE]
Idle == [pc |-> "idle", copy |-> Absent, new |-> Absent, sink |-> Absent, asked |-> FALSE,
         adopted |-> FALSE]

\* Type correctness.
TypeOK ==
    /\ \A s \in Sinks : obj[s] # Absent =>
          obj[s].verified \in Verdicts /\ obj[s].message \in Messages /\ obj[s].obs <= obj[s].gen /\ obj[s].type \in Types
    /\ obj[Test] # Absent => obj[Test].obs <= obj[Test].gen
    /\ DOMAIN obj = Objs /\ DOMAIN cache = Objs
    /\ world \in Worlds
    /\ refs # Absent => refs.ok \in BOOLEAN /\ refs.left \in -1..CacheTTL
    /\ lately \in [0..CacheTTL -> SUBSET BOOLEAN]
    /\ age \in 0..MaxTTL /\ second \in 0..1 /\ timer \in BOOLEAN
    /\ queue \subseteq Objs
    /\ \A o \in Objs : rec[o].pc \in {"idle", "probe", "own", "commit", "patch"}
    /\ edits \in 0..MaxEdits /\ faults \in 0..MaxFaults

-----------------------------------------------------------------------------
(* The probes. *)

\* getSecret: a missing Secret and one without data are refused alike.
BuildContextFromSpec == world.secret \in {"bad", "good"}

Authorised == world.secret = "good"

\* ls-remote asks the remote with the credentials of the moment.
lsRemoteUncached == world.up /\ Authorised

\* The cache key has the endpoint, the kind of the credentials and the user
\* name: not the credential, so that one key serves the old and the new one.
refCacheGet == IF refs # Absent /\ refs.left >= 0 THEN refs ELSE Absent

refCacheSet(ok) == [ok |-> ok, left |-> CacheTTL]

\* A failure is cached like a success.
lsRemote ==
    IF ~GitCLI THEN [ok |-> TRUE, refs |-> refs]
    ELSE IF refCacheGet # Absent THEN [ok |-> refCacheGet.ok, refs |-> refs]
    ELSE [ok |-> lsRemoteUncached, refs |-> refCacheSet(lsRemoteUncached)]

\* The TLS handshake comes first and is never cached.
tlsHandshake == world.up

testGitConnection == IF tlsHandshake THEN lsRemote ELSE [ok |-> FALSE, refs |-> refs]

Plain(ok) == [ok |-> ok, refs |-> refs]
testPostgresConnection == Plain(world.up /\ Authorised)
testMongoConnection == Plain(world.up /\ Authorised)
testBigQueryConnection == Plain(world.up /\ Authorised)
testKafkaConnection == Plain(world.up /\ Authorised)
testNatsConnection == Plain(world.up /\ Authorised)
testS3Connection == Plain(world.up /\ Authorised)
testGCSConnection == testS3Connection
testGitLabConnection == testGitConnection

\* connectionTesters has no entry for the local sink.
RunConnectionTest(type) ==
    CASE type = "git" -> testGitConnection
      [] type = "gitlab" -> testGitLabConnection
      [] type = "postgres" -> testPostgresConnection
      [] type = "bigquery" -> testBigQueryConnection
      [] type = "mongodb" -> testMongoConnection
      [] type = "kafka" -> testKafkaConnection
      [] type = "nats" -> testNatsConnection
      [] type = "s3" -> testS3Connection
      [] type = "gcs" -> testGCSConnection
      [] OTHER -> Plain(FALSE)

Probe(type) == IF BuildContextFromSpec THEN RunConnectionTest(type) ELSE Plain(FALSE)

\* The answers of the current tick, with those before.
Note(w) == [lately EXCEPT ![0] = @ \cup {w.up /\ w.secret = "good"}]

-----------------------------------------------------------------------------
(* The world. *)

Init ==
    /\ \E type \in Types, own \in BOOLEAN, n \in TTLs, on \in {"test" \in SinkFields, FALSE} :
          obj = [o \in Objs |-> IF o \in Sinks THEN NewSink(o, type, on)
                               ELSE IF Applied THEN NewTest(0, 1, own, n) ELSE Absent]
    /\ cache = obj
    /\ world \in Worlds
    /\ refs = Absent
    /\ lately = [k \in 0..CacheTTL |-> {world.up /\ world.secret = "good"}]
    /\ age = 0 /\ second = 0 /\ timer = FALSE
    /\ queue = {o \in Objs : obj[o] # Absent}
    /\ rec = [o \in Objs |-> Idle] /\ edits = 0 /\ faults = 0

Deliver(o) ==
    /\ cache[o] # obj[o]
    /\ cache' = [cache EXCEPT ![o] = obj[o]] /\ queue' = queue \cup {o}
    /\ UNCHANGED <<obj, ambient, rec, edits, faults>>

Edit == edits + faults < MaxEdits /\ edits' = edits + 1 /\ UNCHANGED <<cache, queue, rec, faults>>

EditSink(s) ==
    /\ Edit /\ obj[s] # Absent
    /\ \E f \in SinkFields :
          obj' = [obj EXCEPT ![s].gen = @ + 1, ![s][f] = ~@]
    /\ UNCHANGED ambient

AnnotateSink(s) ==
    /\ Edit /\ obj[s] # Absent
    /\ \E f \in Marks : obj' = [obj EXCEPT ![s][f] = ~@]
    /\ UNCHANGED ambient

DeleteSink(s) ==
    /\ Edit /\ obj[s] # Absent
    /\ obj' = [obj EXCEPT ![s] = Absent]
    /\ UNCHANGED ambient

EditTest ==
    /\ Edit /\ obj[Test] # Absent
    /\ \E r \in Sinks \cup {0} : obj' = [obj EXCEPT ![Test].gen = @ + 1, ![Test].ref = r]
    /\ UNCHANGED ambient

\* kubectl delete, and kubectl apply once more.
DeleteTest ==
    /\ Edit /\ obj[Test] # Absent
    /\ obj' = [obj EXCEPT ![Test] = Absent] /\ UNCHANGED ambient

ApplyTest ==
    /\ Edit /\ Applied /\ obj[Test] = Absent
    /\ \E own \in BOOLEAN, n \in TTLs : obj' = [obj EXCEPT ![Test] = NewTest(edits', 1, own, n)]
    /\ UNCHANGED ambient

WorldChanges ==
    /\ Edit
    /\ \E w \in Worlds :
          /\ w # world /\ (w.up = world.up \/ w.secret = world.secret)
          /\ world' = w /\ lately' = Note(w)
    /\ UNCHANGED <<obj, refs, age, second, timer>>

\* The garbage collector removes a test whose owner is gone.
CollectGarbage ==
    /\ obj[Test] # Absent /\ obj[Test].owner # 0
    /\ obj[obj[Test].owner] = Absent
    /\ obj' = [obj EXCEPT ![Test] = Absent]
    /\ UNCHANGED <<cache, ambient, queue, rec, edits, faults>>

\* A negative TTL is zero.
connectionTestTTL(t) == IF t.ttl < 0 THEN 0 ELSE t.ttl

\* The second matters while a preview shows it, the age once the test is done.
Tick ==
    /\ second' = IF \E s \in Sinks : obj[s] # Absent /\ obj[s].preview THEN 1 - second ELSE 0
    /\ refs' = IF refs # Absent /\ refs.left >= 0 THEN [refs EXCEPT !.left = @ - 1] ELSE refs
    /\ lately' = [k \in 0..CacheTTL |-> IF k = 0 THEN {lsRemoteUncached} ELSE lately[k - 1]]
    /\ age' = IF obj[Test] = Absent \/ ~obj[Test].done THEN 0
              ELSE IF age < MaxTTL THEN age + 1 ELSE age
    /\ LET due == timer /\ obj[Test] # Absent /\ age' >= connectionTestTTL(obj[Test])
       IN timer' = (timer /\ ~due) /\ queue' = IF due THEN queue \cup {Test} ELSE queue
    /\ UNCHANGED <<obj, cache, world, rec, edits, faults>>

-----------------------------------------------------------------------------
(* Family sinks. *)

ConnectionTestEnabled(s) == s.test \/ s.ann

LoadSink(s) ==
    /\ s \in queue /\ rec[s].pc = "idle"
    /\ queue' = queue \ {s}
    /\ rec' = [rec EXCEPT ![s] = IF cache[s] = Absent THEN Idle
                                 ELSE [Idle EXCEPT !.pc = "probe", !.copy = cache[s]]]
    /\ UNCHANGED <<obj, cache, ambient, edits, faults>>

\* Rendered at the second the reconcile runs in; removed with the annotation.
renderFamilyPreview(s) == [s EXCEPT !.rendered = IF s.preview THEN second ELSE Absent]

setFamilyTLSInsecureCondition(s) == [s EXCEPT !.tls = s.insecure]

setConnectionVerified(s) ==
    [setFamilyTLSInsecureCondition(s) EXCEPT !.verified = "True", !.obs = s.gen, !.degraded = FALSE,
                                             !.message = "ok"]

\* redact.Text of the error: it takes credentials out, and no request id.
Message(s) ==
    IF ~BuildContextFromSpec THEN "no secret"
    ELSE IF s.type \in Novel /\ s.message = "failed" THEN "failed anew" ELSE "failed"

\* Mutant: a failed probe does not say of which generation it is.
setConnectionFailed_KeepsObserved(s) ==
    [setFamilyTLSInsecureCondition(s) EXCEPT !.verified = "False", !.degraded = TRUE,
                                             !.message = Message(s)]

setConnectionFailed(s) ==
    [setFamilyTLSInsecureCondition(s) EXCEPT !.verified = "False", !.obs = s.gen, !.degraded = TRUE,
                                             !.message = Message(s)]

Probed(o, new, r) ==
    /\ rec' = [rec EXCEPT ![o].pc = "commit", ![o].new = new, ![o].asked = r.ok]
    /\ refs' = r.refs
    /\ UNCHANGED <<obj, cache, world, lately, age, second, timer, queue, edits, faults>>

probeSink(s) ==
    /\ rec[s].pc = "probe"
    /\ LET rendered == renderFamilyPreview(rec[s].copy)
           r == IF ConnectionTestEnabled(rendered) THEN Probe(rendered.type) ELSE Plain(FALSE)
       IN Probed(s, IF ~ConnectionTestEnabled(rendered) THEN setFamilyTLSInsecureCondition(rendered)
                    ELSE IF r.ok THEN setConnectionVerified(rendered)
                    ELSE setConnectionFailed(rendered), r)

shouldClearTestConnectionAnnotation(s) == ~s.test /\ s.ann /\ s.verified = "True"

\* The API server rejects an update of an object that is no longer as read.
Retry(o) ==
    /\ rec' = [rec EXCEPT ![o] = Idle] /\ queue' = queue \cup {o}
    /\ UNCHANGED <<obj, cache, ambient, edits>>

\* Without a probe the status is written only when it changed, which is the
\* same: an update that changes nothing leaves the object as it is.
updateSinkStatus(s) ==
    /\ rec[s].pc = "commit"
    /\ \/ /\ rec[s].copy = obj[s]
          /\ obj' = [obj EXCEPT ![s] = rec[s].new]
          /\ rec' = [rec EXCEPT ![s] =
                IF shouldClearTestConnectionAnnotation(rec[s].new)
                THEN [@ EXCEPT !.pc = "patch"] ELSE Idle]
          /\ UNCHANGED <<cache, ambient, queue, edits>>
       \/ rec[s].copy # obj[s] /\ Retry(s)
    /\ UNCHANGED faults

\* A merge patch: it carries no resourceVersion.
clearTestConnectionAnnotation(s) ==
    /\ rec[s].pc = "patch"
    /\ \/ /\ obj[s] # Absent
          /\ obj' = [obj EXCEPT ![s].ann = FALSE]
          /\ rec' = [rec EXCEPT ![s] = Idle]
          /\ UNCHANGED <<cache, ambient, queue, edits>>
       \/ obj[s] = Absent /\ Retry(s)
    /\ UNCHANGED faults

-----------------------------------------------------------------------------
(* KollectConnectionTest. *)

Finished(t) == t.done /\ t.obs = t.gen

\* r.Delete names the object only: it deletes whatever has the name.
reconcileTTL ==
    LET due == age >= connectionTestTTL(cache[Test])
    IN /\ obj' = IF due THEN [obj EXCEPT ![Test] = Absent] ELSE obj
       /\ timer' = ~due
       /\ rec' = rec

setProbeSucceeded == [rec[Test] EXCEPT !.pc = "commit", !.asked = TRUE,
                                       !.new = [done |-> TRUE, ok |-> TRUE]]

setProbeFailed == [rec[Test] EXCEPT !.pc = "commit", !.asked = FALSE,
                                    !.new = [done |-> TRUE, ok |-> FALSE]]

LoadTest ==
    /\ Test \in queue /\ rec[Test].pc = "idle"
    /\ queue' = queue \ {Test}
    /\ \/ cache[Test] = Absent /\ UNCHANGED <<obj, timer, rec>>
       \/ cache[Test] # Absent /\ Finished(cache[Test]) /\ reconcileTTL
       \/ /\ cache[Test] # Absent /\ ~Finished(cache[Test])
          /\ rec' = [rec EXCEPT ![Test] = [Idle EXCEPT !.pc = "own", !.copy = cache[Test]]]
          /\ UNCHANGED <<obj, timer>>
    /\ UNCHANGED <<cache, world, refs, lately, age, second, edits, faults>>

\* The sink is read from the cache.
familySinkObject(t) == IF t.ref = 0 THEN Absent ELSE cache[t.ref]

\* A test owned by another sink cannot be owned by this one: the call of
\* SetControllerReference fails, and the reconcile with it.  The patch carries no
\* resourceVersion, and what it returns replaces the copy: the test as it is
\* now, completed or edited since it was read.
ensureOwnerReference ==
    LET t == rec[Test].copy
        sink == familySinkObject(t)
        found == [rec[Test] EXCEPT !.pc = "probe", !.sink = sink]
    IN /\ rec[Test].pc = "own"
       /\ \/ /\ sink = Absent
             /\ rec' = [rec EXCEPT ![Test] = setProbeFailed]
             /\ UNCHANGED <<obj, cache, ambient, queue, edits>>
          \/ /\ sink # Absent /\ (~t.own \/ t.owner = sink.uid)
             /\ rec' = [rec EXCEPT ![Test] = found]
             /\ UNCHANGED <<obj, cache, ambient, queue, edits>>
          \/ sink # Absent /\ t.own /\ t.owner \notin {0, sink.uid} /\ Retry(Test)
          \/ /\ sink # Absent /\ t.own /\ t.owner = 0 /\ obj[Test] # Absent
             /\ obj' = [obj EXCEPT ![Test].owner = sink.uid]
             /\ rec' = [rec EXCEPT ![Test] = [found EXCEPT !.copy = obj'[Test], !.adopted = TRUE]]
             /\ UNCHANGED <<cache, ambient, queue, edits>>
          \/ sink # Absent /\ t.own /\ t.owner = 0 /\ obj[Test] = Absent /\ Retry(Test)
       /\ UNCHANGED faults

probeTest ==
    /\ rec[Test].pc = "probe"
    /\ LET r == Probe(rec[Test].sink.type)
       IN /\ rec' = [rec EXCEPT ![Test] = IF r.ok THEN setProbeSucceeded ELSE setProbeFailed]
          /\ refs' = r.refs
    /\ UNCHANGED <<obj, cache, world, lately, age, second, timer, queue, edits, faults>>

Verdict(t, new) == [t EXCEPT !.done = new.done, !.obs = t.gen, !.ok = new.ok]

\* Mutant: Status().Patch instead of Status().Update: no resourceVersion is sent.
updateTestStatus_Patch ==
    /\ rec[Test].pc = "commit"
    /\ \/ /\ obj[Test] # Absent
          /\ obj' = [obj EXCEPT ![Test] = Verdict(@, rec[Test].new)]
          /\ age' = 0 /\ rec' = [rec EXCEPT ![Test] = Idle]
          /\ UNCHANGED <<cache, world, refs, lately, second, timer, queue, edits>>
       \/ obj[Test] = Absent /\ Retry(Test)
    /\ UNCHANGED faults

updateTestStatus ==
    /\ rec[Test].pc = "commit"
    /\ \/ /\ rec[Test].copy = obj[Test]
          /\ obj' = [obj EXCEPT ![Test] = Verdict(@, rec[Test].new)]
          /\ age' = 0 /\ rec' = [rec EXCEPT ![Test] = Idle]
          /\ UNCHANGED <<cache, world, refs, lately, second, timer, queue, edits>>
       \/ rec[Test].copy # obj[Test] /\ Retry(Test)
    /\ UNCHANGED faults

\* An API call fails.
ApiError(o) ==
    /\ rec[o].pc \in {"own", "commit", "patch"} /\ faults < MaxFaults /\ edits + faults < MaxEdits
    /\ faults' = faults + 1 /\ Retry(o)

\* A new process lists everything and starts with an empty ls-remote cache.
Restart ==
    /\ faults < MaxFaults /\ edits + faults < MaxEdits /\ faults' = faults + 1
    /\ cache' = obj /\ queue' = {o \in Objs : obj[o] # Absent}
    /\ rec' = [o \in Objs |-> Idle] /\ refs' = Absent /\ timer' = FALSE
    /\ UNCHANGED <<obj, world, lately, age, second, edits>>

SinkStep(s) ==
    \/ LoadSink(s)
    \/ probeSink(s)
    \/ updateSinkStatus(s)
    \/ clearTestConnectionAnnotation(s)

TestStep ==
    \/ LoadTest
    \/ ensureOwnerReference
    \/ probeTest
    \/ updateTestStatus

Next ==
    \/ \E s \in Sinks : SinkStep(s) \/ EditSink(s) \/ AnnotateSink(s) \/ DeleteSink(s)
    \/ \E o \in Objs : Deliver(o) \/ ApiError(o)
    \/ TestStep
    \/ EditTest
    \/ DeleteTest
    \/ ApplyTest
    \/ WorldChanges
    \/ CollectGarbage
    \/ Tick
    \/ Restart

\* Workers run, watches deliver, the garbage collector and the clock go on.
Fairness ==
    /\ \A s \in Sinks : WF_vars(SinkStep(s))
    /\ WF_vars(TestStep)
    /\ \A o \in Objs : WF_vars(Deliver(o))
    /\ WF_vars(CollectGarbage) /\ WF_vars(Tick)

Spec == Init /\ [][Next]_vars
FairSpec == Spec /\ Fairness

-----------------------------------------------------------------------------
\* A generation of a test gets one verdict, about the sink that it names.  A
\* reconcile from a stale cache, a repeated one and one that a restart cut off
\* may probe again, and must not write: only a new generation or a new object
\* is judged anew.  The one reconcile of which this is not so is the one that
\* patches the owner reference: it goes on with the test the patch returns,
\* without a second look at its status and its reference.
VerdictKept ==
    \A t \in {obj[Test]}, u \in {obj'[Test]} :
       t # Absent /\ u # Absent /\ ~rec[Test].adopted =>
          /\ Finished(t) /\ u.gen = t.gen => u.done /\ u.obs = t.obs /\ u.ok = t.ok
          /\ rec[Test].sink # Absent /\ Finished(u) /\ ~Finished(t) => u.ref = rec[Test].sink.uid

ProbesGit(o) == IF o = Test THEN rec[o].sink.type = "git"
                ELSE rec[o].copy.type = "git" /\ ConnectionTestEnabled(rec[o].copy)

\* What the git probe says was the remote's answer, for the credentials of the
\* moment, no longer than the cache's TTL ago.
Recent ==
    \A o \in Objs :
       /\ rec[o].pc = "probe" /\ rec'[o].pc = "commit"
       /\ ProbesGit(o) /\ world.up /\ BuildContextFromSpec /\ GitCLI
       => rec'[o].asked \in UNION {lately[k] : k \in 0..CacheTTL}

\* A test whose reference another sink does not own comes to its end: it gets a
\* verdict, its TTL passes, and it is deleted.
Contested(t) == t.own /\ t.owner # 0 /\ t.ref # 0 /\ obj[t.ref] # Absent /\ t.owner # obj[t.ref].uid
Ended == obj[Test] = Absent \/ Contested(obj[Test])

\* The status of a sink catches up with its spec: the TLSInsecure condition
\* whether or not a probe runs, the verdict's generation, the preview.
StatusIsCurrent(s) ==
    obj[s] # Absent =>
        /\ obj[s].tls = obj[s].insecure
        /\ ConnectionTestEnabled(obj[s]) => obj[s].obs = obj[s].gen
        /\ obj[s].preview <=> obj[s].rendered # Absent

\* Status writes of the reconcilers do not keep their own reconcilers busy
\* forever, as long as no sink asks for a preview (which carries a time) and no
\* probe fails with a text of its own each time: For() has no predicate, so a
\* status that differs from the last one calls for another reconcile.
Undemanding ==
    /\ obj[Test] = Absent
    /\ \A s \in Sinks : obj[s] # Absent =>
          /\ ~obj[s].preview
          /\ obj[s].type \in Novel /\ ConnectionTestEnabled(obj[s]) => obj[s].message \notin Failures
AtRest == queue = {}

\* A connection test judges the credentials of the moment it runs.
VerdictIsOfTheCredentials ==
    [][rec[Test].pc = "probe" /\ rec'[Test].pc = "commit" /\ rec[Test].sink.type # "local"
         => rec'[Test].asked = (world.up /\ Authorised)]_vars
=============================================================================
