----------------------------- MODULE SinkBuild ------------------------------
(***************************************************************************)
(* From a sink's spec and the Secrets it references to a backend, along    *)
(* the two paths of the code: "direct" (BuildContextFromSpec: probes, and  *)
(* exports with the pool disabled) and "pooled" (acquireBackendWithReader, *)
(* on a miss: BackendPool has what the pool keeps).  Every GET of a Secret *)
(* is a step of its own; Secrets are written and GETs fail in between.     *)
(* SinkTrust has what each constructor makes of the CA and the credentials.*)
(***************************************************************************)
EXTENDS SinkTrust

CONSTANTS
    Secrets,
    Deployments,   \* sequence of sets of [spec, host, store, edits, faults]: where a behaviour starts
    Contents       \* secret contents a write may leave: [st, ca, cred]

VARIABLES
    dep,       \* the deployment, fixed
    store,     \* secret -> [st, ca, cred, v]: v counts its writes
    at,        \* path -> [pc, todo, got, pending, passed, out]
    edits, faults

vars == <<dep, store, at, edits, faults>>

spec == dep.spec
Paths == {"direct", "pooled"}
Nil == "nil"      \* no reference; "" is a reference without a name
Types == {"git", "gitlab", "s3", "gcs", "local", "postgres", "bigquery", "mongodb",
          "kafka", "nats", "other"}
Unread == [st |-> "unread", ca |-> "none", cred |-> {}, v |-> 0]
NoOutcome == [ok |-> FALSE, why |-> "", terminal |-> FALSE, conns |-> {}, of |-> Nil,
              ca |-> NoCA, cred |-> Unread]
Fail(verdict, s) == [NoOutcome EXCEPT !.why = verdict.why, !.terminal = verdict.terminal, !.of = s]

\* Type correctness of the builds.
TypeOK ==
    /\ spec.type \in Types
    /\ \A s \in Secrets : /\ store[s].st \in {"missing", "there"}
                          /\ store[s].ca \in {"none", "cert", "garbage"}
                          /\ store[s].v \in 0..dep.edits
    /\ \A p \in Paths :
          /\ at[p].pc \in {"start", "ca", "read", "meta", "fetch", "rules", "build", "done"}
          /\ at[p].todo \in Seq(Secrets) /\ Len(at[p].todo) <= Cardinality(Secrets)
          /\ DOMAIN at[p].got = Secrets
          /\ at[p].passed \in BOOLEAN
          /\ at[p].pc = "done" => at[p].out.ok # (at[p].out.why # "")
    /\ edits \in 0..dep.edits /\ faults \in 0..dep.faults

Init ==
    /\ \E i \in DOMAIN Deployments : dep \in Deployments[i]
    /\ store = [s \in Secrets |-> [st |-> dep.store[s].st, ca |-> dep.store[s].ca,
                                   cred |-> dep.store[s].cred, v |-> 0]]
    /\ at = [p \in Paths |-> [pc |-> "start", todo |-> <<>>, got |-> [s \in Secrets |-> Unread],
                              pending |-> NoOutcome, passed |-> FALSE, out |-> NoOutcome]]
    /\ edits = 0 /\ faults = 0

-----------------------------------------------------------------------------
(* The references of a spec: secretRef, own (the type's own: databaseRef,   *)
(* bigquery.secretRef, kafka.secretRef, nats.secretRef or git.auth          *)
(* secretRef), caRef and bundle (tls.caSecretRef and tls.caBundle).         *)

HasBundle == spec.bundle # "none"
CheckCASources == ~(HasBundle /\ spec.caRef # Nil)
caSecretUse == IF HasBundle THEN Nil ELSE spec.caRef
databaseSecretRef ==
    IF spec.type \in {"postgres", "bigquery", "mongodb"} THEN spec.own ELSE Nil
kafkaSecretRef ==
    IF spec.type # "kafka" THEN Nil ELSE IF spec.own # Nil THEN spec.own ELSE spec.secretRef
natsSecretRef ==
    IF spec.type # "nats" THEN Nil ELSE IF spec.own # Nil THEN spec.own ELSE spec.secretRef
gitAuthSecretRef == IF spec.type = "git" THEN spec.own ELSE Nil

\* Each named Secret once.
containsSecretUse(uses, s) == \E i \in 1..Len(uses) : uses[i] = s
Add(uses, s) == IF s \in {Nil, ""} \/ containsSecretUse(uses, s) THEN uses ELSE Append(uses, s)

referencedSecretRefs ==
    LET refs == <<spec.secretRef, databaseSecretRef, kafkaSecretRef, natsSecretRef,
                  gitAuthSecretRef, caSecretUse>>
    IN FoldLeft(Add, <<>>, refs)

-----------------------------------------------------------------------------
(* Reading *)

SecretDataEmpty(x) == x.ca = "none" /\ x.cred = {}
getSecret(x) == CASE x.st = "missing" -> Retryable("not found")
                  [] SecretDataEmpty(x) -> Retryable("no data")
                  [] OTHER -> Builds({})
\* "" is the caSecretRef without a name: it has no key.
SelectCAKey(x) == IF x.ca = "none" THEN Terminal("no CA key") ELSE Builds({})
checkCASecret(x) == IF getSecret(x).ok THEN SelectCAKey(x) ELSE getSecret(x)

Moves(p, r) == /\ at' = [at EXCEPT ![p] = r]
               /\ UNCHANGED <<dep, store, edits>>
Ends(p, r, out) == Moves(p, [r EXCEPT !.pc = "done", !.out = out, !.pending = NoOutcome])

\* A failed read of the pooled path: the CA rules are applied first, unless it
\* is the CA Secret that was read.
caRulesFirst(p, r, out) ==
    CASE caSecretUse \in {Nil, out.of} -> Ends(p, r, out)
      [] caSecretUse = "" -> Ends(p, r, Fail(Terminal("no CA key"), ""))
      [] OTHER -> Moves(p, [r EXCEPT !.pc = "rules", !.pending = out])

BothSources == Fail(Terminal("both sources"), "")
BuildContextFromSpec ==
    LET r == at["direct"] IN
    /\ r.pc = "start" /\ UNCHANGED faults
    /\ IF ~CheckCASources THEN Ends("direct", r, BothSources)
       ELSE CASE caSecretUse = Nil ->
                   Moves("direct", [r EXCEPT !.pc = "read", !.todo = referencedSecretRefs])
              [] caSecretUse = "" -> Ends("direct", r, Fail(Terminal("no CA key"), ""))
              [] OTHER -> Moves("direct", [r EXCEPT !.pc = "ca", !.todo = referencedSecretRefs])

\* verdict is what this GET of s comes back with.
ReadCA(verdict) ==
    LET r == at["direct"]
        s == caSecretUse
    IN
    /\ r.pc = "ca"
    /\ IF ~verdict.ok THEN Ends("direct", r, Fail(verdict, s))
       ELSE Moves("direct", [r EXCEPT !.pc = "read", !.passed = TRUE, !.got[s] = store[s],
                                      !.todo = SelectSeq(@, LAMBDA u : u # s)])
ReadNext(verdict) ==
    LET r == at["direct"]
        s == Head(r.todo)
    IN
    /\ r.pc = "read" /\ r.todo # <<>>
    /\ IF ~verdict.ok THEN Ends("direct", r, Fail(verdict, s))
       ELSE Moves("direct", [r EXCEPT !.got[s] = store[s], !.todo = Tail(@)])

acquireBackendWithReader ==
    LET r == at["pooled"] IN
    /\ r.pc = "start" /\ UNCHANGED faults
    /\ IF ~CheckCASources THEN Ends("pooled", r, BothSources)
       ELSE Moves("pooled", [r EXCEPT !.pc = "meta", !.todo = referencedSecretRefs])

\* Metadata tells a missing Secret, not an empty one.
secretMeta(verdict) ==
    LET r == at["pooled"]
        s == Head(r.todo)
    IN
    /\ r.pc = "meta" /\ r.todo # <<>>
    /\ IF ~verdict.ok THEN caRulesFirst("pooled", r, Fail(verdict, s))
       ELSE Moves("pooled", [r EXCEPT !.todo = Tail(@)])
fetchSecrets(verdict) ==
    LET r == at["pooled"]
        s == Head(r.todo)
    IN
    /\ r.pc = "fetch" /\ r.todo # <<>>
    /\ IF ~verdict.ok THEN caRulesFirst("pooled", r, Fail(verdict, s))
       ELSE Moves("pooled", [r EXCEPT !.got[s] = store[s], !.todo = Tail(@)])
CARules(verdict) ==
    LET r == at["pooled"] IN
    /\ r.pc = "rules"
    /\ IF verdict.ok THEN Ends("pooled", [r EXCEPT !.passed = TRUE], r.pending)
       ELSE Ends("pooled", r, Fail(verdict, caSecretUse))

-----------------------------------------------------------------------------
(* Building *)

\* The data of a reference: nothing for none, "not read" outside the list.
data(got, ref) == IF ref \in {Nil, ""} THEN Unread ELSE got[ref]
NotRead(got, ref) == ref \notin {Nil, ""} /\ got[ref] = Unread

resolveCAPEM(got) ==
    CASE HasBundle -> [from |-> "bundle", v |-> 0, cert |-> spec.bundle = "cert"]
      [] caSecretUse = Nil -> NoCA
      [] OTHER -> [from |-> caSecretUse, v |-> data(got, caSecretUse).v,
                   cert |-> data(got, caSecretUse).ca = "cert"]

UsesOwn == spec.type \in {"postgres", "bigquery", "mongodb"}
\* Kafka, git and nats credentials replace those of spec.secretRef.
Override == CASE kafkaSecretRef # Nil -> kafkaSecretRef
              [] gitAuthSecretRef # Nil -> gitAuthSecretRef
              [] natsSecretRef # Nil -> natsSecretRef
              [] OTHER -> spec.secretRef
buildContextFromSecrets(got) ==
    LET refs == {caSecretUse, spec.secretRef, databaseSecretRef, Override}
        unread == {ref \in refs : NotRead(got, ref)}
    IN
    IF ~CheckCASources THEN BothSources
    ELSE IF unread # {} THEN Fail(Retryable("not read"), CHOOSE ref \in unread : TRUE)
    ELSE IF caSecretUse # Nil /\ ~SelectCAKey(data(got, caSecretUse)).ok
    THEN Fail(SelectCAKey(data(got, caSecretUse)), caSecretUse)
    ELSE [NoOutcome EXCEPT !.ok = TRUE, !.ca = resolveCAPEM(got),
                           !.cred = data(got, IF UsesOwn THEN databaseSecretRef ELSE Override)]

ConnectionString(x) == CHOOSE c \in x.cred : TRUE
dsnFromSecret(x) == IF x.cred = {} THEN Retryable("credentials") ELSE Builds({})
uriFromSecret(x) == IF x.cred = {} THEN Retryable("credentials") ELSE Builds({})
credentialsJSONFromSecret(x) == IF x.cred = {} THEN Retryable("credentials") ELSE Builds({})
\* spec.complete: the other fields the type requires are not blank.
postgresConfigFromSpec(x) ==
    IF spec.own \in {Nil, ""} \/ ~spec.complete THEN Retryable("spec") ELSE dsnFromSecret(x)
mongodbConfigFromSpec(x) ==
    IF spec.own \in {Nil, ""} \/ ~spec.complete THEN Retryable("spec") ELSE uriFromSecret(x)
bigqueryConfigFromSpec(x) ==
    IF ~spec.complete THEN Retryable("spec")
    ELSE IF spec.own = Nil THEN Builds({}) ELSE credentialsJSONFromSecret(x)
kafkaConfigFromSpec == IF spec.complete THEN Builds({}) ELSE Retryable("spec")
natsConfigFromSpec == IF spec.complete THEN Builds({}) ELSE Retryable("spec")
gitConfigFromSpec ==
    IF spec.endpoint = "" \/ ~spec.complete THEN Retryable("spec") ELSE Builds({})
gitlabConfigFromSpec ==
    IF spec.endpoint \notin {"http", "https"} \/ ~spec.complete THEN Retryable("spec")
    ELSE Builds({})
localConfigFromSpec == IF spec.endpoint = "" THEN Retryable("spec") ELSE Builds({})
Then(verdict, next) == IF verdict.ok THEN next ELSE verdict

gitNewBackend(ca) ==
    LET built == Then(gitConfigFromSpec,
                      FromSpec(spec.insecure, ca, spec.endpoint = "https", dep.host))
    IN [built EXCEPT !.terminal = ~built.ok]
gitlabNewBackend(ca) ==
    Then(gitlabConfigFromSpec, FromSpec(spec.insecure, ca, spec.endpoint = "https", dep.host))
s3NewBackend(ca) ==
    Then(s3ConfigFromSpec(spec.endpoint, ca), newClient(spec.endpoint, ca, dep.host))
gcsNewBackend(ca) == s3NewBackend(ca)
newPostgresBackend(ca, x) ==
    Then(postgresConfigFromSpec(x), poolConfig(ConnectionString(x), ca, dep.host))
newMongoBackend(ca, x) ==
    Then(mongodbConfigFromSpec(x), clientOptions(ConnectionString(x), ca))
\* BigQuery is not given the CA.
newBigQueryBackend(x) ==
    Then(bigqueryConfigFromSpec(x), Builds({Conn(TRUE, FALSE, FALSE, NoCA)}))
kafkaNewBackend(ca) == Then(kafkaConfigFromSpec, FromSpec(spec.insecure, ca, FALSE, dep.host))
natsNewBackend(ca) == Then(natsConfigFromSpec, FromSpec(spec.insecure, ca, FALSE, dep.host))

\* Registry.NewBackend
NewBackend(ca, x) ==
    CASE spec.type = "git" -> gitNewBackend(ca)
      [] spec.type = "gitlab" -> gitlabNewBackend(ca)
      [] spec.type = "s3" -> s3NewBackend(ca)
      [] spec.type = "gcs" -> gcsNewBackend(ca)
      [] spec.type = "local" -> localConfigFromSpec
      [] spec.type = "postgres" -> newPostgresBackend(ca, x)
      [] spec.type = "mongodb" -> newMongoBackend(ca, x)
      [] spec.type = "bigquery" -> newBigQueryBackend(x)
      [] spec.type = "kafka" -> kafkaNewBackend(ca)
      [] spec.type = "nats" -> natsNewBackend(ca)
      [] OTHER -> Terminal("unknown type")

\* All is read: the context, then the backend.
Build(p) ==
    LET r == at[p]
        c == buildContextFromSecrets(r.got)
        b == NewBackend(c.ca, c.cred)
    IN
    /\ r.pc \in {"read", "fetch"} /\ r.todo = <<>> /\ UNCHANGED faults
    /\ IF ~c.ok THEN Ends(p, r, c)
       ELSE Ends(p, [r EXCEPT !.passed = TRUE],
                 [c EXCEPT !.ok = b.ok, !.why = b.why, !.terminal = b.terminal, !.conns = b.conns])
MetaRead ==
    /\ at["pooled"].pc = "meta" /\ at["pooled"].todo = <<>> /\ UNCHANGED faults
    /\ Moves("pooled", [at["pooled"] EXCEPT !.pc = "fetch", !.todo = referencedSecretRefs])

-----------------------------------------------------------------------------
Meta(x) == IF x.st = "missing" THEN Retryable("not found") ELSE Builds({})
Reads ==
    /\ \/ ReadCA(checkCASecret(store[caSecretUse]))
       \/ ReadNext(getSecret(store[Head(at["direct"].todo)]))
       \/ secretMeta(Meta(store[Head(at["pooled"].todo)]))
       \/ fetchSecrets(getSecret(store[Head(at["pooled"].todo)]))
       \/ CARules(checkCASecret(store[caSecretUse]))
    /\ UNCHANGED faults

\* A GET times out or is refused.
ReadError ==
    LET e == Retryable("read") IN
    /\ faults < dep.faults /\ faults' = faults + 1
    /\ ReadCA(e) \/ ReadNext(e) \/ secretMeta(e) \/ fetchSecrets(e) \/ CARules(e)

WriteSecret(s) ==
    /\ edits < dep.edits /\ \E p \in Paths : at[p].pc # "done"
    /\ \E x \in Contents :
         /\ [st |-> store[s].st, ca |-> store[s].ca, cred |-> store[s].cred] # x
         /\ store' = [store EXCEPT ![s] = [st |-> x.st, ca |-> x.ca, cred |-> x.cred, v |-> @.v + 1]]
    /\ edits' = edits + 1
    /\ UNCHANGED <<dep, at, faults>>

Next ==
    \/ BuildContextFromSpec \/ acquireBackendWithReader \/ MetaRead
    \/ Reads \/ ReadError
    \/ \E p \in Paths : Build(p)
    \/ \E s \in Secrets : WriteSecret(s)
Spec == Init /\ [][Next]_vars

-----------------------------------------------------------------------------
(* Properties *)

\* A build needs no Secret that referencedSecretRefs does not list, so the
\* pool key covers every Secret a backend was built from: no build ends with
\* "was not read for the build" (buildContextFromSecrets).
ListedIsEnough == \A p \in Paths : at[p].out.why # "not read"

\* A build that fails for anything but the CA has applied the CA rules first,
\* on both paths, whatever was written in between: a CA Secret that is missing
\* or has no CA key is never hidden behind a credential Secret that is
\* (checkCASecret, caRulesFirst).
CARulesFirst ==
    \A p \in Paths :
       /\ at[p].pc = "done" /\ ~at[p].out.ok /\ CheckCASources
       /\ caSecretUse # Nil /\ at[p].out.of # caSecretUse
       => at[p].passed

\* The two paths come to the same verdict, and to the same connections and
\* credentials, when nothing is written and no GET fails.
PathsAgree ==
    (edits = 0 /\ faults = 0 /\ \A p \in Paths : at[p].pc = "done")
    => LET d == at["direct"].out
           q == at["pooled"].out
       IN d.ok = q.ok /\ d.terminal = q.terminal /\ d.conns = q.conns
          /\ (d.ok => d.ca = q.ca /\ d.cred = q.cred)

CAIsUsed(out) ==
    /\ \A c \in out.conns : c.tls /\ c.roots = out.ca /\ (c.skip => c.chain)
    /\ IsSet(out.ca) /\ out.ca.from = IF HasBundle THEN "bundle" ELSE spec.caRef
HostNameIsVerified(out) ==
    \/ spec.type # "postgres"
    \/ LET settings == connStringSettings(ConnectionString(out.cred))
           svc == serviceSettings(settings, dep.host)
       IN FirstSet(settings.sslmode, svc.sslmode, dep.host.sslmode) # Unset
    \/ \A c \in out.conns : ~c.skip

\* A CA in spec.tls is never silently without effect: every connection of a
\* backend that is built uses TLS and verifies the server's chain against that
\* CA, or the build fails.  BigQuery and local files ignore it, git over plain
\* http has nothing to verify, and insecureSkipVerify is the operator's choice.
\* With no sslmode anywhere postgres verifies the host name too.
CATakesEffect ==
    \A p \in Paths :
       /\ at[p].out.ok /\ (HasBundle \/ spec.caRef # Nil) /\ ~spec.insecure
       /\ spec.type \notin {"bigquery", "local"}
       /\ spec.type \in {"git", "gitlab"} => spec.endpoint = "https"
       => CAIsUsed(at[p].out) /\ HostNameIsVerified(at[p].out)

\* A backend is built with the credentials of the reference that its type
\* says: a database's own, the type's own in place of spec.secretRef for kafka,
\* nats and git, spec.secretRef for the rest, and never from a Secret without data.
CredentialsAreTheSpecs ==
    \A p \in Paths :
       LET ref == IF spec.type \in {"postgres", "bigquery", "mongodb"} THEN spec.own
                  ELSE IF spec.type \in {"kafka", "nats", "git"} /\ spec.own # Nil THEN spec.own
                  ELSE spec.secretRef
       IN at[p].out.ok => /\ at[p].out.cred = data(at[p].got, ref)
                          /\ ref \notin {Nil, ""} => ~SecretDataEmpty(at[p].out.cred)
=============================================================================
