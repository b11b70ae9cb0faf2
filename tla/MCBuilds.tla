------------------------------ MODULE MCBuilds ------------------------------
(***************************************************************************)
(* How a backend is built and how the pool keeps it: a behaviour is one of *)
(* SinkBuild or of BackendPool.  part tells which; the pool stays where it *)
(* starts while backends are built.                                        *)
(***************************************************************************)
EXTENDS BackendPool

VARIABLES
    part,  \* the component
    dep, store, at, edits, faults

all == <<part, vars, dep, store, at, edits, faults>>

Trust == INSTANCE SinkTrust
SinkTypes == {"git", "gitlab", "s3", "gcs", "local", "postgres", "bigquery", "mongodb",
              "kafka", "nats", "other"}
SecretNames == {"a", "b"}

PlainHost == [sslmode |-> Trust!Unset, rootcert |-> FALSE, service |-> FALSE, hasEntry |-> FALSE,
           entry |-> Trust!NoEntry, home |-> FALSE, allowInsecure |-> FALSE, sdkEndpoint |-> "https"]
Plain == [url |-> TRUE, pairs |-> <<>>, srv |-> TRUE, opts |-> <<>>]
Holds(ca, cred) == [st |-> "there", ca |-> ca, cred |-> cred]
Missing == [st |-> "missing", ca |-> "none", cred |-> {}]
Contents == {Missing, Holds("none", {}), Holds("none", {Plain}), Holds("cert", {Plain})}

SinkSpecs(types, refs, owns, cas, bundles) ==
    [type : types, secretRef : refs, own : owns, caRef : cas, bundle : bundles,
     insecure : {FALSE}, endpoint : {"https"}, complete : {TRUE}]

\* Which Secrets are read, in which order, while one is written or a GET fails.
Reading ==
    [spec : SinkSpecs({"postgres", "bigquery", "kafka", "git"}, {"nil", "a"},
                    {"nil", "", "a", "b"}, {"nil", "", "a", "b"}, {"none"}),
     host : {PlainHost}, store : [SecretNames -> {Missing, Holds("cert", {Plain})}], edits : {1}, faults : {1}]
Sources ==
    [spec : SinkSpecs(SinkTypes, {"a"}, {"nil", "b"}, {"nil", "b"}, {"none", "cert", "garbage"}),
     host : {PlainHost}, store : [SecretNames -> Contents], edits : {0}, faults : {0}]

\* What the endpoint, the settings of the spec and the process decide.
Endpoints ==
    [spec : [type : SinkTypes, secretRef : {"a"}, own : {"a"}, caRef : {"nil", "b"}, bundle : {"none"},
             insecure : BOOLEAN, endpoint : {"", "http", "https", "s3"}, complete : BOOLEAN],
     host : {[PlainHost EXCEPT !.allowInsecure = allow, !.sdkEndpoint = sdk] :
                allow \in BOOLEAN, sdk \in {"http", "https"}},
     store : {[a |-> Holds("none", {Plain}), b |-> Holds(pem, {Plain})] :
                pem \in {"cert", "garbage"}},
     edits : {0}, faults : {0}]

Modes == {"", "prefer", "require", "verify-ca", "verify-full", "bogus"}
Pairs == {[k |-> "sslmode", v |-> m] : m \in Modes}
           \cup {[k |-> "ssl", v |-> "true"], [k |-> "sslrootcert", v |-> "file"],
                 [k |-> "sslrootcert", v |-> ""], [k |-> "service", v |-> "x"]}
UpTo2(S) == {<<>>} \cup {<<p>> : p \in S} \cup {<<p, q>> : p, q \in S}
Entry(m, c) == [sslmode |-> m, sslrootcert |-> c]
Hosts ==
    {PlainHost, [PlainHost EXCEPT !.sslmode = "disable"], [PlainHost EXCEPT !.sslmode = "verify-ca"],
     [PlainHost EXCEPT !.rootcert = TRUE], [PlainHost EXCEPT !.home = TRUE], [PlainHost EXCEPT !.service = TRUE]}
    \cup {[PlainHost EXCEPT !.service = s, !.hasEntry = TRUE, !.sslmode = "verify-ca", !.entry = e] :
             s \in BOOLEAN, e \in {Entry("prefer", Trust!Unset), Entry("require", Trust!Unset),
                                   Entry(Trust!Unset, "file")}}
Holding(strings) == {[a |-> Holds("none", {c}), b |-> Missing] : c \in strings}
DSNs ==
    [spec : SinkSpecs({"postgres"}, {"nil"}, {"a"}, {"nil"}, {"none", "cert"}), host : Hosts,
     store : Holding([url : BOOLEAN, pairs : UpTo2(Pairs), srv : {FALSE}, opts : {<<>>}]),
     edits : {0}, faults : {0}]
Options == [k : {"tls", "tlsInsecure", "tlsAllowInvalid"}, v : {"true", "false"}]
             \cup [k : {"tlsCAFile", "tlsCertificateKeyFile"}, v : {"file"}]
URIs ==
    [spec : SinkSpecs({"mongodb"}, {"nil"}, {"a"}, {"nil"}, {"none", "cert", "garbage"}), host : {PlainHost},
     store : Holding([url : {FALSE}, pairs : {<<>>}, srv : BOOLEAN, opts : UpTo2(Options)]),
     edits : {0}, faults : {0}]
Deployments == <<Reading, Sources, Endpoints, DSNs, URIs>>

buildVars == <<dep, store, at, edits, faults>>

B == INSTANCE SinkBuild WITH Secrets <- SecretNames, Deployments <- Deployments, Contents <- Contents

(* The variables that are not of a component hold nothing while it runs. *)
not_pool == <<dep, store, at, edits, faults>>

Start ==
    \/ /\ part = "pool" /\ Init
       /\ dep = 0 /\ store = 0 /\ at = 0 /\ edits = 0 /\ faults = 0
    \/ /\ part = "build" /\ B!Init
       /\ Init

(* Only the variables of the component change. *)
only_build == UNCHANGED <<part, vars>>

Step ==
    \/ part = "pool" /\ Next /\ UNCHANGED <<part, not_pool>>
    \/ part = "build" /\ B!Next /\ only_build

MCFairness ==
    /\ Fairness

MCSpec == Start /\ [][Step]_all /\ MCFairness

-----------------------------------------------------------------------------
\* A build is what its spec and its Secrets say.  It needs no Secret that
\* referencedSecretRefs does not list, so the pool key covers every Secret a
\* backend was built from; the direct and the pooled path come to the same
\* verdict, connections and credentials when nothing is written and no GET
\* fails, and whatever is written in between, the CA rules come first
\* (checkCASecret, caRulesFirst); the credentials are those of the reference the
\* type says (Override); a CA in spec.tls is never silently without effect
\* (applyCA, poolConfig, FromSpec).
BuildFollowsSpec ==
    part = "build" =>
        /\ B!TypeOK
        /\ B!ListedIsEnough
        /\ B!PathsAgree
        /\ B!CARulesFirst
        /\ B!CredentialsAreTheSpecs
        /\ B!CATakesEffect
=============================================================================
