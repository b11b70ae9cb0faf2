----------------------------- MODULE SinkTrust ------------------------------
(***************************************************************************)
(* What a sink backend is built from: which connections it will open,      *)
(* whether they use TLS and which CA they trust, given the sink's spec,    *)
(* the CA and credentials that were read for it, and the process it runs   *)
(* in.  Connection strings are the settings they hold, in their order;     *)
(* their spelling (quoting, escapes) is left out.                          *)
(***************************************************************************)
EXTENDS Naturals, Sequences, FiniteSets, SequencesExt

\* A CA: where it was read, at which version, and whether it holds a certificate.
NoCA == [from |-> "none", v |-> 0, cert |-> FALSE]
OtherCA == [from |-> "other", v |-> 0, cert |-> TRUE]
IsSet(ca) == ca # NoCA

\* A connection: TLS or not, verification skipped, chain checked by a callback.
Conn(tls, skip, chain, roots) == [tls |-> tls, skip |-> skip, chain |-> chain, roots |-> roots]
PlainText == Conn(FALSE, FALSE, FALSE, NoCA)

\* What a constructor returns.
Builds(conns) == [ok |-> TRUE, why |-> "", terminal |-> FALSE, conns |-> conns]
Retryable(why) == [ok |-> FALSE, why |-> why, terminal |-> FALSE, conns |-> {}]
Terminal(why) == [ok |-> FALSE, why |-> why, terminal |-> TRUE, conns |-> {}]

AppendedPool(ca) == IF ca.cert THEN Builds({}) ELSE Terminal("no certificate")

-----------------------------------------------------------------------------
(* postgres: a DSN is [url, pairs]; a pair is [k, v].  host is the          *)
(* process: PGSSLMODE, PGSSLROOTCERT and PGSERVICE, the service file's      *)
(* entry, ~/.postgresql/root.crt.                                           *)

Unset == "unset"
LastOf(dsn, k) == LET at == {i \in 1..Len(dsn.pairs) : dsn.pairs[i].k = k}
                  IN IF at = {} THEN 0 ELSE CHOOSE i \in at : \A j \in at : j <= i
ValueOf(dsn, k) == IF LastOf(dsn, k) = 0 THEN Unset ELSE dsn.pairs[LastOf(dsn, k)].v

\* The last occurrence of a key wins; in a URL ssl=true means sslmode=require.
connStringSettings(dsn) ==
    [sslmode |-> IF /\ dsn.url /\ LastOf(dsn, "ssl") > LastOf(dsn, "sslmode")
                    /\ ValueOf(dsn, "ssl") = "true"
                 THEN "require" ELSE ValueOf(dsn, "sslmode"),
     sslrootcert |-> ValueOf(dsn, "sslrootcert"),
     service |-> ValueOf(dsn, "service")]

NoEntry == [sslmode |-> Unset, sslrootcert |-> Unset]
Selected(settings, host) == settings.service # Unset \/ host.service
\* An unreadable file or a missing entry is left to pgx, which refuses it.
serviceSettings(settings, host) ==
    IF Selected(settings, host) /\ host.hasEntry THEN host.entry ELSE NoEntry

rootCertSource(settings, svc, host) ==
    \/ settings.sslrootcert \notin {Unset, ""}
    \/ svc.sslrootcert # Unset
    \/ host.rootcert \/ host.home

\* In front of the DSN's own keys, so that a later one still wins.
withSSLMode(dsn, mode) == [dsn EXCEPT !.pairs = <<[k |-> "sslmode", v |-> mode]>> \o @]

validSSLModes == {"disable", "allow", "prefer", "require", "verify-ca", "verify-full"}
WeakModes == {"", "disable", "allow", "prefer"}
FirstSet(a, b, c) == IF a # Unset THEN a ELSE IF b # Unset THEN b ELSE c

caDSN(dsn, host) ==
    LET settings == connStringSettings(dsn)
        svc == serviceSettings(settings, host)
        mode == FirstSet(settings.sslmode, svc.sslmode, host.sslmode)
    IN
    IF rootCertSource(settings, svc, host)
    THEN [verdict |-> Terminal("root conflict"), dsn |-> dsn, full |-> FALSE]
    ELSE IF mode = Unset
    THEN [verdict |-> Builds({}), dsn |-> withSSLMode(dsn, "verify-full"), full |-> TRUE]
    ELSE IF mode \in WeakModes \/ mode \notin validSSLModes
    THEN [verdict |-> Terminal("weak sslmode"), dsn |-> dsn, full |-> FALSE]
    ELSE [verdict |-> Builds({}), dsn |-> withSSLMode(dsn, mode), full |-> mode = "verify-full"]

\* pgx: the connections it would try, the fallback of allow and prefer too.
ParseConfig(dsn, host) ==
    LET settings == connStringSettings(dsn)
        svc == serviceSettings(settings, host)
        mode == FirstSet(settings.sslmode, svc.sslmode, host.sslmode)
        cert == FirstSet(settings.sslrootcert, svc.sslrootcert,
                         IF host.rootcert \/ host.home THEN "file" ELSE "")
        roots == IF cert = "" THEN NoCA ELSE OtherCA
    IN
    CASE Selected(settings, host) /\ ~host.hasEntry -> Retryable("parse")
      [] mode = "disable" -> Builds({PlainText})
      [] mode \in {"allow", "prefer", "", Unset} ->
            Builds({PlainText, Conn(TRUE, TRUE, FALSE, roots)})
      [] mode = "require" -> Builds({Conn(TRUE, TRUE, cert # "", roots)})
      [] mode = "verify-ca" -> Builds({Conn(TRUE, TRUE, TRUE, roots)})
      [] mode = "verify-full" -> Builds({Conn(TRUE, FALSE, FALSE, roots)})
      [] OTHER -> Retryable("parse")

\* Mutant: a connection that skips verification gets no chain check.
applyCA_NoChainCheck(conns, ca, full) ==
    IF \E c \in conns : ~c.tls THEN Terminal("weak sslmode")
    ELSE IF \E c \in conns : IsSet(c.roots) THEN Terminal("root conflict")
    ELSE Builds({[c EXCEPT !.roots = ca] : c \in conns})

\* What caDSN should have refused is refused again on what pgx parsed;
\* require gets the chain check of verify-ca.
applyCA(conns, ca, full) ==
    IF \E c \in conns : ~c.tls THEN Terminal("weak sslmode")
    ELSE IF \E c \in conns : IsSet(c.roots) THEN Terminal("root conflict")
    ELSE IF full /\ \E c \in conns : c.skip THEN Terminal("weak sslmode")
    ELSE Builds({[c EXCEPT !.roots = ca, !.chain = c.skip \/ @] : c \in conns})

poolConfig(dsn, ca, host) ==
    IF ~IsSet(ca) THEN ParseConfig(dsn, host)
    ELSE IF ~AppendedPool(ca).ok THEN AppendedPool(ca)
    ELSE LET pre == caDSN(dsn, host)
             parsed == ParseConfig(pre.dsn, host)
         IN IF ~pre.verdict.ok THEN pre.verdict
            ELSE IF ~parsed.ok THEN parsed
            ELSE applyCA(parsed.conns, ca, pre.full)

-----------------------------------------------------------------------------
(* mongodb: a URI is [srv, opts], opts a sequence of [k, v].                *)

\* The options that turn TLS on by being there.
tlsOnKeys == {"tlsCAFile", "tlsCertificateKeyFile"}
Fresh(srv) == [bad |-> FALSE, tls |-> srv, key |-> "", caFile |-> FALSE, insecure |-> FALSE,
               invalid |-> FALSE]

\* In the order of the options: tls and ssl must agree, the last value wins,
\* and a later tls=false turns off what an option turned on.
readURITLS(uri) ==
    LET read(u, o) ==
          CASE o.k = "tls" -> [u EXCEPT !.bad = @ \/ (u.key # "" /\ u.key # o.v),
                                        !.tls = o.v = "true", !.key = o.v]
            [] o.k = "tlsInsecure" -> [u EXCEPT !.insecure = o.v = "true"]
            [] o.k = "tlsAllowInvalid" -> [u EXCEPT !.invalid = @ \/ o.v # "false"]
            [] OTHER -> [u EXCEPT !.caFile = @ \/ o.k = "tlsCAFile",
                                  !.tls = @ \/ o.k \in tlsOnKeys]
    IN FoldLeft(read, Fresh(uri.srv), uri.opts)

checkCAURI(uri) ==
    LET u == readURITLS(uri) IN
    CASE u.bad -> Terminal("invalid URI")
      [] u.caFile -> Terminal("CA file")
      [] ~u.tls -> Terminal("TLS off")
      [] u.insecure \/ u.invalid -> Terminal("insecure")
      [] OTHER -> Builds({})

\* The driver: it knows no tlsAllowInvalid options.
ApplyURI(uri) ==
    LET offs == {i \in 1..Len(uri.opts) : uri.opts[i].k = "tls"}
        ons == {i \in 1..Len(uri.opts) : uri.opts[i].k \in tlsOnKeys}
        skips == {i \in 1..Len(uri.opts) : uri.opts[i].k = "tlsInsecure"}
        lastIs(S, v) == S # {} /\ uri.opts[CHOOSE i \in S : \A j \in S : j <= i].v = v
        on == \/ lastIs(offs, "true")
              \/ \E i \in ons : \A j \in offs : j < i
              \/ uri.srv /\ offs = {}
    IN IF \E i, j \in offs : uri.opts[i].v # uri.opts[j].v THEN Retryable("parse")
       ELSE IF ~on THEN Builds({PlainText})
       ELSE Builds({Conn(TRUE, lastIs(skips, "true"), FALSE,
                         IF \E i \in ons : uri.opts[i].k = "tlsCAFile" THEN OtherCA ELSE NoCA)})

checkDriverTLS(c) == CASE ~c.tls -> Terminal("TLS off")
                       [] IsSet(c.roots) -> Terminal("CA file")
                       [] c.skip -> Terminal("insecure")
                       [] OTHER -> Builds({})

clientOptions(uri, ca) ==
    LET built == ApplyURI(uri) IN
    IF ~IsSet(ca) THEN built
    ELSE IF ~checkCAURI(uri).ok THEN checkCAURI(uri)
    ELSE IF ~AppendedPool(ca).ok THEN AppendedPool(ca)
    ELSE IF ~built.ok THEN built
    ELSE IF \E c \in built.conns : ~checkDriverTLS(c).ok
    THEN checkDriverTLS(CHOOSE c \in built.conns : TRUE)
    ELSE Builds({[c EXCEPT !.roots = ca] : c \in built.conns})

-----------------------------------------------------------------------------
(* The others take their TLS settings from spec.tls alone.                  *)

\* tls is [insecure, bundle, ref, hasRef]; kafka and nats stay plaintext
\* without TLS settings, git's scheme decides.
FromSpec(insecure, ca, byScheme, host) ==
    IF insecure /\ ~host.allowInsecure THEN Retryable("insecure")
    ELSE IF IsSet(ca) /\ ~ca.cert THEN Retryable("no certificate")
    ELSE Builds({IF insecure \/ IsSet(ca) \/ byScheme THEN Conn(TRUE, insecure, FALSE, ca)
                 ELSE PlainText})

\* An endpoint is its scheme; "s3" leaves the choice to the SDK.
requireHTTPS(scheme) == scheme \in {"https", "s3"}
s3ConfigFromSpec(endpoint, ca) ==
    IF endpoint = "" THEN Retryable("endpoint")
    ELSE IF ~IsSet(ca) THEN Builds({})
    ELSE IF ~ca.cert THEN Terminal("no certificate")
    ELSE IF requireHTTPS(endpoint) THEN Builds({}) ELSE Terminal("plain http")

\* For s3:// the SDK resolves the endpoint; its scheme is checked on the client.
newClient(endpoint, ca, host) ==
    LET scheme == IF endpoint = "s3" THEN host.sdkEndpoint ELSE endpoint
    IN IF IsSet(ca) /\ ~requireHTTPS(scheme) THEN Terminal("plain http")
       ELSE IF scheme = "http" THEN Builds({PlainText})
       ELSE Builds({Conn(TRUE, FALSE, FALSE, ca)})
=============================================================================
