----------------------------- MODULE SpecSwitches -----------------------------
(***************************************************************************)
(* What a Bindplane spec switches on and off, as far as the objects behind *)
(* the pods depend on it, and which of those objects it calls for: the     *)
(* conditions Reconcile puts the objects under (Backing) and the pod       *)
(* templates rely on (PodTemplates).                                       *)
(***************************************************************************)

Certificates == {"serverCert", "probeCert", "clientCert", "natsCert", "agentCert"}
GeneratedSecrets == {"sessionSecret", "statusSecret", "basicAuth"}

\* remote: spec.config.tsdb.remote.enable.  serverTLS, clientTLS, natsTLS and
\* agentTLS: a named certManager in spec.tsdb.tls, spec.config.tsdb.tls,
\* spec.config.nats.tls and spec.transformAgent.tls.  serverSecret, clientSecret:
\* a secretName in the first two; serverCA: a caKey in spec.tsdb.tls.
\* userSession, userStatus: the user brings the session secret or the status
\* keys; noStatus: spec.config.status.enabled is false.  otherIssuer: the user
\* names another issuer.
AllSwitches == {"remote", "serverTLS", "clientTLS", "natsTLS", "agentTLS", "serverSecret",
                "clientSecret", "serverCA", "userSession", "userStatus", "noStatus", "otherIssuer"}

-----------------------------------------------------------------------------
(* A spec is the set of what it switches on                               *)

Remote(c) == "remote" \in c

\* isTSDBServerCertManagerTLSEnabled and isTSDBClientTLSEnabled tell these apart.
ServerTLS(c) == IF "serverTLS" \in c THEN "certManager"
                ELSE IF "serverSecret" \in c THEN "secret" ELSE "none"
ClientTLS(c) == IF "clientTLS" \in c THEN "certManager"
                ELSE IF "clientSecret" \in c THEN "secret" ELSE "none"

\* isTSDBServerMTLSEnabled
ServerMTLS(c) ==
  \/ ServerTLS(c) = "certManager" /\ ClientTLS(c) = "certManager"
  \/ ServerTLS(c) # "certManager" /\ "serverCA" \in c

\* statusEnabled, reconcileStatusSecret: where the operator generates the keys.
OwnStatusKeys(c) == c \cap {"noStatus", "userStatus"} = {}

LocalTSDB == {"basicAuth", "webConfig", "tsdbAccount", "tsdb", "tsdbService"}

\* Mutant: with a remote TSDB its server's Certificate goes too.
WantsUnlessRemote(i, c) ==
  CASE i \in Certificates -> "serverTLS" \in c /\ ~Remote(c)
    [] i \in LocalTSDB -> ~Remote(c)
    [] OTHER -> TRUE

\* Created and kept up to date.
Wants(i, c) ==
  CASE i \in {"serverCert", "probeCert"} -> "serverTLS" \in c
    [] i = "clientCert"    -> "clientTLS" \in c
    [] i = "natsCert"      -> "natsTLS" \in c
    [] i = "agentCert"     -> "agentTLS" \in c
    [] i = "sessionSecret" -> "userSession" \notin c
    [] i = "statusSecret"  -> OwnStatusKeys(c)
    [] i \in LocalTSDB     -> ~Remote(c)
    [] OTHER               -> TRUE
=============================================================================
