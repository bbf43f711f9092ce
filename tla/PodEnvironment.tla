---------------------------- MODULE PodEnvironment ----------------------------
(***************************************************************************)
(* The environment of the operator's containers, as config_env.go and its  *)
(* neighbours translate a manifest m into it.  Kubernetes honours the last *)
(* of several entries of one name.                                         *)
(*                                                                         *)
(* An entry holds a value, a key of a Secret or the path of a file.  Of    *)
(* the settings that are passed on as they are, each group is stood for by *)
(* those validation insists on.  The files of a certificate are "CERT",    *)
(* "KEY" and "CA", whatever the keys of the Secret are called.             *)
(***************************************************************************)
EXTENDS Naturals, Sequences, SpecSwitches

\* A Secret the user has named.
UserObject == "user"

Entry(n, from, at, value) == [name |-> n, from |-> from, at |-> at, value |-> value]
Number(n, value) == Entry(n, "value", <<>>, value)
Value(n) == Number(n, 0)
KeyOf(n, secret) == Entry(n, "secret", <<secret>>, 0)
File(n, dir, file) == Entry(n, "file", <<dir, file>>, 0)
FromUser(n) == Entry(n, "user", <<>>, 0)

When(condition, entries) == IF condition THEN entries ELSE <<>>

Values(names) == [i \in DOMAIN names |-> Value(names[i])]

\* The files of the keys that are given, each under its own name.
Files(names, dir, keys) ==
  When("CERT" \in keys, <<File(names.CERT, dir, "CERT")>>)
  \o When("KEY" \in keys, <<File(names.KEY, dir, "KEY")>>)
  \o When("CA" \in keys, <<File(names.CA, dir, "CA")>>)

\* Where a Secret volume of Bindplane itself is mounted.
TLSDir(volume) ==
  CASE volume = "ldap-tls"              -> "/etc/bindplane/ldap-tls"
    [] volume = "network-tls"           -> "/etc/bindplane/network-tls"
    [] volume = "postgres-tls"          -> "/etc/bindplane/postgres-tls"
    [] volume = "tsdb-remote-write-tls" -> "/etc/bindplane/tsdb-remote-write-tls"
    [] volume = "nats-tls"              -> "/etc/bindplane/nats-tls"
    [] volume = "transform-agent-tls"   -> "/etc/bindplane/transform-agent-tls"

\* secretOrValue
SecretOrValue(n, how) ==
  IF how \in {"ref", "both"} THEN <<KeyOf(n, UserObject)>> ELSE When(how = "plain", <<Value(n)>>)

-----------------------------------------------------------------------------
(* What the manifest switches on                                           *)

Switched(m) ==
  {s \in AllSwitches :
     CASE s = "remote"       -> m.tsdb # "local"
       [] s = "serverTLS"    -> m.serverTLS.certManager
       [] s = "serverSecret" -> m.serverTLS.secret
       [] s = "serverCA"     -> m.serverTLS.ca
       [] s = "clientTLS"    -> m.clientTLS.certManager
       [] s = "clientSecret" -> m.clientTLS.secret
       [] s = "natsTLS"      -> m.natsTLS
       [] s = "agentTLS"     -> m.agentTLS = "named"
       [] s = "userSession"  -> m.session # "none"
       [] s = "userStatus"   -> m.statusKeys # "none" \/ m.statusRef
       [] s = "noStatus"     -> m.noStatus
       [] OTHER              -> FALSE}

-----------------------------------------------------------------------------
(* spec.config                                                             *)

LDAPFiles ==
  [CERT |-> "BINDPLANE_LDAP_TLS_CERT", KEY |-> "BINDPLANE_LDAP_TLS_KEY",
   CA |-> "BINDPLANE_LDAP_TLS_CA"]

\* getLDAPEnvVars; the files do not depend on the name of the Secret.
LDAPEnv(m) ==
  When(m.ldap.server, <<Value("BINDPLANE_LDAP_SERVER")>>)
  \o When(m.ldap.baseDN, <<Value("BINDPLANE_LDAP_BASE_DN")>>)
  \o SecretOrValue("BINDPLANE_LDAP_BIND_USER", m.ldap.bindUser)
  \o SecretOrValue("BINDPLANE_LDAP_BIND_PASSWORD", m.ldap.bindPassword)
  \o Files(LDAPFiles, TLSDir("ldap-tls"), m.ldap.tls.keys)

\* getOIDCEnvVars, with getOIDCCustomClaimsEnvVars among what is passed on.
OIDCEnv(m) ==
  SecretOrValue("BINDPLANE_OIDC_OAUTH2_CLIENT_ID", m.oidc.clientID)
  \o SecretOrValue("BINDPLANE_OIDC_OAUTH2_CLIENT_SECRET", m.oidc.clientSecret)
  \o When(m.oidc.issuer, <<Value("BINDPLANE_OIDC_ISSUER")>>)

\* getAuthConfigEnvVars
AuthEnv(m) ==
  When(m.authType # "", <<Value("BINDPLANE_AUTH_TYPE")>>)
  \o SecretOrValue("BINDPLANE_USERNAME", m.username)
  \o SecretOrValue("BINDPLANE_PASSWORD", m.password)
  \o LDAPEnv(m) \o OIDCEnv(m)

\* The session secret of the user, or else the generated one.
SessionEnv(m) ==
  IF m.session # "none" THEN SecretOrValue("BINDPLANE_SESSION_SECRET", m.session)
  ELSE <<KeyOf("BINDPLANE_SESSION_SECRET", "sessionSecret")>>

NetworkFiles ==
  [CERT |-> "BINDPLANE_TLS_CERT", KEY |-> "BINDPLANE_TLS_KEY",
   CA |-> "BINDPLANE_TLS_CA"]

\* Mutant: the paths are set as soon as there are keys.
FilesWithoutSecret(m) ==
  Files(NetworkFiles, TLSDir("network-tls"), m.network.keys)
  \o <<Value("BINDPLANE_REMOTE_URL")>>

\* What makes a volume of network TLS.
NetworkTLS(m) == m.network.secret /\ {"CERT", "KEY"} \subseteq m.network.keys

\* getNetworkConfigEnvVars
NetworkEnv(m) ==
  When(NetworkTLS(m), Files(NetworkFiles, TLSDir("network-tls"), m.network.keys))
  \o <<Value("BINDPLANE_REMOTE_URL")>>

PostgresTLS(m) == m.postgres.tls.secret /\ "CA" \in m.postgres.tls.keys

\* getPostgresConfigEnvVars
PostgresEnv(m) ==
  LET dir == TLSDir("postgres-tls") IN
  When(m.postgres.host, <<Value("BINDPLANE_POSTGRES_HOST")>>)
  \o <<Value("BINDPLANE_POSTGRES_SSL_MODE")>>
  \o When(PostgresTLS(m),
       <<File("BINDPLANE_POSTGRES_SSL_ROOT_CERT", dir, "CA")>>
       \o When("CERT" \in m.postgres.tls.keys, <<File("BINDPLANE_POSTGRES_SSL_CERT", dir, "CERT")>>)
       \o When("KEY" \in m.postgres.tls.keys, <<File("BINDPLANE_POSTGRES_SSL_KEY", dir, "KEY")>>))
  \o SecretOrValue("BINDPLANE_POSTGRES_USERNAME", m.postgres.username)
  \o SecretOrValue("BINDPLANE_POSTGRES_PASSWORD", m.postgres.password)

\* getTracingConfigEnvVars
TracingEnv(m) ==
  When(m.tracing.type # "", <<Value("BINDPLANE_TRACING_TYPE")>>)
  \o When(m.tracing.type = "otlp" /\ m.tracing.endpoint, <<Value("BINDPLANE_TRACING_OTLP_ENDPOINT")>>)

\* getMetricsConfigEnvVars, getMetricsOTLPKeepAliveEnvVars; without a type it is
\* prometheus.
MetricsEnv(m) ==
  Values(<<"BINDPLANE_METRICS_TYPE", "BINDPLANE_METRICS_INTERVAL">>)
  \o IF m.metrics.type = "otlp"
     THEN When(m.metrics.endpoint, <<Value("BINDPLANE_METRICS_OTLP_ENDPOINT")>>)
     ELSE <<Value("BINDPLANE_METRICS_PROMETHEUS_ENDPOINT")>>
          \o SecretOrValue("BINDPLANE_METRICS_PROMETHEUS_PASSWORD", m.metrics.password)

DefaultConnections == 10

\* Mutant: OpAMP's own limit is everybody's.
OverrideForAll(m) ==
  <<Value("BINDPLANE_MAX_CONCURRENCY"),
    Number("BINDPLANE_AGENTS_MAX_SIMULTANEOUS_CONNECTIONS",
           IF m.opampConnections > 0 THEN m.opampConnections ELSE DefaultConnections),
    Value("BINDPLANE_AUDIT_TRAIL_RETENTION_DAYS")>>

\* getMiscConfigEnvVars
MiscEnv(m) ==
  <<Value("BINDPLANE_MAX_CONCURRENCY"),
    Number("BINDPLANE_AGENTS_MAX_SIMULTANEOUS_CONNECTIONS",
           IF m.connections > 0 THEN m.connections ELSE DefaultConnections),
    Value("BINDPLANE_AUDIT_TRAIL_RETENTION_DAYS")>>

\* getBindplaneConfigEnvVars; getStoreConfigEnvVars and getAgentsConfigEnvVars pass on.
ConfigEnv(m) ==
  SecretOrValue("BINDPLANE_LICENSE", m.license)
  \o AuthEnv(m) \o SessionEnv(m) \o NetworkEnv(m)
  \o <<Value("BINDPLANE_STORE_TYPE")>> \o PostgresEnv(m)
  \o TracingEnv(m) \o MetricsEnv(m) \o MiscEnv(m)
  \o When(m.syncInterval > 0, <<Value("BINDPLANE_AGENT_VERSIONS_SYNC_INTERVAL")>>)

-----------------------------------------------------------------------------
(* The other parts of the system                                           *)

TSDBClientFiles ==
  [CERT |-> "BINDPLANE_PROMETHEUS_TLS_CERT", KEY |-> "BINDPLANE_PROMETHEUS_TLS_KEY",
   CA |-> "BINDPLANE_PROMETHEUS_TLS_CA"]

\* getTSDBRemoteWriteTLSEnvVars
TSDBClientTLSEnv(m) ==
  When(ClientTLS(Switched(m)) # "none",
       <<Value("BINDPLANE_PROMETHEUS_ENABLE_TLS")>>
       \o Files(TSDBClientFiles, TLSDir("tsdb-remote-write-tls"), {"CERT", "KEY", "CA"}))

\* Mutant: the credentials are passed whatever TSDB there is.
LocalCredentials(m) ==
  Values(<<"BINDPLANE_PROMETHEUS_ENABLE_REMOTE", "BINDPLANE_PROMETHEUS_HOST", "BINDPLANE_PROMETHEUS_PORT">>)
  \o <<KeyOf("BINDPLANE_PROMETHEUS_AUTH_USERNAME", "basicAuth"),
       KeyOf("BINDPLANE_PROMETHEUS_AUTH_PASSWORD", "basicAuth")>>
  \o TSDBClientTLSEnv(m)

\* getTSDBEnvVars
TSDBEnv(m) ==
  Values(<<"BINDPLANE_PROMETHEUS_ENABLE_REMOTE", "BINDPLANE_PROMETHEUS_HOST", "BINDPLANE_PROMETHEUS_PORT">>)
  \o (IF Remote(Switched(m))
      THEN When(m.tsdb = "remoteWrite",
                Values(<<"BINDPLANE_PROMETHEUS_REMOTE_WRITE_HOST", "BINDPLANE_PROMETHEUS_REMOTE_WRITE_PORT",
                         "BINDPLANE_PROMETHEUS_REMOTE_WRITE_ENDPOINT">>))
      ELSE <<Value("BINDPLANE_PROMETHEUS_AUTH_TYPE"),
             KeyOf("BINDPLANE_PROMETHEUS_AUTH_USERNAME", "basicAuth"),
             KeyOf("BINDPLANE_PROMETHEUS_AUTH_PASSWORD", "basicAuth")>>)
  \o TSDBClientTLSEnv(m)

NATSFiles ==
  [CERT |-> "BINDPLANE_NATS_TLS_CERT", KEY |-> "BINDPLANE_NATS_TLS_KEY",
   CA |-> "BINDPLANE_NATS_TLS_CA"]

\* getNatsTLSEnvVars
NATSTLSEnv(m) ==
  When(m.natsTLS, <<Value("BINDPLANE_NATS_ENABLE_TLS")>>
                  \o Files(NATSFiles, TLSDir("nats-tls"), {"CERT", "KEY", "CA"}))

\* getNatsClientEnvVars
NATSClientEnv(m) ==
  Values(<<"BINDPLANE_EVENT_BUS_TYPE", "BINDPLANE_NATS_CLIENT_NAME", "BINDPLANE_NATS_CLIENT_ENDPOINT",
           "BINDPLANE_NATS_CLIENT_SUBJECT">>)
  \o NATSTLSEnv(m)

\* getNatsEnvVars, getNatsClusterRoutes: a route to every NATS pod.
NATSServerEnv(m) ==
  Values(<<"BINDPLANE_MODE", "BINDPLANE_EVENT_BUS_TYPE", "BINDPLANE_NATS_SERVER_ENABLE",
           "BINDPLANE_NATS_SERVER_NAME", "BINDPLANE_NATS_CLIENT_NAME", "BINDPLANE_NATS_CLIENT_ENDPOINT">>)
  \o <<Number("BINDPLANE_NATS_SERVER_CLUSTER_ROUTES", m.natsReplicas)>>
  \o NATSTLSEnv(m)

AgentFiles ==
  [CERT |-> "BINDPLANE_TRANSFORM_AGENT_TLS_CERT", KEY |-> "BINDPLANE_TRANSFORM_AGENT_TLS_KEY",
   CA |-> "BINDPLANE_TRANSFORM_AGENT_TLS_CA"]

\* getTransformAgentTLSEnvVars, getTransformAgentEnvVars
AgentTLSEnv(m) ==
  When(m.agentTLS = "named",
       Files(AgentFiles, TLSDir("transform-agent-tls"), {"CERT", "KEY", "CA"}))
AgentEnv(m) ==
  Values(<<"BINDPLANE_TRANSFORM_AGENT_ENABLE_REMOTE", "BINDPLANE_TRANSFORM_AGENT_REMOTE_AGENTS">>)

\* Those on the event bus: the Node pods, the NATS pods and the Jobs pod.
Hosts(m) == m.replicas + m.natsReplicas + 1

\* Mutant: half of them, rounded up.
HalfRoundedUp(m) == (Hosts(m) + 1) \div 2

\* defaultRequiredHosts
DefaultRequiredHosts(m) == Hosts(m) \div 2 + 1

\* getEventBusHealthEnvVars; eventBus: "none", "default" or a number of hosts given.
EventBusEnv(m) ==
  When(m.eventBus # "none",
       <<Number("BINDPLANE_EVENT_BUS_HEALTH_REQUIRED_HOSTS",
                IF m.eventBus = "default" THEN DefaultRequiredHosts(m) ELSE 1)>>)

\* getStatusEnvVars
StatusEnv(m) ==
  <<Value("BINDPLANE_STATUS_ENABLED")>>
  \o When(~m.noStatus,
       IF m.statusRef THEN <<KeyOf("BINDPLANE_STATUS_KEYS", UserObject)>>
       ELSE IF m.statusKeys # "none" THEN <<Value("BINDPLANE_STATUS_KEYS")>>
       ELSE <<KeyOf("BINDPLANE_STATUS_KEYS", "statusSecret")>>)

\* getBindplaneCommonEnvVars, getLoggingConfigEnvVars
CommonEnv(m) ==
  ConfigEnv(m) \o TSDBEnv(m) \o AgentEnv(m) \o AgentTLSEnv(m) \o StatusEnv(m)
  \o Values(<<"BINDPLANE_LOGGING_LEVEL", "BINDPLANE_LOGGING_TYPE">>)
  \o EventBusEnv(m)

\* getKubernetesEnvVars
KubernetesEnv ==
  Values(<<"KUBERNETES_NAMESPACE_NAME", "KUBERNETES_POD_NAME", "KUBERNETES_CONTAINER_NAME">>)

\* getOpAMPOverrideEnvVars
OpAMPOverride(m) ==
  When(m.opampConnections > 0,
       <<Number("BINDPLANE_AGENTS_MAX_SIMULTANEOUS_CONNECTIONS", m.opampConnections)>>)
=============================================================================
