------------------------------ MODULE Validation ------------------------------
(***************************************************************************)
(* ValidateBindplane: the conditions a manifest must meet, checked by the  *)
(* admission webhook and again by every Reconcile.                         *)
(*                                                                         *)
(* A manifest is a record m of what the user writes.  An optional pointer  *)
(* that is nil reads as the empty value of its type wherever the code does *)
(* the same with both.  A value that may be given in plain or by reference *)
(* to a Secret is "none", "plain", "ref" or "both".  One component of the  *)
(* seven carries the extraEnv, extraVolumes, resources and podTemplate.    *)
(***************************************************************************)
EXTENDS Naturals, Sequences, SequencesExt

Given(how) == how # "none"

\* The user's own fields of one component are checked for all of them.
Components == {"node", "opamp", "jobs", "migrate", "nats", "transformAgent", "tsdb"}

-----------------------------------------------------------------------------
(* The name, the workloads                                                 *)

\* Mutant: the hyphen is forgotten.
NoHyphen == 63 - 15

\* maxResourceNamePrefixLen: what "-transform-agent" leaves of 63 characters.
MaxNameLength == 63 - 1 - 15

\* ValidateBindplaneName; m.name is the length of the name, of which all
\* characters are taken to be fine.
ValidName(m) == m.name \in 1..MaxNameLength

ValidReplicas(m) ==
  \A r \in {m.replicas, m.natsReplicas, m.agentReplicas} : r >= 1

\* ValidatePodDisruptionBudget: at most one of the two, a count or a percentage.
ValidBudget(m) ==
  /\ ~(Given(m.budget.min) /\ Given(m.budget.max))
  /\ "bad" \notin {m.budget.min, m.budget.max}

\* ValidateArgoRollout: a Rollout has a strategy of its own.
ValidRollout(m) == ~(m.argoRollout /\ m.strategy)

\* ValidateImageOverrides
ValidImage(m) == m.image \notin {"with space", "with scheme"}

-----------------------------------------------------------------------------
(* extraEnv, extraVolumes, extraVolumeMounts                               *)

ReservedEnv == {"KUBERNETES_NAMESPACE_NAME", "KUBERNETES_POD_NAME", "KUBERNETES_CONTAINER_NAME",
                "GOMEMLIMIT", "GOMAXPROCS"}

\* ValidateExtraEnv; extraEnv is a sequence of names.
ValidExtraEnv(m) ==
  \A i \in DOMAIN m.extraEnv :
    /\ m.extraEnv[i] \notin ReservedEnv
    /\ m.allowEnv \/ ~IsPrefix("BINDPLANE_", m.extraEnv[i])

ReservedVolumes == {"ldap-tls", "network-tls", "postgres-tls", "tsdb-remote-write-tls", "nats-tls",
                    "transform-agent-tls", "tsdb-web-config", "tsdb-tls", "tsdb-web-server-tls",
                    "tsdb-probe-client-tls", "tsdb-probe-auth"}

ReservedPaths == {"/etc/bindplane/ldap-tls", "/etc/bindplane/network-tls", "/etc/bindplane/postgres-tls",
                  "/etc/bindplane/tsdb-remote-write-tls", "/etc/bindplane/nats-tls",
                  "/etc/bindplane/transform-agent-tls", "/etc/prometheus", "/etc/tsdb-tls",
                  "/etc/tsdb-web-tls", "/etc/tsdb-probe-client", "/etc/tsdb-probe-auth", "/prometheus"}

\* <name>-tsdb-data, the data volume of the TSDB.
DataVolume == "tsdb-data"

NoneTwice(s) == \A i, j \in DOMAIN s : i # j => s[i] # s[j]

VolumeTaken(v, w) == v \in ReservedVolumes \/ (w = "tsdb" /\ v = DataVolume)

\* Mutant: a path may be used twice.
PathsMayRepeat(volumes, mounts) ==
  \A i \in DOMAIN mounts :
    /\ IsPrefix("/", mounts[i].path) /\ mounts[i].path \notin ReservedPaths
    /\ \E j \in DOMAIN volumes : volumes[j].name = mounts[i].volume

ValidExtraMounts(volumes, mounts) ==
  /\ NoneTwice([i \in DOMAIN mounts |-> mounts[i].path])
  /\ \A i \in DOMAIN mounts :
       /\ IsPrefix("/", mounts[i].path) /\ mounts[i].path \notin ReservedPaths
       /\ \E j \in DOMAIN volumes : volumes[j].name = mounts[i].volume

\* ValidateExtraVolumes, validateExtraVolumeSource; w: the component they are for.
ValidExtraVolumes(m, w) ==
  /\ NoneTwice([i \in DOMAIN m.extraVolumes |-> m.extraVolumes[i].name])
  /\ \A i \in DOMAIN m.extraVolumes :
       ~VolumeTaken(m.extraVolumes[i].name, w) /\ m.extraVolumes[i].source # "hostPath"
  /\ ValidExtraMounts(m.extraVolumes, m.extraMounts)

-----------------------------------------------------------------------------
(* spec.config                                                             *)

\* ValidateLicenseConfig: exactly one source.
ValidLicense(m) == m.license \in {"plain", "ref"}

\* ValidateStatusConfig: inline keys are UUIDs.
ValidStatus(m) == m.statusKeys # "bad"

\* validateLDAPConfig, also asked for Active Directory.
ValidLDAP(m) ==
  m.ldap.server /\ m.ldap.baseDN /\ Given(m.ldap.bindUser) /\ Given(m.ldap.bindPassword)

\* validateOIDCConfig
ValidOIDC(m) == m.oidc.issuer /\ Given(m.oidc.clientID) /\ Given(m.oidc.clientSecret)

\* Mutant: the two needed to log in are alternatives.
EitherCredential(m) ==
  /\ m.authType \in {"ldap", "active-directory"} => ValidLDAP(m)
  /\ m.authType = "oidc" => ValidOIDC(m)
  /\ m.authType = "system" => Given(m.username) \/ Given(m.password)

\* ValidateAuthConfig: what is configured for another type is not looked at.
ValidAuth(m) ==
  /\ m.authType \in {"ldap", "active-directory"} => ValidLDAP(m)
  /\ m.authType = "oidc" => ValidOIDC(m)
  /\ m.authType = "system" => Given(m.username) /\ Given(m.password)

\* ValidateMetricsConfig, ValidateTracingConfig
ValidMetrics(m) == m.metrics.type = "otlp" => m.metrics.endpoint /\ m.metrics.keepAlive # "bad"
ValidTracing(m) == m.tracing.type = "otlp" => m.tracing.endpoint

\* ValidatePostgresConfig
ValidPostgres(m) == m.postgres.host

\* ValidateAgentVersionsConfig: in minutes, 0 when not given.
ValidSyncInterval(m) == m.syncInterval = 0 \/ m.syncInterval >= 60

\* ValidateTransformAgentTLSConfig; the like for NATS is asked of Reconcile only,
\* and only where it holds (Backing).
ValidAgentTLS(m) == m.agentTLS # "unnamed"

\* ValidateBindplane
Valid(m, w) ==
  /\ ValidName(m) /\ m.version # "" /\ ValidReplicas(m)
  /\ ValidAgentTLS(m)
  /\ ValidExtraEnv(m) /\ ValidExtraVolumes(m, w)
  /\ ValidLicense(m) /\ ValidStatus(m) /\ ValidAuth(m)
  /\ ValidMetrics(m) /\ ValidTracing(m) /\ ValidPostgres(m) /\ ValidSyncInterval(m)
  /\ ValidBudget(m) /\ ValidRollout(m) /\ ValidImage(m)
=============================================================================
