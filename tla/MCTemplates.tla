----------------------------- MODULE MCTemplates -----------------------------
(***************************************************************************)
(* The manifests PodTemplates is checked on: from the smallest one, every  *)
(* field changed to every other value that the code tells apart, two       *)
(* fields at a time.                                                       *)
(***************************************************************************)
EXTENDS PodTemplates

NoFiles == [secret |-> FALSE, keys |-> {}]
CA == [secret |-> TRUE, keys |-> {"CA"}]
Mutual == [secret |-> TRUE, keys |-> {"CERT", "KEY", "CA"}]
NoServer == [certManager |-> FALSE, secret |-> FALSE, ca |-> FALSE]
NoClient == [certManager |-> FALSE, secret |-> FALSE]
LDAP == [server |-> FALSE, baseDN |-> FALSE, bindUser |-> "none", bindPassword |-> "none", tls |-> NoFiles]
OIDC == [issuer |-> FALSE, clientID |-> "none", clientSecret |-> "none"]
Postgres == [host |-> TRUE, username |-> "plain", password |-> "ref", tls |-> NoFiles]
Metrics == [type |-> "", endpoint |-> FALSE, keepAlive |-> "none", password |-> "none"]
NoTemplate == [labels |-> {}, resources |-> <<>>, volumes |-> <<>>, mounts |-> <<>>]

SmallestManifest ==
  [name |-> 9, version |-> "v1", image |-> "default", replicas |-> 2, natsReplicas |-> 1,
   agentReplicas |-> 1, strategy |-> FALSE, argoRollout |-> FALSE,
   budget |-> [min |-> "none", max |-> "none"],
   license |-> "ref", session |-> "none", authType |-> "", username |-> "plain", password |-> "ref",
   ldap |-> LDAP, oidc |-> OIDC, network |-> NoFiles, postgres |-> Postgres, metrics |-> Metrics,
   tracing |-> [type |-> "", endpoint |-> FALSE], tsdb |-> "local", serverTLS |-> NoServer,
   clientTLS |-> NoClient, natsTLS |-> FALSE, agentTLS |-> "none", noStatus |-> FALSE,
   statusRef |-> FALSE, statusKeys |-> "none", connections |-> 0, opampConnections |-> 0,
   eventBus |-> "none", syncInterval |-> 0, allowEnv |-> FALSE, extraEnv |-> <<>>,
   extraVolumes |-> <<>>, extraMounts |-> <<>>, resources |-> <<>>, podTemplate |-> NoTemplate]

Extra(v) == [name |-> v, source |-> "secret"]

\* A name that is just short enough and one that is not; a number of each kind;
\* resources at the edges of the rounding; extras that are fine and extras that collide.
FieldChoices ==
  [name |-> {0, 47, 48}, version |-> {""}, image |-> {"override", "with scheme"},
   replicas |-> {0, 3}, natsReplicas |-> {0, 2}, agentReplicas |-> {2},
   strategy |-> {TRUE}, argoRollout |-> {TRUE},
   budget |-> {[min |-> "ok", max |-> "none"], [min |-> "ok", max |-> "ok"], [min |-> "none", max |-> "bad"]},
   license |-> {"none", "plain", "both"}, session |-> {"plain", "ref"},
   authType |-> {"system", "ldap", "active-directory", "oidc"},
   username |-> {"none", "both"}, password |-> {"none"},
   ldap |-> {[server |-> TRUE, baseDN |-> TRUE, bindUser |-> "plain", bindPassword |-> "ref", tls |-> t] :
               t \in {NoFiles, CA, Mutual, [secret |-> FALSE, keys |-> {"CA"}]}} \cup {[LDAP EXCEPT !.server = TRUE]},
   oidc |-> {[issuer |-> TRUE, clientID |-> "ref", clientSecret |-> how] : how \in {"none", "both"}},
   network |-> {CA, Mutual, [secret |-> FALSE, keys |-> {"CERT", "KEY"}]},
   postgres |-> {[Postgres EXCEPT !.host = FALSE], [Postgres EXCEPT !.tls = CA], [Postgres EXCEPT !.tls = Mutual],
                 [Postgres EXCEPT !.tls = [secret |-> TRUE, keys |-> {"CERT"}]]},
   metrics |-> {[Metrics EXCEPT !.type = "prometheus", !.password = "ref"], [Metrics EXCEPT !.type = "otlp"],
                [Metrics EXCEPT !.type = "otlp", !.endpoint = TRUE, !.keepAlive = "ok"],
                [Metrics EXCEPT !.type = "otlp", !.endpoint = TRUE, !.keepAlive = "bad"]},
   tracing |-> {[type |-> t, endpoint |-> e] : t \in {"google", "otlp"}, e \in BOOLEAN},
   tsdb |-> {"remote", "remoteWrite"},
   serverTLS |-> {[NoServer EXCEPT !.certManager = TRUE], [NoServer EXCEPT !.secret = TRUE],
                  [NoServer EXCEPT !.secret = TRUE, !.ca = TRUE], [NoServer EXCEPT !.ca = TRUE]},
   clientTLS |-> {[NoClient EXCEPT !.certManager = TRUE], [NoClient EXCEPT !.secret = TRUE]},
   natsTLS |-> {TRUE}, agentTLS |-> {"named", "unnamed"}, noStatus |-> {TRUE}, statusRef |-> {TRUE},
   statusKeys |-> {"good", "bad"}, connections |-> {3}, opampConnections |-> {5},
   eventBus |-> {"default", "set"}, syncInterval |-> {59, 60}, allowEnv |-> {TRUE},
   extraEnv |-> {<<"TZ">>, <<"GOMEMLIMIT", "GOMEMLIMIT">>, <<"BINDPLANE_POSTGRES_HOST">>,
                 <<"BINDPLANE_AGENTS_MAX_SIMULTANEOUS_CONNECTIONS">>},
   extraVolumes |-> {<<Extra("certs")>>, <<Extra("certs"), Extra("data")>>, <<Extra("certs"), Extra("certs")>>,
                     <<Extra("tsdb-tls")>>, <<Extra(DataVolume)>>, <<[name |-> "host", source |-> "hostPath"]>>},
   extraMounts |-> {<<Mount("certs", "/certs", "")>>,
                    <<Mount("certs", "/certs", ""), Mount("certs", "/certs", "sub")>>,
                    <<Mount("certs", "/etc/tsdb-tls", "")>>, <<Mount("certs", WebConfigPath, "")>>, <<Mount("data", "data", "")>>},
   resources |-> {[cpuLimit |-> 1], [cpuLimit |-> 1000, memLimit |-> 1], [cpuRequest |-> 1001, memRequest |-> 11],
                  [cpuLimit |-> 0, cpuRequest |-> 999, memLimit |-> 9]},
   podTemplate |-> {[NoTemplate EXCEPT !.labels = {"team", "app.kubernetes.io/component"}],
                    [NoTemplate EXCEPT !.resources = [cpuLimit |-> 4001, memLimit |-> 10 * Mebi]],
                    [NoTemplate EXCEPT !.resources = [memLimit |-> 0]],
                    [NoTemplate EXCEPT !.volumes = <<Volume("scratch", UserObject, {})>>,
                                       !.mounts = <<Mount("scratch", "/scratch", "")>>],
                    [NoTemplate EXCEPT !.mounts = <<Mount("certs", "/certs", ""), Mount("none", "/certs", "")>>],
                    [NoTemplate EXCEPT !.volumes = [i \in 1..2 |-> Volume("scratch", UserObject, {})]
                                                   \o <<Volume("tsdb-web-config", UserObject, {})>>]}]
=============================================================================
