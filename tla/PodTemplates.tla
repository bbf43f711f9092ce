----------------------------- MODULE PodTemplates -----------------------------
(***************************************************************************)
(* The pod templates of the seven components, as functions of an admitted  *)
(* manifest: volumes and mounts, environment, resources, what the user's   *)
(* podTemplate changes in them and what of the operator's it cannot.       *)
(*                                                                         *)
(* The manifest is edited one field at a time and stored only when         *)
(* ValidateBindplane admits it (Validation).  Each behaviour looks at one  *)
(* component, whose extraEnv, extraVolumes, extraVolumeMounts, resources   *)
(* and podTemplate the manifest's are.                                     *)
(***************************************************************************)
EXTENDS Validation, PodEnvironment, FiniteSets

CONSTANTS
  Minimal,      \* the manifest every behaviour starts from
  Alternatives, \* for each field, what it may be changed to
  MaxChanges,   \* bound: how many fields may differ from Minimal
  Mebi          \* the bytes of a mebibyte

-----------------------------------------------------------------------------
(* What a manifest may hold                                                *)

How == {"none", "plain", "ref", "both"}
SecretFiles == [secret : BOOLEAN, keys : SUBSET {"CERT", "KEY", "CA"}]
MountType == [volume : STRING, path : STRING, sub : STRING]

\* CPU in thousandths, memory in bytes; not everything needs to be given.
ResourceNames == {"cpuLimit", "cpuRequest", "memLimit", "memRequest"}
IsResources(r) == \E given \in SUBSET ResourceNames : r \in [given -> Nat]

\* What podTemplate refers to is the user's.
IsPodTemplate(t) ==
  /\ t.labels \subseteq STRING /\ IsResources(t.resources)
  /\ t.volumes \in Seq([name : STRING, object : {UserObject}, files : SUBSET STRING])
  /\ t.mounts \in Seq(MountType)

\* For each field that a template depends on, what the CRD lets it be.
FieldTypes ==
  [name |-> Nat, replicas |-> Int, natsReplicas |-> Int, license |-> How, session |-> How,
   authType |-> STRING, username |-> How, password |-> How,
   ldap |-> [server : BOOLEAN, baseDN : BOOLEAN, bindUser : How, bindPassword : How, tls : SecretFiles],
   oidc |-> [issuer : BOOLEAN, clientID : How, clientSecret : How],
   network |-> SecretFiles,
   postgres |-> [host : BOOLEAN, username : How, password : How, tls : SecretFiles],
   metrics |-> [type : STRING, endpoint : BOOLEAN, keepAlive : STRING, password : How],
   tracing |-> [type : STRING, endpoint : BOOLEAN],
   tsdb |-> {"local", "remote", "remoteWrite"},
   serverTLS |-> [certManager : BOOLEAN, secret : BOOLEAN, ca : BOOLEAN],
   clientTLS |-> [certManager : BOOLEAN, secret : BOOLEAN],
   natsTLS |-> BOOLEAN, agentTLS |-> {"none", "named", "unnamed"},
   noStatus |-> BOOLEAN, statusRef |-> BOOLEAN, statusKeys |-> {"none", "good", "bad"},
   connections |-> Int, opampConnections |-> Int, syncInterval |-> Int,
   eventBus |-> {"none", "default", "set"}, argoRollout |-> BOOLEAN,
   extraEnv |-> Seq(STRING), extraVolumes |-> Seq([name : STRING, source : STRING]),
   extraMounts |-> Seq(MountType)]

Fields == DOMAIN FieldTypes \cup {"resources", "podTemplate"}

HasType(f, v) ==
  CASE f = "resources"   -> IsResources(v)
    [] f = "podTemplate" -> IsPodTemplate(v)
    [] OTHER             -> v \in FieldTypes[f]

ASSUME AlternativesAssumption == DOMAIN Alternatives \subseteq DOMAIN Minimal
ASSUME TypesAssumption ==
  \A f \in Fields :
    /\ f \in DOMAIN Minimal /\ HasType(f, Minimal[f])
    /\ f \in DOMAIN Alternatives => \A v \in Alternatives[f] : HasType(f, v)
ASSUME MinimalAssumption == \A c \in Components : Valid(Minimal, c)
ASSUME BoundsAssumption == MaxChanges \in Nat /\ Mebi \in Nat \ {0}

VARIABLES
  manifest,     \* the stored spec
  w,            \* the component looked at
  pod           \* its pod template, as Reconcile applies it for this manifest

vars == <<manifest, w, pod>>

-----------------------------------------------------------------------------
(* Volumes and mounts                                                      *)

Volume(n, object, files) == [name |-> n, object |-> object, files |-> files]
Mount(v, path, sub) == [volume |-> v, path |-> path, sub |-> sub]

Certificate == {"CERT", "KEY", "CA"}

\* getLDAPTLSVolumeAndMount and its like: a volume of Bindplane and where it is.
Mounted(v) == Mount(v, TLSDir(v), "")

LDAPVolumes(m) ==
  When(m.ldap.tls.secret, <<Volume("ldap-tls", UserObject, m.ldap.tls.keys)>>)
NetworkVolumes(m) ==
  When(NetworkTLS(m), <<Volume("network-tls", UserObject, m.network.keys)>>)
PostgresVolumes(m) ==
  When(PostgresTLS(m), <<Volume("postgres-tls", UserObject, m.postgres.tls.keys)>>)

\* getInternalTLSVolumesAndMounts
TSDBClientVolumes(m) ==
  LET client == ClientTLS(Switched(m)) IN
  When(client # "none",
       <<Volume("tsdb-remote-write-tls",
                IF client = "certManager" THEN "clientCert" ELSE UserObject, Certificate)>>)

\* getNatsTLSVolumesAndMounts, getTransformAgentTLSVolumesAndMounts
NATSVolumes(m) == When(m.natsTLS, <<Volume("nats-tls", "natsCert", Certificate)>>)
AgentVolumes(m) ==
  When(m.agentTLS = "named", <<Volume("transform-agent-tls", "agentCert", Certificate)>>)

\* getTSDBVolumes, and the volume the claim template of the StatefulSet makes.
TSDBVolumes(m) ==
  LET server == ServerTLS(Switched(m)) IN
  <<Volume(DataVolume, "claim", {}),
    Volume("tsdb-web-config", "webConfig", {"web.yml", "probe-http.yml"})>>
  \o When(server = "certManager",
       <<Volume("tsdb-web-server-tls", "serverCert", Certificate),
         Volume("tsdb-probe-client-tls", "probeCert", Certificate)>>)
  \o When(server = "secret",
       <<Volume("tsdb-tls", UserObject, IF m.serverTLS.ca THEN Certificate ELSE {"CERT", "KEY"})>>)
  \o <<Volume("tsdb-probe-auth", "basicAuth", {"username", "password"})>>

WebConfigPath == "/etc/prometheus/web.yml"
ProbeConfigPath == "/etc/prometheus/probe-http.yml"

\* getTSDBVolumeMounts: single files in /etc/prometheus, next to the image's own.
TSDBMounts(m) ==
  LET server == ServerTLS(Switched(m)) IN
  <<Mount(DataVolume, "/prometheus", ""),
    Mount("tsdb-web-config", WebConfigPath, "web.yml"),
    Mount("tsdb-web-config", ProbeConfigPath, "probe-http.yml")>>
  \o When(server = "certManager",
       <<Mount("tsdb-web-server-tls", "/etc/tsdb-web-tls", ""),
         Mount("tsdb-probe-client-tls", "/etc/tsdb-probe-client", "")>>)
  \o When(server = "secret", <<Mount("tsdb-tls", "/etc/tsdb-tls", "")>>)
  \o <<Mount("tsdb-probe-auth", "/etc/tsdb-probe-auth", "")>>

\* What the migrate Job mounts, and getConfigTLSVolumesAndMounts for the others.
MigrateVolumes(m) ==
  LDAPVolumes(m) \o NetworkVolumes(m) \o PostgresVolumes(m) \o TSDBClientVolumes(m) \o AgentVolumes(m)
ConfigVolumes(m) ==
  LDAPVolumes(m) \o NetworkVolumes(m) \o PostgresVolumes(m) \o TSDBClientVolumes(m)
  \o NATSVolumes(m) \o AgentVolumes(m)

\* buildTSDBProbeHTTPConfigYAML, reconcileTSDBWebConfigConfigMap and
\* getTSDBProbeCommand: the files the command line, web.yml and probe-http.yml name
\* besides those two themselves.
TSDBFiles(m) ==
  LET server == ServerTLS(Switched(m)) IN
  ({"/etc/tsdb-probe-auth"} \X {"username", "password"})
  \cup (CASE server = "certManager" ->
               ({"/etc/tsdb-web-tls"} \X Certificate) \cup ({"/etc/tsdb-probe-client"} \X {"CERT", "KEY"})
          [] server = "secret" -> {"/etc/tsdb-tls"} \X {"CERT", "KEY"}
          [] OTHER -> {})
  \cup (IF server # "certManager" /\ m.serverTLS.ca THEN {"/etc/tsdb-tls"} \X Certificate ELSE {})

-----------------------------------------------------------------------------
(* The containers: one operator for each function that builds a workload   *)

\* The map a with what b gives in place of its own.
mergeMaps(a, b) == [f \in DOMAIN a \cup DOMAIN b |-> IF f \in DOMAIN b THEN b[f] ELSE a[f]]

\* What the operator itself puts into a container, and the resources it asks for:
\* CPU in thousandths, memory in mebibytes.
Container(env, volumes, mounts, cpu, memory) ==
  [env       |-> KubernetesEnv \o env,
   volumes   |-> volumes,
   mounts    |-> mounts,
   resources |-> [memLimit |-> memory * Mebi, memRequest |-> memory * Mebi, cpuRequest |-> cpu]]

\* Each volume in its place.
InPlace(volumes) == [i \in DOMAIN volumes |-> Mounted(volumes[i].name)]

BindplaneContainer(env, volumes, cpu, memory) ==
  Container(env, volumes, InPlace(volumes), cpu, memory)

Mode == <<Value("BINDPLANE_MODE")>>

nodeDeployment(m) ==
  BindplaneContainer(Mode \o CommonEnv(m) \o NATSClientEnv(m), ConfigVolumes(m), 2000, 2048)
nodeRollout(m) ==
  BindplaneContainer(Mode \o CommonEnv(m) \o NATSClientEnv(m), ConfigVolumes(m), 2000, 2048)
opampDeployment(m) ==
  BindplaneContainer(Mode \o CommonEnv(m) \o NATSClientEnv(m) \o OpAMPOverride(m), ConfigVolumes(m), 2000, 2048)
bindplaneJobsDeployment(m) ==
  BindplaneContainer(Mode \o CommonEnv(m) \o NATSClientEnv(m), ConfigVolumes(m), 1000, 1024)
bindplaneJobsMigrateJob(m) ==
  BindplaneContainer(Mode \o CommonEnv(m), MigrateVolumes(m), 100, 2048)
natsStatefulSet(m) ==
  [BindplaneContainer(NATSServerEnv(m) \o CommonEnv(m), ConfigVolumes(m), 250, 500)
    EXCEPT !.resources = mergeMaps(@, [cpuLimit |-> 500])]
transformAgentDeployment(m) ==
  BindplaneContainer(AgentTLSEnv(m), AgentVolumes(m), 250, 512)
tsdbStatefulSet(m) ==
  Container(<<>>, TSDBVolumes(m), TSDBMounts(m), 1000, 2048)

Operators(c, m) ==
  CASE c = "node"           -> IF m.argoRollout THEN nodeRollout(m) ELSE nodeDeployment(m)
    [] c = "opamp"          -> opampDeployment(m)
    [] c = "jobs"           -> bindplaneJobsDeployment(m)
    [] c = "migrate"        -> bindplaneJobsMigrateJob(m)
    [] c = "nats"           -> natsStatefulSet(m)
    [] c = "transformAgent" -> transformAgentDeployment(m)
    [] c = "tsdb"           -> tsdbStatefulSet(m)

\* Mutant: what the user adds comes last.
UserLast(ours, m) ==
  ours.env \o [i \in DOMAIN m.extraEnv |-> FromUser(m.extraEnv[i])]

\* prependExtraEnv: what the user adds comes first, the operator's own after it.
Environment(ours, m) ==
  [i \in DOMAIN m.extraEnv |-> FromUser(m.extraEnv[i])] \o ours.env

\* appendExtraVolumes, appendExtraVolumeMounts
Volumes(ours, m) ==
  ours.volumes
  \o [i \in DOMAIN m.extraVolumes |-> Volume(m.extraVolumes[i].name, UserObject, {})]
Mounts(ours, m) == ours.mounts \o m.extraMounts

\* spec.<component>.resources replaces all of the operator's.
Resources(ours, m) ==
  IF DOMAIN m.resources # {} THEN m.resources ELSE ours.resources

-----------------------------------------------------------------------------
(* The Go runtime                                                          *)

\* A resource that is zero is as good as not there.
Has(r, f) == f \in DOMAIN r /\ r[f] > 0

\* The limit, or else the request.
Granted(r, limit, request) == IF Has(r, limit) THEN r[limit] ELSE IF Has(r, request) THEN r[request] ELSE 0

\* ceilMilliCPUs, applyMemoryHeadroom
WholeCPUs(milli) == (milli + 999) \div 1000
WithHeadroom(bytes) == bytes - (bytes * 10) \div 100

\* The places of s that bear the name n, and what is at the last of them.
Named(s, n) == {i \in DOMAIN s : s[i].name = n}
LastNamed(s, n) == s[Max(Named(s, n))]

\* upsertEnvVar: the first entry of that name is replaced.
Upsert(env, e) ==
  IF Named(env, e.name) = {} THEN Append(env, e)
  ELSE [env EXCEPT ![Min(Named(env, e.name))] = e]

\* getGoRuntimeEnvVars, applyGoRuntimeEnvVars
WithGoEnv(env, r) ==
  LET cpu == Granted(r, "cpuLimit", "cpuRequest")
      mem == Granted(r, "memLimit", "memRequest")
      procs == IF cpu > 0 THEN Upsert(env, Number("GOMAXPROCS", WholeCPUs(cpu))) ELSE env IN
  IF mem > 0 THEN Upsert(procs, Number("GOMEMLIMIT", WithHeadroom(mem))) ELSE procs

-----------------------------------------------------------------------------
(* mergePodTemplateSpec                                                    *)

SelectorLabels == {"app.kubernetes.io/name", "app.kubernetes.io/instance", "app.kubernetes.io/component"}

\* Mutant: the user's labels are taken as they are.
EveryLabel(labels) ==
  [l \in labels \cup SelectorLabels |-> IF l \in labels THEN "user" ELSE "operator"]

\* mergeTemplateMetadata: the labels of the selector are protected.
Labels(labels) ==
  [l \in labels \cup SelectorLabels |-> IF l \in SelectorLabels THEN "operator" ELSE "user"]

\* mergeVolumes: by name, the user's instead of the operator's and the last of the
\* user's of one name; in what order the others follow makes no difference.
MergeVolumes(ours, theirs) ==
  LET kept == [i \in DOMAIN ours |->
                 IF Named(theirs, ours[i].name) = {} THEN ours[i] ELSE LastNamed(theirs, ours[i].name)]
      added == {LastNamed(theirs, v.name) : v \in {x \in ToSet(theirs) : Named(ours, x.name) = {}}} IN
  kept \o SetToSeq(added)

\* mergeSingleContainer puts the user's list in place of the operator's, and decodes
\* it over the operator's: an element without a subPath keeps the one that was there.
MergeMounts(ours, theirs) ==
  IF theirs = <<>> THEN ours
  ELSE [i \in DOMAIN theirs |->
          [theirs[i] EXCEPT !.sub = IF @ = "" /\ i <= Len(ours) THEN ours[i].sub ELSE @]]

\* Mutant: the Go runtime is told what the operator asked for.
GoEnvFirst(c, m) ==
  LET t == m.podTemplate
      ours == Operators(c, m) IN
  [labels    |-> Labels(t.labels),
   resources |-> mergeMaps(Resources(ours, m), t.resources),
   env       |-> WithGoEnv(Environment(ours, m), Resources(ours, m)),
   volumes   |-> MergeVolumes(Volumes(ours, m), t.volumes),
   mounts    |-> MergeMounts(Mounts(ours, m), t.mounts)]

\* The template of component c.  Of the user's container of the same name the
\* environment is not taken, so m.podTemplate has none.
Template(c, m) ==
  LET t == m.podTemplate
      ours == Operators(c, m)
      resources == mergeMaps(Resources(ours, m), t.resources) IN
  [labels    |-> Labels(t.labels),
   resources |-> resources,
   env       |-> WithGoEnv(Environment(ours, m), resources),
   volumes   |-> MergeVolumes(Volumes(ours, m), t.volumes),
   mounts    |-> MergeMounts(Mounts(ours, m), t.mounts)]

-----------------------------------------------------------------------------
(* Names                                                                   *)

\* The lengths of what follows the name and a hyphen in the names of Services.
ServiceSuffixes == [node |-> 4, opamp |-> 5, natsClient |-> 11, natsCluster |-> 12,
                    transformAgent |-> 15, tsdb |-> 4]

\* A StatefulSet labels its pods with its name, a hyphen and a hash of up to 10.
StatefulSetSuffixes == [nats |-> 4, tsdb |-> 4]
RevisionHash == 11

-----------------------------------------------------------------------------
(* Behaviour                                                               *)

Changed(m) == {f \in DOMAIN Minimal : m[f] # Minimal[f]}

Init ==
  /\ manifest = Minimal
  /\ w \in Components
  /\ pod = Template(w, manifest)

\* The user edits a field, the webhook admits the result and Reconcile applies the
\* template that follows from it.
Edit(f, v) ==
  LET m == [manifest EXCEPT ![f] = v] IN
  /\ m # manifest
  /\ Cardinality(Changed(m)) <= MaxChanges
  /\ Valid(m, w)
  /\ manifest' = m
  /\ pod' = Template(w, m)
  /\ UNCHANGED w

Next == \E f \in DOMAIN Alternatives : \E v \in Alternatives[f] \cup {Minimal[f]} : Edit(f, v)

Spec == Init /\ [][Next]_vars

-----------------------------------------------------------------------------
(* Properties                                                              *)

Bindplane == Components \ {"transformAgent", "tsdb"}

\* A remote TSDB leaves no local one to have a template.
Built == w # "tsdb" \/ ~Remote(Switched(manifest))

\* The last entry of a name, which Kubernetes honours; one from nowhere if there is none.
Effective(env, n) ==
  IF Named(env, n) = {} THEN Entry(n, "nowhere", <<>>, 0) ELSE LastNamed(env, n)

\* Nothing is mounted twice at one path and every mount has its volume.
MountsRight(mounts, volumes) ==
  /\ NoneTwice([i \in DOMAIN mounts |-> mounts[i].path])
  /\ \A x \in ToSet(mounts) : \E v \in ToSet(volumes) : v.name = x.volume

\* The two paths in /etc/prometheus that validation does not reserve are left alone.
LeavesFiles(m) == \A x \in ToSet(m.extraMounts) : x.path \notin {WebConfigPath, ProbeConfigPath}

\* The API server accepts the template of every admitted manifest: no volume is
\* named twice and the mounts are right (ValidateExtraVolumes against what the
\* operator adds by itself).  There are two exceptions.  Nobody validates the mounts
\* of podTemplate, which replace all others; and nothing keeps an extra mount from
\* the paths of the TSDB's configuration files.
WellFormed ==
  Built =>
    /\ NoneTwice([i \in DOMAIN pod.volumes |-> pod.volumes[i].name])
    /\ LET theirs == manifest.podTemplate.mounts IN
       IF theirs = <<>> THEN LeavesFiles(manifest) => MountsRight(pod.mounts, pod.volumes)
       ELSE MountsRight(theirs, pod.volumes) => MountsRight(pod.mounts, pod.volumes)

\* Every Secret and ConfigMap a pod refers to is one the user named or one that
\* Reconcile keeps for this very manifest: no pod waits for an object that a
\* switch elsewhere in the manifest has taken away.
RefsProvided ==
  Built =>
    LET volumes == {v.object : v \in ToSet(pod.volumes)}
        keys == {e.at[1] : e \in {x \in ToSet(pod.env) : x.from = "secret"}} IN
    \A o \in (volumes \cup keys) \ {UserObject, "claim"} : Wants(o, Switched(manifest))

\* A whole volume is mounted at dir and has the file; or the file alone is mounted.
HasFile(t, dir, file) ==
  \E x \in ToSet(t.mounts), v \in ToSet(t.volumes) :
    x.volume = v.name /\ file \in v.files /\ x.path = dir /\ x.sub = ""
HasSingle(t, path, file) ==
  \E x \in ToSet(t.mounts), v \in ToSet(t.volumes) :
    x.volume = v.name /\ file \in v.files /\ x.path = path /\ x.sub = file

\* Keys are given with the Secret they are keys of.
SecretsNamed(m) ==
  /\ m.ldap.tls.keys # {} => m.ldap.tls.secret
  /\ m.serverTLS.ca => m.serverTLS.certManager \/ m.serverTLS.secret

\* The user's podTemplate leaves the operator's mounts and volumes alone.
LeavesVolumes(c, m) ==
  /\ m.podTemplate.mounts = <<>>
  /\ \A v \in ToSet(m.podTemplate.volumes) : Named(Operators(c, m).volumes, v.name) = {}

\* Every file the environment, the command line or a configuration file names is
\* there in the container, at that path (config_env.go against the volumes of
\* bindplane_controller.go and prometheus.go) - unless the user's podTemplate
\* replaces what the operator mounts, or the user gives keys of no Secret.
FilesMounted ==
  Built /\ LeavesVolumes(w, manifest) /\ SecretsNamed(manifest) =>
    /\ \A e \in {x \in ToSet(pod.env) : x.from = "file"} : HasFile(pod, e.at[1], e.at[2])
    /\ w = "tsdb" =>
         /\ HasSingle(pod, WebConfigPath, "web.yml") /\ HasSingle(pod, ProbeConfigPath, "probe-http.yml")
         /\ \A f \in TSDBFiles(manifest) : HasFile(pod, f[1], f[2])

\* Whatever extraEnv holds, the value that counts for a name the operator sets is
\* the operator's; and on OpAMP spec.opamp's own limit of connections counts.
OperatorWins ==
  Built =>
    /\ \A e \in ToSet(Operators(w, manifest).env) : Effective(pod.env, e.name).from # "user"
    /\ w = "opamp" /\ manifest.opampConnections > 0 =>
         Effective(pod.env, "BINDPLANE_AGENTS_MAX_SIMULTANEOUS_CONNECTIONS").value
           = manifest.opampConnections

Needed(m) ==
  {"BINDPLANE_LICENSE", "BINDPLANE_SESSION_SECRET", "BINDPLANE_POSTGRES_HOST", "BINDPLANE_REMOTE_URL"}
  \cup (IF m.authType = "system" THEN {"BINDPLANE_USERNAME", "BINDPLANE_PASSWORD"} ELSE {})
  \cup (IF m.authType \in {"ldap", "active-directory"}
        THEN {"BINDPLANE_LDAP_SERVER", "BINDPLANE_LDAP_BASE_DN", "BINDPLANE_LDAP_BIND_USER",
              "BINDPLANE_LDAP_BIND_PASSWORD"} ELSE {})
  \cup (IF m.authType = "oidc"
        THEN {"BINDPLANE_OIDC_ISSUER", "BINDPLANE_OIDC_OAUTH2_CLIENT_ID",
              "BINDPLANE_OIDC_OAUTH2_CLIENT_SECRET"} ELSE {})
  \cup (IF m.metrics.type = "otlp" THEN {"BINDPLANE_METRICS_OTLP_ENDPOINT"} ELSE {})
  \cup (IF m.tracing.type = "otlp" THEN {"BINDPLANE_TRACING_OTLP_ENDPOINT"} ELSE {})
  \cup (IF m.noStatus THEN {} ELSE {"BINDPLANE_STATUS_KEYS"})

\* An admitted manifest has all the chosen way of logging in, exporting or storing
\* needs, and it reaches every Bindplane pod by the operator's own hand.
Complete ==
  w \in Bindplane => \A n \in Needed(manifest) : Effective(pod.env, n).from \in {"value", "secret"}

\* What the Go runtime is told fits the resources the container has in the end,
\* whoever set them: enough threads for its CPU and not one more, and a memory
\* limit that is positive, within the container's and leaves at most a tenth.
GoLimits ==
  LET procs == Effective(pod.env, "GOMAXPROCS")
      limit == Effective(pod.env, "GOMEMLIMIT")
      cpu == Granted(pod.resources, "cpuLimit", "cpuRequest")
      mem == Granted(pod.resources, "memLimit", "memRequest") IN
  Built =>
    /\ IF cpu = 0 THEN procs.from = "nowhere"
       ELSE 1000 * procs.value >= cpu /\ 1000 * (procs.value - 1) < cpu
    /\ IF mem = 0 THEN limit.from = "nowhere"
       ELSE limit.value \in 1..mem /\ 10 * limit.value >= 9 * mem

\* The workload's selector goes on matching its pods.
SelectorKept == \A l \in SelectorLabels : pod.labels[l] = "operator"

\* The names of Services and the labels of StatefulSet pods fit 63 characters for
\* every name the webhook admits (the component label of a Certificate does not).
NamesFit ==
  /\ \A s \in DOMAIN ServiceSuffixes : manifest.name + 1 + ServiceSuffixes[s] <= 63
  /\ \A s \in DOMAIN StatefulSetSuffixes :
       manifest.name + 1 + StatefulSetSuffixes[s] + RevisionHash <= 63

\* The number of hosts the event bus must see by default is more than half of
\* those the manifest asks for, so that no two halves are healthy at once, and
\* not more than there are.
MajorityRequired ==
  LET e == Effective(pod.env, "BINDPLANE_EVENT_BUS_HEALTH_REQUIRED_HOSTS") IN
  w \in Bindplane /\ manifest.eventBus = "default" =>
    2 * e.value > Hosts(manifest) /\ e.value <= Hosts(manifest)

\* The components whose pods a change of field f may replace.
MayRoll(f, m) ==
  CASE f \in {"extraEnv", "extraVolumes", "extraMounts", "resources", "podTemplate"} -> Components
    [] f = "opampConnections" -> {"opamp"}
    [] f = "natsReplicas" -> {"nats"} \cup (IF m.eventBus = "default" THEN Bindplane ELSE {})
    [] f = "replicas" -> IF m.eventBus = "default" THEN Bindplane ELSE {}
    [] f \in {"name", "agentReplicas", "budget", "strategy", "argoRollout", "allowEnv", "image", "version"} -> {}
    [] f = "serverTLS" -> {"tsdb"}
    [] f = "natsTLS" -> Bindplane \ {"migrate"}
    [] f = "agentTLS" -> Bindplane \cup {"transformAgent"}
    [] OTHER -> Bindplane

\* An edit restarts the pods of the components it is about and no others: one of
\* OpAMP's settings never drops the agents of Node, and spec.config never touches
\* the TSDB or the Transform Agent.
RollsOnlyItsOwn ==
  [][\A f \in DOMAIN Alternatives :
       manifest'[f] # manifest[f] /\ w \notin MayRoll(f, manifest) /\ Built /\ Built'
         => pod' = pod]_vars
=============================================================================
