-------------------------- MODULE PodTemplateProofs --------------------------
(***************************************************************************)
(* What holds of the pod templates of every manifest the webhook admits,   *)
(* whatever the fields may be changed to and however many differ.          *)
(***************************************************************************)
EXTENDS PodTemplates, TLAPS

\* The stored manifest is an admitted one.
Admitted == w \in Components /\ Valid(manifest, w)

\* The template is the one that follows from it.
UpToDate == pod = Template(w, manifest)

\* The first manifest is admitted and every edit is asked about.
LEMMA AlwaysAdmitted == Spec => []Admitted
<1>1. Init => Admitted
  BY MinimalAssumption DEF Init, Admitted
<1>2. Admitted /\ [Next]_vars => Admitted'
  <2> SUFFICES ASSUME Admitted, [Next]_vars PROVE Admitted'
    OBVIOUS
  <2>1. CASE Next
    <3>1. PICK f \in DOMAIN Alternatives : \E v \in Alternatives[f] \cup {Minimal[f]} : Edit(f, v)
      BY <2>1 DEF Next
    <3>2. PICK v \in Alternatives[f] \cup {Minimal[f]} : Edit(f, v)
      BY <3>1
    <3>3. manifest' = [manifest EXCEPT ![f] = v] /\ w' = w /\ Valid([manifest EXCEPT ![f] = v], w)
      BY <3>2 DEF Edit
    <3>4. Valid(manifest', w')
      BY <3>3
    <3> QED
      BY <3>3, <3>4 DEF Admitted
  <2>2. CASE UNCHANGED vars
    BY <2>2 DEF vars, Admitted
  <2> QED
    BY <2>1, <2>2
<1> QED
  BY <1>1, <1>2, PTL DEF Spec

\* Every Service and every label of a StatefulSet pod fits 63 characters: the
\* longest suffix, that of the Transform Agent, is the one the limit was made for.
THEOREM NamesAlwaysFit == Spec => []NamesFit
<1>1. Admitted => NamesFit
  <2> SUFFICES ASSUME Admitted PROVE NamesFit
    OBVIOUS
  <2>0. ValidName(manifest)
    BY DEF Admitted, Valid
  <2>1. manifest.name \in 1..47
    BY <2>0 DEF ValidName, MaxNameLength
  <2>2. ASSUME NEW s \in DOMAIN ServiceSuffixes PROVE ServiceSuffixes[s] \in 0..15
    BY DEF ServiceSuffixes
  <2>3. ASSUME NEW s \in DOMAIN StatefulSetSuffixes PROVE StatefulSetSuffixes[s] \in 0..4
    BY DEF StatefulSetSuffixes
  <2> QED
    BY <2>1, <2>2, <2>3 DEF NamesFit, RevisionHash
<1> QED
  BY <1>1, AlwaysAdmitted, PTL

\* Reconcile applies what follows from the stored manifest.
LEMMA AlwaysUpToDate == Spec => []UpToDate
<1>1. Init => UpToDate
  BY DEF Init, UpToDate
<1>2. UpToDate /\ [Next]_vars => UpToDate'
  BY DEF UpToDate, Next, Edit, vars
<1> QED
  BY <1>1, <1>2, PTL DEF Spec

\* The user's labels never replace those of the workload's selector, so that the
\* workload keeps its pods (mergeTemplateMetadata).
THEOREM SelectorAlwaysKept == Spec => []SelectorKept
<1>1. UpToDate => SelectorKept
  <2> SUFFICES ASSUME UpToDate, NEW l \in SelectorLabels
               PROVE  Labels(manifest.podTemplate.labels)[l] = "operator"
    BY DEF SelectorKept, UpToDate, Template
  <2> QED
    BY DEF Labels
<1> QED
  BY <1>1, AlwaysUpToDate, PTL

\* Of the hosts an admitted manifest asks for, the default number required is a
\* majority, and one that can be reached (defaultRequiredHosts).
THEOREM DefaultIsMajority ==
  ASSUME NEW m, m.replicas \in Nat, m.natsReplicas \in Nat
  PROVE  /\ 2 * DefaultRequiredHosts(m) > Hosts(m)
         /\ DefaultRequiredHosts(m) <= Hosts(m)
<1> DEFINE h == m.replicas + m.natsReplicas + 1
<1>1. h \in Nat /\ h >= 1
  OBVIOUS
<1>2. 2 * (h \div 2 + 1) > h /\ h \div 2 + 1 <= h
  <2> HIDE DEF h
  <2> QED
    BY <1>1
<1> QED
  BY <1>2 DEF DefaultRequiredHosts, Hosts

\* GOMAXPROCS is the CPU rounded up to the next whole one (ceilMilliCPUs).
THEOREM EnoughThreads ==
  ASSUME NEW cpu \in Nat \ {0}
  PROVE  1000 * WholeCPUs(cpu) >= cpu /\ 1000 * (WholeCPUs(cpu) - 1) < cpu
BY DEF WholeCPUs

\* GOMEMLIMIT is positive, within the container's memory and leaves at most a
\* tenth of it, however little there is (applyMemoryHeadroom).
THEOREM HeadroomWithinLimit ==
  ASSUME NEW mem \in Nat \ {0}
  PROVE  WithHeadroom(mem) \in 1..mem /\ 10 * WithHeadroom(mem) >= 9 * mem
BY DEF WithHeadroom

-----------------------------------------------------------------------------
(* What each part of a template reads of the manifest                      *)

\* m and n agree on the fields F.
Agree(m, n, F) == \A f \in F : m[f] = n[f]

ConfigFields == {"license", "authType", "username", "password", "ldap", "oidc", "session", "network",
                 "postgres", "tracing", "metrics", "connections", "syncInterval"}

\* The switches whose fields are the same in m and n.
LEMMA SwitchesRead ==
  ASSUME NEW m, NEW n
  PROVE  /\ m.tsdb = n.tsdb => ("remote" \in Switched(m) <=> "remote" \in Switched(n))
         /\ m.serverTLS = n.serverTLS =>
              /\ "serverTLS" \in Switched(m) <=> "serverTLS" \in Switched(n)
              /\ "serverSecret" \in Switched(m) <=> "serverSecret" \in Switched(n)
         /\ m.clientTLS = n.clientTLS =>
              /\ "clientTLS" \in Switched(m) <=> "clientTLS" \in Switched(n)
              /\ "clientSecret" \in Switched(m) <=> "clientSecret" \in Switched(n)
BY DEF Switched, AllSwitches

LEMMA ConfigEnvReads ==
  ASSUME NEW m, NEW n, Agree(m, n, ConfigFields)
  PROVE  ConfigEnv(m) = ConfigEnv(n)
<1>1. /\ m.license = n.license /\ m.authType = n.authType /\ m.username = n.username
      /\ m.password = n.password /\ m.ldap = n.ldap /\ m.oidc = n.oidc /\ m.session = n.session
      /\ m.network = n.network /\ m.postgres = n.postgres /\ m.tracing = n.tracing
      /\ m.metrics = n.metrics /\ m.connections = n.connections
      /\ m.syncInterval = n.syncInterval
  BY DEF Agree, ConfigFields
<1>2. AuthEnv(m) = AuthEnv(n)
  BY <1>1 DEF AuthEnv, LDAPEnv, OIDCEnv, When
<1>3. SessionEnv(m) = SessionEnv(n)
  BY <1>1 DEF SessionEnv
<1>4. NetworkEnv(m) = NetworkEnv(n)
  BY <1>1 DEF NetworkEnv, NetworkTLS, When
<1>5. PostgresEnv(m) = PostgresEnv(n)
  BY <1>1 DEF PostgresEnv, PostgresTLS, When
<1>6. TracingEnv(m) = TracingEnv(n) /\ MetricsEnv(m) = MetricsEnv(n) /\ MiscEnv(m) = MiscEnv(n)
  BY <1>1 DEF TracingEnv, MetricsEnv, MiscEnv, When
<1> QED
  BY <1>1, <1>2, <1>3, <1>4, <1>5, <1>6 DEF ConfigEnv, When

CommonFields == ConfigFields \cup {"tsdb", "clientTLS", "agentTLS", "noStatus", "statusRef", "statusKeys", "eventBus"}

\* The numbers of replicas count only for the default number of hosts.
LEMMA CommonEnvReads ==
  ASSUME NEW m, NEW n, Agree(m, n, CommonFields),
         m.eventBus = "default" => m.replicas = n.replicas /\ m.natsReplicas = n.natsReplicas
  PROVE  CommonEnv(m) = CommonEnv(n)
<1>1. /\ m.tsdb = n.tsdb /\ m.clientTLS = n.clientTLS /\ m.agentTLS = n.agentTLS
      /\ m.noStatus = n.noStatus /\ m.statusRef = n.statusRef /\ m.statusKeys = n.statusKeys
      /\ m.eventBus = n.eventBus
  BY DEF Agree, CommonFields
<1>2. ConfigEnv(m) = ConfigEnv(n)
  BY ConfigEnvReads DEF Agree, CommonFields
<1>3. Remote(Switched(m)) <=> Remote(Switched(n))
  BY <1>1, SwitchesRead DEF Remote
<1>4. ClientTLS(Switched(m)) = ClientTLS(Switched(n))
  BY <1>1, SwitchesRead DEF ClientTLS
<1>5. TSDBClientTLSEnv(m) = TSDBClientTLSEnv(n)
  BY <1>4 DEF TSDBClientTLSEnv, When
<1>6. TSDBEnv(m) = TSDBEnv(n)
  BY <1>1, <1>3, <1>5 DEF TSDBEnv, When
<1>7. AgentEnv(m) = AgentEnv(n) /\ AgentTLSEnv(m) = AgentTLSEnv(n)
  BY <1>1 DEF AgentEnv, AgentTLSEnv, When
<1>8. StatusEnv(m) = StatusEnv(n)
  BY <1>1 DEF StatusEnv, When
<1>9. EventBusEnv(m) = EventBusEnv(n)
  BY <1>1 DEF EventBusEnv, DefaultRequiredHosts, Hosts, When
<1> QED
  BY <1>2, <1>6, <1>7, <1>8, <1>9 DEF CommonEnv

\* The volumes of a Bindplane container.
LEMMA VolumesRead ==
  ASSUME NEW m, NEW n, Agree(m, n, CommonFields)
  PROVE  /\ MigrateVolumes(m) = MigrateVolumes(n)
         /\ m.natsTLS = n.natsTLS => ConfigVolumes(m) = ConfigVolumes(n)
<1>1. /\ m.ldap = n.ldap /\ m.network = n.network /\ m.postgres = n.postgres
      /\ m.clientTLS = n.clientTLS /\ m.agentTLS = n.agentTLS
  BY DEF Agree, CommonFields, ConfigFields
<1>2. ClientTLS(Switched(m)) = ClientTLS(Switched(n))
  BY <1>1, SwitchesRead DEF ClientTLS
<1>3. LDAPVolumes(m) = LDAPVolumes(n) /\ NetworkVolumes(m) = NetworkVolumes(n)
  BY <1>1 DEF LDAPVolumes, NetworkVolumes, NetworkTLS, When
<1>4. PostgresVolumes(m) = PostgresVolumes(n) /\ AgentVolumes(m) = AgentVolumes(n)
  BY <1>1 DEF PostgresVolumes, PostgresTLS, AgentVolumes, When
<1>5. TSDBClientVolumes(m) = TSDBClientVolumes(n)
  BY <1>2 DEF TSDBClientVolumes, When
<1>6. m.natsTLS = n.natsTLS => NATSVolumes(m) = NATSVolumes(n)
  BY DEF NATSVolumes, When
<1> QED
  BY <1>3, <1>4, <1>5, <1>6 DEF MigrateVolumes, ConfigVolumes

\* What the user says of the component itself.
OwnFields == {"extraEnv", "extraVolumes", "extraMounts", "resources", "podTemplate"}

\* What the operator's part of a template reads besides, without the numbers of
\* replicas that make the default number of hosts.
Reads(c) ==
  CASE c \in {"node", "jobs"}   -> CommonFields \cup {"natsTLS"}
    [] c = "opamp"              -> CommonFields \cup {"natsTLS", "opampConnections"}
    [] c = "migrate"            -> CommonFields
    [] c = "nats"               -> CommonFields \cup {"natsTLS", "natsReplicas"}
    [] c = "transformAgent"     -> {"agentTLS"}
    [] c = "tsdb"               -> {"serverTLS"}

\* The containers are built from no more than that.
LEMMA OperatorsRead ==
  ASSUME NEW c \in Components, NEW m, NEW n, Agree(m, n, Reads(c)),
         c \in Bindplane /\ m.eventBus = "default" =>
           m.replicas = n.replicas /\ m.natsReplicas = n.natsReplicas
  PROVE  Operators(c, m) = Operators(c, n)
<1>1. ASSUME c \in Bindplane
      PROVE  /\ CommonEnv(m) = CommonEnv(n)
             /\ MigrateVolumes(m) = MigrateVolumes(n)
             /\ m.natsTLS = n.natsTLS => ConfigVolumes(m) = ConfigVolumes(n)
  <2>1. Agree(m, n, CommonFields)
    BY <1>1 DEF Agree, Reads, Bindplane, Components
  <2> QED
    BY <1>1, <2>1, CommonEnvReads, VolumesRead
<1>2. ASSUME m.natsTLS = n.natsTLS
      PROVE  NATSTLSEnv(m) = NATSTLSEnv(n) /\ NATSClientEnv(m) = NATSClientEnv(n)
  BY <1>2 DEF NATSTLSEnv, NATSClientEnv, When
<1>3. CASE c = "node"
  <2>1. c \in Bindplane /\ m.natsTLS = n.natsTLS
    BY <1>3 DEF Agree, Reads, Bindplane, Components
  <2>2. nodeDeployment(m) = nodeDeployment(n) /\ nodeRollout(m) = nodeDeployment(m)
        /\ nodeRollout(n) = nodeDeployment(n)
    BY <1>1, <1>2, <2>1 DEF nodeDeployment, nodeRollout
  <2> QED
    BY <1>3, <2>2 DEF Operators
<1>4. CASE c = "jobs"
  <2>1. c \in Bindplane /\ m.natsTLS = n.natsTLS
    BY <1>4 DEF Agree, Reads, Bindplane, Components
  <2>2. bindplaneJobsDeployment(m) = bindplaneJobsDeployment(n)
    BY <1>1, <1>2, <2>1 DEF bindplaneJobsDeployment
  <2> QED
    BY <1>4, <2>2 DEF Operators
<1>5. CASE c = "opamp"
  <2>1. c \in Bindplane /\ m.natsTLS = n.natsTLS /\ m.opampConnections = n.opampConnections
    BY <1>5 DEF Agree, Reads, Bindplane, Components
  <2>2. OpAMPOverride(m) = OpAMPOverride(n)
    BY <2>1 DEF OpAMPOverride, When
  <2>3. opampDeployment(m) = opampDeployment(n)
    BY <1>1, <1>2, <2>1, <2>2 DEF opampDeployment
  <2> QED
    BY <1>5, <2>3 DEF Operators
<1>6. CASE c = "migrate"
  <2>1. c \in Bindplane
    BY <1>6 DEF Bindplane, Components
  <2>2. bindplaneJobsMigrateJob(m) = bindplaneJobsMigrateJob(n)
    BY <1>1, <2>1 DEF bindplaneJobsMigrateJob
  <2> QED
    BY <1>6, <2>2 DEF Operators
<1>7. CASE c = "nats"
  <2>1. c \in Bindplane /\ m.natsTLS = n.natsTLS /\ m.natsReplicas = n.natsReplicas
    BY <1>7 DEF Agree, Reads, Bindplane, Components
  <2>2. NATSServerEnv(m) = NATSServerEnv(n)
    BY <1>2, <2>1 DEF NATSServerEnv
  <2>3. natsStatefulSet(m) = natsStatefulSet(n)
    BY <1>1, <2>1, <2>2 DEF natsStatefulSet
  <2> QED
    BY <1>7, <2>3 DEF Operators
<1>8. CASE c = "transformAgent"
  <2>1. m.agentTLS = n.agentTLS
    BY <1>8 DEF Agree, Reads
  <2>2. AgentTLSEnv(m) = AgentTLSEnv(n) /\ AgentVolumes(m) = AgentVolumes(n)
    BY <2>1 DEF AgentTLSEnv, AgentVolumes, When
  <2>3. transformAgentDeployment(m) = transformAgentDeployment(n)
    BY <2>2 DEF transformAgentDeployment
  <2> QED
    BY <1>8, <2>3 DEF Operators
<1>9. CASE c = "tsdb"
  <2>1. m.serverTLS = n.serverTLS
    BY <1>9 DEF Agree, Reads
  <2>2. ServerTLS(Switched(m)) = ServerTLS(Switched(n))
    BY <2>1, SwitchesRead DEF ServerTLS
  <2>3. TSDBVolumes(m) = TSDBVolumes(n)
    BY <2>1, <2>2 DEF TSDBVolumes, When
  <2>4. TSDBMounts(m) = TSDBMounts(n)
    BY <2>2 DEF TSDBMounts, When
  <2>5. tsdbStatefulSet(m) = tsdbStatefulSet(n)
    BY <2>3, <2>4 DEF tsdbStatefulSet
  <2> QED
    BY <1>9, <2>5 DEF Operators
<1> QED
  BY <1>3, <1>4, <1>5, <1>6, <1>7, <1>8, <1>9 DEF Components

\* Nor is the template that comes of them and of the user's part.
LEMMA TemplateReads ==
  ASSUME NEW c, NEW m, NEW n, Agree(m, n, OwnFields), Operators(c, m) = Operators(c, n)
  PROVE  Template(c, m) = Template(c, n)
<1>1. /\ m.extraEnv = n.extraEnv /\ m.extraVolumes = n.extraVolumes
      /\ m.extraMounts = n.extraMounts /\ m.resources = n.resources
      /\ m.podTemplate = n.podTemplate
  BY DEF Agree, OwnFields
<1> DEFINE ours == Operators(c, m)
<1> HIDE DEF ours
<1>2. ours = Operators(c, m) /\ ours = Operators(c, n)
  BY DEF ours
<1>3. /\ Environment(ours, m) = Environment(ours, n) /\ Volumes(ours, m) = Volumes(ours, n)
      /\ Mounts(ours, m) = Mounts(ours, n) /\ Resources(ours, m) = Resources(ours, n)
  BY <1>1 DEF Environment, Volumes, Mounts, Resources
<1> QED
  BY <1>1, <1>2, <1>3 DEF Template

\* A component a field may not roll does not read it.
LEMMA NotRead ==
  ASSUME NEW c \in Components, NEW f, NEW m, c \notin MayRoll(f, m)
  PROVE  /\ f \notin OwnFields /\ f \notin Reads(c)
         /\ c \in Bindplane /\ m.eventBus = "default" => f \notin {"replicas", "natsReplicas"}
<1>1. f \notin OwnFields
  BY DEF MayRoll, OwnFields
<1>2. f \notin Reads(c)
  <2>1. CASE c \in Bindplane
    BY <2>1 DEF MayRoll, Reads, Bindplane, Components, CommonFields, ConfigFields
  <2>2. CASE c \in {"transformAgent", "tsdb"}
    BY <2>2 DEF MayRoll, Reads, Bindplane, Components
  <2> QED
    BY <2>1, <2>2 DEF Bindplane
<1>3. c \in Bindplane /\ m.eventBus = "default" => f \notin {"replicas", "natsReplicas"}
  BY DEF MayRoll
<1> QED
  BY <1>1, <1>2, <1>3

\* A manifest always has all its fields.
Whole == DOMAIN manifest = DOMAIN Minimal

LEMMA AlwaysWhole == Spec => []Whole
<1>1. Init => Whole
  BY DEF Init, Whole
<1>2. Whole /\ [Next]_vars => Whole'
  BY DEF Whole, Next, Edit, vars
<1> QED
  BY <1>1, <1>2, PTL DEF Spec

\* Whatever the manifest and whatever a field is changed to: the pods of the other
\* components stay as they are.
THEOREM EditRollsOnlyItsOwn == Spec => RollsOnlyItsOwn
<1> DEFINE Step ==
      \A f \in DOMAIN Alternatives :
        manifest'[f] # manifest[f] /\ w \notin MayRoll(f, manifest) /\ Built /\ Built'
          => pod' = pod
<1>1. Admitted /\ UpToDate /\ Whole /\ [Next]_vars => [Step]_vars
  <2> SUFFICES ASSUME Admitted, UpToDate, Whole, Next, NEW f \in DOMAIN Alternatives,
                      manifest'[f] # manifest[f], w \notin MayRoll(f, manifest)
               PROVE  pod' = pod
    OBVIOUS
  <2>1. PICK g \in DOMAIN Alternatives : \E v \in Alternatives[g] \cup {Minimal[g]} : Edit(g, v)
    BY DEF Next
  <2>2. PICK v \in Alternatives[g] \cup {Minimal[g]} : Edit(g, v)
    BY <2>1
  <2>3. manifest' = [manifest EXCEPT ![g] = v] /\ pod' = Template(w, manifest')
    BY <2>2 DEF Edit
  <2>4. f = g
    BY <2>3, AlternativesAssumption DEF Whole
  <2>5. \A h \in DOMAIN Minimal \ {f} : manifest[h] = manifest'[h]
    BY <2>3, <2>4 DEF Whole
  <2>6. w \in Components
    BY DEF Admitted
  <2>7. /\ f \notin OwnFields /\ f \notin Reads(w)
        /\ w \in Bindplane /\ manifest.eventBus = "default" => f \notin {"replicas", "natsReplicas"}
    BY <2>6, NotRead
  <2>8. /\ OwnFields \subseteq DOMAIN Minimal /\ Reads(w) \subseteq DOMAIN Minimal
        /\ {"replicas", "natsReplicas"} \subseteq DOMAIN Minimal
    BY <2>6, TypesAssumption DEF OwnFields, Reads, CommonFields, ConfigFields, Components, Fields, FieldTypes
  <2>9. Agree(manifest, manifest', OwnFields) /\ Agree(manifest, manifest', Reads(w))
    BY <2>5, <2>7, <2>8 DEF Agree
  <2>10. w \in Bindplane /\ manifest.eventBus = "default" =>
           manifest.replicas = manifest'.replicas /\ manifest.natsReplicas = manifest'.natsReplicas
    BY <2>5, <2>7, <2>8
  <2>11. Operators(w, manifest) = Operators(w, manifest')
    BY <2>6, <2>9, <2>10, OperatorsRead
  <2> QED
    BY <2>3, <2>9, <2>11, TemplateReads DEF UpToDate
<1>2. RollsOnlyItsOwn <=> [][Step]_vars
  BY PTL DEF RollsOnlyItsOwn
<1> QED
  BY <1>1, <1>2, AlwaysAdmitted, AlwaysUpToDate, AlwaysWhole, PTL DEF Spec
=============================================================================
