------------------------------- MODULE Backing -------------------------------
(***************************************************************************)
(* The objects behind the workloads' pods: the cert-manager Certificates   *)
(* of internal TLS, the generated Secrets, and the local TSDB with its     *)
(* basic-auth Secret and web-config ConfigMap, as Reconcile creates,       *)
(* updates and deletes them one by one (reconcileInternalTLSCertificates,  *)
(* reconcileSessionSecret, reconcileStatusSecret, reconcileTSDB), followed *)
(* by the workloads whose pods read them.                                  *)
(*                                                                         *)
(* The operator reads all of them through caches, but watches only some:   *)
(* a Secret, ConfigMap or Certificate wakes nobody when the cache learns   *)
(* of it (SetupWithManager).  What a reconcile decides on an outdated copy *)
(* of one of those stays until something else wakes it.                    *)
(*                                                                         *)
(* "node" stands for the Bindplane workloads behind the migration gate     *)
(* (Node, Jobs, NATS); the gate is open throughout (MigrationGate), and    *)
(* the CR is neither paused nor deleted (Lifecycle).                       *)
(***************************************************************************)
EXTENDS Naturals, Sequences, SpecSwitches

CONSTANTS
  Tracked,    \* the objects looked at
  Switches,   \* the parts of the spec a user may switch on and off
  FirstOn,    \* what may be switched on from the beginning
  MaxEdits,   \* bound: user edits
  MaxFaults   \* bound: API errors, lost replies, operator restarts, pods lost

Unwatched == Certificates \cup GeneratedSecrets \cup {"webConfig"}
Workloads == {"tsdb", "node"}
Watched == Workloads \cup {"tsdbAccount", "tsdbService"}

ASSUME BackingAssumption ==
  /\ Tracked \subseteq Unwatched \cup Watched /\ Tracked # {}
  /\ "webConfig" \in Tracked => "basicAuth" \in Tracked
  /\ Switches \subseteq AllSwitches
  /\ FirstOn \subseteq SUBSET Switches
  /\ MaxEdits \in Nat /\ MaxFaults \in Nat

VARIABLES
  specs,           \* what the user has written: the spec of each generation
  crCache,         \* the generation the operator's cache holds
  objects, cache,  \* the tracked objects: live and cached
  changed,         \* those with changes the cache has not been told of
  blind,           \* unwatched objects last decided on with an outdated copy
  issued,          \* Certificates whose Secret cert-manager has issued
  pods,            \* what the pod of each workload runs with
  drawn,           \* random values generated so far
  queued,          \* the CR's key is in the work queue
  worker,          \* the reconcile in progress
  faults

crVars == <<specs, crCache>>
storeVars == <<objects, cache, changed>>
podVars == <<issued, pods>>
vars == <<crVars, storeVars, blind, podVars, drawn, queued, worker, faults>>

-----------------------------------------------------------------------------
(* Objects                                                                 *)

Absent == [there |-> FALSE]
Object(data) == [there |-> TRUE, data |-> data]

\* Objects whose data no reader tells apart.
Plain == "data"

\* The spec, as the set of what is switched on.
CR == SUBSET Switches

\* snap: the generation that is reconciled; todo: the objects still to come.
Idle == [pc |-> "idle"]
Worker == {Idle} \cup [pc : {"apply"}, snap : Nat \ {0}, todo : (SUBSET Tracked) \ {{}}]

-----------------------------------------------------------------------------
(* What the CR asks for                                                    *)

\* validateTSDBComponentTLSConfig, validateTSDBTLSConfig: asked only where
\* certManager is set.  (The two validations of natsTLS and agentTLS cannot fail
\* where they are asked.)
Refused(i, c) ==
  \/ i = "serverCert" /\ {"serverTLS", "serverSecret"} \subseteq c
  \/ i = "clientCert" /\ {"clientTLS", "clientSecret"} \subseteq c

\* issuerRefToCM; stands for all that goes into a Certificate.
Issuer(c) == IF "otherIssuer" \in c THEN "other" ELSE "first"

\* Deleted when not wanted; a session or status Secret is left alone.
Deletable == Certificates \cup LocalTSDB

\* The order of Reconcile; deleteTSDBLocalResourcesIfExist has one of its own.
Order(c) ==
  IF Remote(c)
  THEN <<"serverCert", "probeCert", "clientCert", "natsCert", "agentCert", "sessionSecret", "statusSecret",
         "tsdb", "tsdbService", "tsdbAccount", "basicAuth", "webConfig", "node">>
  ELSE <<"serverCert", "probeCert", "clientCert", "natsCert", "agentCert", "sessionSecret", "statusSecret",
         "basicAuth", "webConfig", "tsdbAccount", "tsdb", "tsdbService", "node">>

\* web.yml: the hash of the password in the Secret, the certificate to serve and
\* whether clients have to show one (tsdbWebConfig).
WebConfig(hash, c) ==
  [hash |-> hash, tls |-> ServerTLS(c), mtls |-> ServerTLS(c) # "none" /\ ServerMTLS(c)]

\* The TSDB's volumes and arguments depend on the kind of TLS, and on a caKey only
\* with a Secret of the user; the Node's environment and mounts on where the TSDB
\* is and on the certificates it uses.
Template(w, c) ==
  IF w = "tsdb" THEN [tls |-> ServerTLS(c), ca |-> ServerTLS(c) = "secret" /\ "serverCA" \in c]
  ELSE [remote |-> Remote(c), tls |-> ClientTLS(c), others |-> c \cap {"natsTLS", "agentTLS"}]

\* What a step writes, given the cached basic-auth Secret.
Data(i, c) ==
  CASE i \in Certificates -> Issuer(c)
    [] i = "webConfig"    -> WebConfig(cache["basicAuth"].data, c)
    [] i \in Workloads    -> Template(i, c)
    [] OTHER              -> Plain

-----------------------------------------------------------------------------
(* Reconcile                                                               *)

\* Reconcile returned an error: the key goes back to the queue.
Fail ==
  /\ worker' = Idle
  /\ queued' = TRUE

\* The answer to a call that took effect arrives, or is lost on the way.
Reply(next) ==
  \/ /\ worker' = next
     /\ UNCHANGED <<queued, faults>>
  \/ /\ faults < MaxFaults
     /\ faults' = faults + 1
     /\ Fail

StartReconcile ==
  /\ worker.pc = "idle"
  /\ queued
  /\ queued' = FALSE
  /\ worker' = [pc |-> "apply", snap |-> crCache, todo |-> Tracked]
  /\ UNCHANGED <<crVars, storeVars, blind, podVars, drawn, faults>>

Snap == specs[worker.snap]

\* i is the object in turn.
Turn(i) ==
  /\ i \in worker.todo
  /\ \E p \in DOMAIN Order(Snap) :
       /\ Order(Snap)[p] = i
       /\ \A q \in 1..(p - 1) : Order(Snap)[q] \notin worker.todo

\* Mutant: off by one.
StepPastLast(i) == [worker EXCEPT !.todo = @ \ {i}]

NextStep(i) == IF worker.todo = {i} THEN Idle ELSE [worker EXCEPT !.todo = @ \ {i}]

\* A write and the event it causes.
Write(i, object) ==
  /\ objects' = [objects EXCEPT ![i] = object]
  /\ changed' = changed \cup {i}

\* The objects a step on i reads.
Reads(i) == IF i = "webConfig" THEN {i, "basicAuth"} ELSE {i}

\* i has been decided on; was a copy outdated?
Note(i) ==
  blind' = IF i \in Unwatched /\ \E j \in Reads(i) : cache[j] # objects[j]
           THEN blind \cup {i} ELSE blind \ {i}

Skip(i) ==
  /\ worker' = NextStep(i)
  /\ Note(i)
  /\ UNCHANGED <<objects, changed, drawn, queued, faults>>

\* The call fails and has no effect: a conflict, AlreadyExists, NotFound.
Reject ==
  /\ Fail
  /\ UNCHANGED <<objects, changed, blind, drawn, faults>>

\* Mutant: a new value is generated every time.
RotateSecret(i) ==
  /\ cache[i].there = objects[i].there /\ i \notin changed
  /\ drawn' = drawn + 1
  /\ Write(i, Object(drawn + 1)) /\ Note(i)
  /\ Reply(NextStep(i))

\* reconcileSessionSecret, reconcileStatusSecret, reconcileTSDBBasicAuthSecret:
\* created with a random value when the cache has none, never written again.
EnsureSecret(i) ==
  \/ /\ cache[i].there
     /\ Skip(i)
  \/ /\ ~cache[i].there /\ ~objects[i].there
     /\ drawn' = drawn + 1
     /\ Write(i, Object(drawn + 1)) /\ Note(i)
     /\ Reply(NextStep(i))
  \/ /\ ~cache[i].there /\ objects[i].there
     /\ Reject

\* An update sends the object that was found, resourceVersion included: it takes
\* effect only on the version that was read.
NoConflict(i) == i \notin changed

\* Mutant: only the basic-auth part is looked at before an update.
SameHash(i, found, wanted) ==
  IF i = "webConfig" THEN found.hash = wanted.hash ELSE found = wanted

\* reconcileCertificate, reconcileStatefulSet, reconcileServiceAccount and
\* reconcileService leave alone what is right already.  The web-config ConfigMap
\* is sent every time; without a change that only costs a conflict when the copy
\* is outdated.
UpToDate(i, found, wanted) == found = wanted

Ensure(i, c) ==
  \/ /\ ~cache[i].there /\ ~objects[i].there
     /\ Write(i, Object(Data(i, c))) /\ Note(i)
     /\ UNCHANGED drawn
     /\ Reply(NextStep(i))
  \/ /\ cache[i].there /\ UpToDate(i, cache[i].data, Data(i, c))
     /\ i # "webConfig" \/ NoConflict(i)
     /\ Skip(i)
  \/ /\ cache[i].there /\ ~UpToDate(i, cache[i].data, Data(i, c)) /\ NoConflict(i)
     /\ Write(i, Object(Data(i, c))) /\ Note(i)
     /\ UNCHANGED drawn
     /\ Reply(NextStep(i))
  \/ /\ IF cache[i].there
        THEN ~NoConflict(i) /\ (i = "webConfig" \/ ~UpToDate(i, cache[i].data, Data(i, c)))
        ELSE objects[i].there
     /\ Reject

\* Mutant: the ConfigMap is left behind when the TSDB becomes remote.
LeavesConfig(i) == cache[i].there /\ i # "webConfig"

MustGo(i) == cache[i].there

\* deleteCertificateIfExists, deleteTSDBLocalResourcesIfExist: the NotFound of an
\* object that only the cache still has is an error.
Remove(i) ==
  \/ /\ ~MustGo(i)
     /\ Skip(i)
  \/ /\ MustGo(i) /\ objects[i].there
     /\ Write(i, Absent) /\ Note(i)
     /\ UNCHANGED drawn
     /\ Reply(NextStep(i))
  \/ /\ MustGo(i) /\ ~objects[i].there
     /\ Reject

\* Without a basic-auth Secret in the cache there is nothing to compute web.yml from.
NoSource(i) == i = "webConfig" /\ ~cache["basicAuth"].there

Apply ==
  /\ worker.pc = "apply"
  /\ \E i \in Tracked :
       /\ Turn(i)
       /\ IF Wants(i, Snap)
          THEN IF Refused(i, Snap) \/ NoSource(i) THEN Reject
               ELSE IF i \in GeneratedSecrets THEN EnsureSecret(i) ELSE Ensure(i, Snap)
          ELSE IF i \in Deletable THEN Remove(i) ELSE Skip(i)
  /\ UNCHANGED <<crVars, cache, podVars>>

\* Any other failure of a call.
CallFails ==
  /\ worker.pc = "apply"
  /\ faults < MaxFaults
  /\ faults' = faults + 1
  /\ Fail
  /\ UNCHANGED <<crVars, storeVars, blind, podVars, drawn>>

Restart ==
  /\ faults < MaxFaults
  /\ faults' = faults + 1
  /\ Fail
  /\ crCache' = Len(specs)
  /\ cache' = objects /\ changed' = {}
  /\ UNCHANGED <<specs, objects, blind, podVars, drawn>>

-----------------------------------------------------------------------------
(* Informers, cert-manager, pods and the user                              *)

DeliverCR ==
  /\ crCache < Len(specs)
  /\ crCache' = Len(specs)
  /\ queued' = TRUE
  /\ UNCHANGED <<specs, storeVars, blind, podVars, drawn, worker, faults>>

\* SetupWithManager, Owns: the event enqueues the owner.
Wakes(i) == i \in Watched

Deliver(i) ==
  /\ i \in changed
  /\ changed' = changed \ {i}
  /\ cache' = [cache EXCEPT ![i] = objects[i]]
  /\ queued' = (queued \/ Wakes(i))
  /\ UNCHANGED <<crVars, objects, blind, podVars, drawn, worker, faults>>

\* The informers repeat, after hours, an event for every watched object, the CR
\* for one.
Resync ==
  /\ ~queued
  /\ queued' = TRUE
  /\ UNCHANGED <<crVars, storeVars, blind, podVars, drawn, worker, faults>>

\* cert-manager issues a Secret for a Certificate, and leaves it when that goes.
Issue(i) ==
  /\ i \in Certificates \ issued
  /\ objects[i].there
  /\ issued' = issued \cup {i}
  /\ UNCHANGED <<crVars, storeVars, blind, pods, drawn, queued, worker, faults>>

\* What the pod mounts or takes its environment from.
NeededCerts(w, template) ==
  IF w = "tsdb" THEN IF template.tls = "certManager" THEN {"serverCert", "probeCert"} ELSE {}
  ELSE (IF template.tls = "certManager" THEN {"clientCert"} ELSE {})
       \cup (IF "natsTLS" \in template.others THEN {"natsCert"} ELSE {})
       \cup (IF "agentTLS" \in template.others THEN {"agentCert"} ELSE {})

NeededObjects(w, template) ==
  (IF w = "tsdb" THEN {"webConfig", "basicAuth"}
   ELSE {"sessionSecret"} \cup (IF template.remote THEN {} ELSE {"basicAuth"})) \cap Tracked

NoPod == [up |-> FALSE]

\* A pod starts, or replaces one of an older template, once all it needs is there.
\* web.yml is mounted with subPath and the password is an environment variable:
\* both keep the value they have at this moment.
PodStarts(w) ==
  LET template == objects[w].data IN
  /\ objects[w].there
  /\ pods[w].up => pods[w].template # template
  /\ NeededCerts(w, template) \cap Tracked \subseteq issued
  /\ \A i \in NeededObjects(w, template) : objects[i].there
  /\ pods' = [pods EXCEPT ![w] =
       [up |-> TRUE, template |-> template,
        read |-> IF w = "tsdb" THEN objects["webConfig"].data
                 ELSE IF template.remote THEN Plain ELSE objects["basicAuth"].data]]
  /\ UNCHANGED <<crVars, storeVars, blind, issued, drawn, queued, worker, faults>>

PodStops(w) ==
  /\ pods[w].up /\ ~objects[w].there
  /\ pods' = [pods EXCEPT ![w] = NoPod]
  /\ UNCHANGED <<crVars, storeVars, blind, issued, drawn, queued, worker, faults>>

PodLost(w) ==
  /\ pods[w].up
  /\ faults < MaxFaults
  /\ faults' = faults + 1
  /\ pods' = [pods EXCEPT ![w] = NoPod]
  /\ UNCHANGED <<crVars, storeVars, blind, issued, drawn, queued, worker>>

Edit(c) ==
  /\ Len(specs) <= MaxEdits
  /\ specs' = Append(specs, c)
  /\ UNCHANGED <<crCache, storeVars, blind, podVars, drawn, queued, worker, faults>>

Live == specs[Len(specs)]

Switch(s) == Edit(IF s \in Live THEN Live \ {s} ELSE Live \cup {s})

-----------------------------------------------------------------------------
Init ==
  /\ specs \in {<<c>> : c \in FirstOn}
  /\ crCache = 1
  /\ objects = [i \in Tracked |-> Absent] /\ cache = objects /\ changed = {}
  /\ blind = {}
  /\ issued = {}
  /\ pods = [w \in Workloads \cap Tracked |-> NoPod]
  /\ drawn = 0
  /\ queued = TRUE
  /\ worker = Idle
  /\ faults = 0

Reconciling == StartReconcile \/ Apply

Pods(w) == PodStarts(w) \/ PodStops(w)

Next ==
  \/ Reconciling \/ CallFails \/ Restart
  \/ DeliverCR \/ Resync
  \/ \E i \in Tracked : Deliver(i) \/ Issue(i)
  \/ \E w \in Workloads \cap Tracked : PodStarts(w) \/ PodStops(w) \/ PodLost(w)
  \/ \E s \in Switches : Switch(s)

Spec == Init /\ [][Next]_vars

Informers == DeliverCR \/ \E i \in Tracked : Deliver(i)

Cluster == (\E i \in Tracked : Issue(i)) \/ \E w \in Workloads \cap Tracked : Pods(w)

\* The worker, the informers with their resync, and the cluster (cert-manager and
\* the kubelets) keep going; the user and faults owe nothing.
FairSpec ==
  Spec /\ WF_vars(Reconciling) /\ WF_vars(Informers) /\ WF_vars(Resync) /\ WF_vars(Cluster)

-----------------------------------------------------------------------------
(* Properties                                                              *)

\* Every variable keeps its type.
TypeOK ==
  /\ specs \in Seq(CR) /\ Len(specs) \in 1..(MaxEdits + 1)
  /\ crCache \in 1..Len(specs)
  /\ DOMAIN objects = Tracked /\ DOMAIN cache = Tracked
  /\ changed \subseteq Tracked /\ blind \subseteq Tracked
  /\ issued \subseteq Certificates
  /\ DOMAIN pods = Workloads \cap Tracked
  /\ drawn \in Nat
  /\ queued \in BOOLEAN
  /\ worker \in Worker
  /\ worker.pc = "apply" => worker.snap <= crCache
  /\ faults \in 0..MaxFaults

\* Nothing is under way and nothing but a resync will wake the worker.
AtRest == worker.pc = "idle" /\ ~queued /\ crCache = Len(specs) /\ changed = {}

\* The spec asks for nothing Reconcile refuses.
Accepted(c) == \A i \in Tracked : ~(Wants(i, c) /\ Refused(i, c))

\* Object i is as c asks; a generated value is what the ConfigMap is for.
AsAskedBy(i, c) ==
  /\ Wants(i, c) => objects[i].there
  /\ ~Wants(i, c) /\ i \in Deletable => ~objects[i].there
  /\ objects[i].there =>
       CASE i \in Certificates -> objects[i].data = Issuer(c)
         [] i = "webConfig" -> objects[i].data = WebConfig(objects["basicAuth"].data, c)
         [] i \in Workloads -> objects[i].data = Template(i, c)
         [] OTHER -> TRUE

AsAsked(i) == AsAskedBy(i, Live)

\* At rest every object is as the CR asks, unless the last decision about it was
\* made on an outdated copy of an object nobody watches: however creations,
\* updates, deletions, errors and crashes interleave, no Certificate is left over
\* or missing, no Secret of a removed TSDB survives, and web.yml holds the hash of
\* the password the Secret holds.
RestsAsAsked == AtRest => Accepted(Live) /\ \A i \in Tracked : i \in blind \/ AsAsked(i)

\* security.md:48: a generated Secret is never given another value, and nobody
\* but a switch to a remote TSDB takes one away.
SecretsKept ==
  [][\A i \in GeneratedSecrets \cap Tracked :
       objects[i].there /\ objects'[i] # objects[i] =>
         ~objects'[i].there /\ i = "basicAuth" /\ Remote(Snap)]_vars

\* Left alone, and resynced once in a while, all objects end up as the CR asks
\* and every pod gets to run on its workload's template: none waits for ever for
\* a Secret, ConfigMap or certificate nobody makes.
Settles ==
  <>[](Accepted(Live) =>
         /\ \A i \in Tracked : AsAsked(i)
         /\ \A w \in Workloads \cap Tracked :
              objects[w].there => pods[w].up /\ pods[w].template = objects[w].data)

\* What security.md says exists for which option; sections "Internal TLS",
\* "TSDB basic auth", "Status check keys" and "Session secret".
Documented(c) ==
  {i \in Tracked :
     CASE i \in {"serverCert", "probeCert"} -> "serverTLS" \in c
       [] i = "clientCert" -> "clientTLS" \in c
       [] i = "natsCert" -> "natsTLS" \in c
       [] i = "agentCert" -> "agentTLS" \in c
       [] i = "sessionSecret" -> "userSession" \notin c
       [] i = "statusSecret" -> "noStatus" \notin c /\ "userStatus" \notin c
       [] i \in LocalTSDB -> "remote" \notin c
       [] OTHER -> TRUE}

Serving == IF worker.pc = "idle" THEN crCache ELSE worker.snap

Present == {i \in Tracked : objects[i].there}

\* The objects come and go as the documentation promises.
Contract == INSTANCE DesiredObjects WITH
  Specs <- CR, Objects <- Tracked, Wanted <- Documented,
  asked <- specs, serving <- Serving, present <- Present
KeepsContract == Contract!Spec

-----------------------------------------------------------------------------
(* What the documentation says and the code does not keep                  *)

\* The pods run on the templates of their workloads.
PodsCurrent ==
  \A w \in Workloads \cap Tracked :
    IF objects[w].there THEN pods[w].up /\ pods[w].template = objects[w].data ELSE ~pods[w].up

\* security.md:73: with both certManagers set, mTLS is enabled: the running TSDB
\* asks its clients for a certificate.
MTLSEnabled ==
  AtRest /\ PodsCurrent /\ ~Remote(Live) /\ {"serverTLS", "clientTLS"} \subseteq Live
    => pods["tsdb"].read.mtls
=============================================================================
