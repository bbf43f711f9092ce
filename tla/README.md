# Verification of the Bindplane operator

TLA+ models of the Kubernetes operator in this repository, TLC runs that check
them on small instances, and TLAPS proofs of what matters most.  Line numbers
refer to the commit this directory sits beside; `BC` is
`internal/controller/bindplane_controller.go`.

## 1. The system

One controller reconciles the `Bindplane` custom resource (CR) into the
Deployments, StatefulSets, Jobs, Services, Secrets and other objects of a
Bindplane installation.  `cmd/main.go` starts a manager with shared informer
caches, a work queue and, unless it is switched off, the validating admission
webhook.  A CR's key is never reconciled twice at a time, so the concurrency is
not between workers but between *one* reconcile and everybody else who writes to
the API server: the user, the workload controllers, the Job and TTL controllers,
the autoscaler, Argo Rollouts, cert-manager and the garbage collector.

| component | state it keeps | operations | interacts through |
|---|---|---|---|
| Reconcile (`BC`:514) | finalizer, `status.phase`, `Reconciled` condition, observed generation | fetch, delete, finalizer, pause, validate, component reconcilers in a fixed order, status | caches, API writes, watches (`SetupWithManager`), requeue on error |
| migration gate (`jobs.go`, `applyMigrateGate`) | migrate Job, `status.components.jobsMigrate.image` | create, delete, observe the Job; record; halt or pass | Job watch, annotations `force-migrate`, `skip-migrate-check`, `RequeueAfter` |
| Jobs, NATS, Transform Agent, OpAMP | Deployment or StatefulSet, ServiceAccount, Services, PDB, HPA | create or update; delete when disabled | owned-object watches |
| Node (`node*.go`) | Deployment or Argo Rollout, Service, PDB, HPA | switch between the kinds, leave the scale to the HPA, leave the selector to Argo | Argo controller, HPA controller |
| TSDB (`prometheus.go`) | StatefulSet, Service, ServiceAccount, web-config ConfigMap, basic-auth Secret | local or remote; web config from the Secret | caches of kinds nobody watches; pods read the ConfigMap and the Secret when they start |
| readiness (`BC`:759) | `status.components`, `status.phase` | read six counts, judge | caches, status update |
| internal TLS (`cert_manager.go`) | Certificates | create, update or delete per option | cert-manager; pods wait for the Secrets it issues |
| Secrets (`session_secret.go`, `status_secret.go`) | generated Secrets | create once | not watched |
| pod templates (`config_env.go`, `go_runtime_env.go`, merges in `BC`) | none | environment, volumes, limits, merge of the user's template | |
| validation and webhook | the flags of the process | accept or reject a spec | API server admission |

What is hard, and what the properties are therefore about:

* **Every read is from a cache.**  Copies of the CR and of each object may be any
  number of changes old, and each of them differently; updates and status updates
  carry a resourceVersion, creates fail on what exists, but deletes are by name and
  succeed on whatever is there.
* **A reconcile is a sequence of calls**, each of which may fail, succeed with the
  answer lost, or be the last before the process dies; the retry starts from the
  beginning with other copies.
* **Nothing polls** (except while a migration runs).  Whatever can make a reconcile
  necessary has to wake the worker by an event or an error.
* **Objects are shared with other controllers**: replicas with the HPA, the
  Service's selector with Argo, the Job with the Job and TTL controllers.
* **Process flags change what is valid** between one admission and the next.
* **Some kinds are read but not watched** (Secrets, ConfigMaps, Certificates): what is
  decided on an outdated copy of one stays decided.
* **One environment is shared by five components**, and what a pod refers to (Secrets,
  files, settings) is decided in other files than what the operator keeps.

## 2. Modules

| module | what it is | lines of code it stands for |
|---|---|---|
| `MigrationContract` | what the operator promises about migrations, with no word of Jobs or caches | docs, "Migration contract" |
| `MigrationGate` | the migrate Job, the gate, the rollout behind it and the status | `jobs.go`:323-480, `BC`:514-755, 952-1069 |
| `MCMigrationGate` | its instances | |
| `MigrationGateProofs` | theorems about it: types, the gate, the contract | |
| `MigrationStatusProofs` | theorems about it: deletion, status, rest | |
| `Lifecycle` | the CR from creation to garbage collection, webhook, flags | `BC`:514-600, 929-981, 1132-1145, `session_secret.go`, webhook, `validate.go` |
| `MCLifecycle` | its instances | |
| `LifecycleProofs` | theorems about it | |
| `WorkloadContract` | what the documentation promises of the workloads: which spec each follows, and whose its number of replicas is | `configuration.md`, `autoscaling.md` |
| `Workloads` | Deployments, StatefulSets, Rollout; readiness | `BC`:611-680, 759-861, 952-1069, `node.go`, `opamp.go` |
| `WorkloadsProofs` | theorems about it | |
| `NodeAccess` | Service, PDB and HPA of the Node workload | `BC`:1071-1213, `node.go`:74-96, `node_autoscaling.go` |
| `NodeAccessProofs` | theorems about it | |
| `SpecSwitches` | which option calls for which Certificate, Secret or TSDB object | `cert_manager.go`:36-159, `prometheus.go`:130-159, 211-277, `status_secret.go` |
| `DesiredObjects` | what the documentation promises of those objects, with no word of caches, errors or order | `security.md` |
| `Backing` | the objects behind the pods, and the pods that read them | `cert_manager.go`, `prometheus.go`, `session_secret.go`, `status_secret.go`, `BC`:597-664 |
| `BackingProofs` | theorems about it | |
| `Validation` | the rules of `ValidateBindplane` over a manifest | `validate.go` |
| `PodEnvironment` | the environment of the containers | `config_env.go`, `nats.go`:302-366, `opamp.go`:312-337 |
| `PodTemplates` | the pod templates of the seven components | `bindplane_controller.go`:1215-1970, the builders of `node.go`, `node_rollout.go`, `opamp.go`, `jobs.go`, `nats.go`, `transform_agent.go`, `prometheus.go`, `go_runtime_env.go` |
| `MCTemplates` | the manifests it is checked on | |
| `PodTemplateProofs` | theorems about them: names, labels, what an edit rolls | |
| `PodContentProofs` | theorems about what is in them: volumes, mounts, environment, limits | |

The five state machines cut `Reconcile` where it is sequential: `Lifecycle` up to the first
component with one stand-in for watched and one for unwatched objects;
`MigrationGate` from the Job to the status, with each workload reduced to the image
it was last given and the image the cache shows; `Workloads` the same stretch with the gate open and the objects in
full; `NodeAccess` the tail of `reconcileNode` after the workload itself; `Backing` what
comes between validation and the gate, with the Node workload after it as the one
that reads it.  The templates the workloads carry are one value there; `PodTemplates`
looks into them.  It is a state machine too, a small one: the user edits a field of the
manifest, and the webhook admits the result or not; what is stored determines the pod
template of every component, which the state holds next to it (`pod`) for the one
component the behaviour looks at.  `SpecSwitches` is shared by `Backing`, which keeps
the objects an option calls for, and `PodEnvironment` and `PodTemplates`, which refer to
them: that the two agree is `RefsProvided`.

`MigrationGate` instantiates `MigrationContract` (`Contract == INSTANCE ...`, the
variables of the contract are four of its own and, for the round that is owed, the key
in the queue) and has its specification as a
property; `Backing` does the same with `DesiredObjects`, mapping the generation that
is being reconciled and the set of objects that exist.  `Workloads` does so with
`WorkloadContract`: the contract knows three specs, the latest, the one seen and the one
served, which are those of the CR, of its cached copy and of the worker's (the
cached one when the worker is idle), and each workload's version and replicas.

**How the code appears.**  The worker is a record: `pc` names the next call,
`snap` is the copy of the CR read at the start, `fresh` says whether it still has the
live resourceVersion.  One action is one call to the API server with all that the
code does up to the next.  Where a reconcile goes through a list of objects
(`Workloads`, `Backing`) `todo` is what it has still to deal with and `Order` the order
of the code; `Turn` says whose turn it is.  Every writing call has three outcomes: it takes effect and
the answer arrives, it takes effect and the answer is lost (`Reply`), it fails with no
effect (`CallFails`, or a conflict).  `Fail` is `return ctrl.Result{}, err`:
the worker is idle and the key is queued again.  `Restart` (`Crash` in
`MigrationGate`) loses the worker, queues the key and rereads the caches as far as an
informer's first list does.

**Caches** come in two granularities.  In `Lifecycle` every object has a watch
stream, a sequence of versions delivered one at a time; so have the CR and the Job in
`MigrationGate`.  In `Workloads`
and `NodeAccess` an object has a cached copy and membership in `changed`: a delivery
takes the newest version, and an update conflicts as long as the object is in
`changed`.  That skips intermediate versions, which no test in these components
remembers, and keeps what matters: that the copy is stale, and that a stale copy that
happens to have the same content still conflicts.  The workloads of `MigrationGate` are
like that (`workloadCache`, `unseen`), with no loss: as long as a change is on its
way to the cache no further write of the operator succeeds, so there is no image
in between.

`reconcileDeployment` skips an update that changes nothing, but compares with a spec to
which the API server has added its defaults; so such an update may be sent all the
same, and `UpdateWorkload` in `MigrationGate`, `Ensure` in `Workloads` and
`EnsureWorkload` in `Lifecycle` allow both.  The skip is taken whenever the *cached*
copy is as desired (`BC`:975, 1004, 1058), whatever the live one is.
`reconcileService` and `reconcilePodDisruptionBudget` compare what they set, and the
HPA is always sent; `Skipped` in `NodeAccess` follows them.  The web-config ConfigMap
is always sent as well, and conflicts on an outdated copy even without a change
(`Ensure` in `Backing`).

`blind` in `Backing` is a history variable: the unwatched objects whose last decision
was made on an outdated copy.  A pod there keeps what it read when it started: web.yml
is mounted with subPath and the password is an environment variable.

A manifest in `PodTemplates` is a record of what the user writes.  A value that may be
given in plain or by reference is `"none"`, `"plain"`, `"ref"` or `"both"`; the files of
a certificate are `CERT`, `KEY` and `CA`; settings that are passed on as they are stand
for one another, except those validation insists on; each environment entry keeps where
it comes from, as that is what the properties compare.

## 3. Runs

Bounds are on user edits, faults (API errors, lost answers, restarts, lost pods) and, for
the gate, failures of the migrate Job.  An interesting schedule needs an edit made
while the previous one is under way, and one fault at any point of it; a property of
the copies of one object needs two contents to tell a stale one from a current one.
`MaxEvents` in the gate bounds edits and failed Jobs together, for the sake of the
liveness check: a failed Job is the second thing to cope with where the other behaviours
have a second edit, and one edit after or before it is enough to retry it by
`force-migrate`, to waive it or to change the image under it.

| run | checks | instance |
|---|---|---|
| `gate` | `TypeOK`, `GateSafety`, `RecordedConfirmed`, `ReconciledTruthful`, `DeleteHitsObserved`, `NoLostWakeup`, `ImplementsContract`, `Settles` | 2 images, 2 workloads; 2 edits, or an edit and a failed Job, and 1 fault or change of a workload's status; 1.4 million states |
| `life` | `TypeOK`, `FinalizerFirst`, `PausedIsQuiet`, `EditsSurvive`, `Settles`, `DeletionUnlessRefused`, `OrphansCollected` | 3 specs (valid, valid under a flag, invalid), all flag settings, 2 edits, 1 fault; 0.67 million states |
| `wl` | `TypeOK`, `KeepsContract`, `NoLostWakeup`, `Settles`, `BecomesReady` | Node as Deployment or Rollout, fixed or autoscaled, 2 versions, 1 or 2 replicas; starting with neither, a Rollout or autoscaling; 2 edits or scalings, 1 fault or lost pod; 0.65 million states |
| `node_access` | `TypeOK`, `NoLostWakeup`, `CutoverKept`, `Settles` | 2 hashes, 2 edits or drifts, 2 cutovers, 1 fault |
| `backing` | `TypeOK`, `RestsAsAsked`, `SecretsKept`, `KeepsContract`, `Settles` | one Certificate, the basic-auth Secret, web.yml and the TSDB; remote and server TLS switched, all four starts, 2 edits, 1 fault; 0.19 million states |
| `templates` | `WellFormed`, `RefsProvided`, `FilesMounted`, `OperatorWins`, `Complete`, `GoLimits`, `SelectorKept`, `NamesFit`, `MajorityRequired`, `RollsOnlyItsOwn` | 7 components, every pair of changes to the smallest manifest that the webhook admits; 15 thousand states |
| `gate_stale_job`, `gate_rollback`, `life_stuck_deletion`, `life_recreated`, `wl_phase`, `backing_mtls` | violations, below | the smallest instance that shows it |

Safety and liveness are checked in one run each, under the fair specification.  In
`backing` one Certificate stands for five, which are created, updated and deleted by the
same code one after the other, and the basic-auth Secret for the other two generated
ones; `backing_mtls` has the Certificates of both sides.  In `templates` a mebibyte is 16
bytes, which keeps the numbers small and does not matter to a division by 100; that
for every number the rounding is right is proved.  Two changes at a time are enough where
a property relates two options, which all of them do at most; a property of three
would need another bound.

Deadlock is checked in `templates`.  Elsewhere the system really stops, with the
budgets spent and everything settled, and that it stops only then is what
`NoLostWakeup` and `Settles` say.

What the passing runs show:

* **Gate.**  No workload ever runs an image whose migration has not succeeded unless
  the check was waived for it (`GateSafety`); the recorded image is always a
  confirmed one; a delete by name never hits a younger Job; at rest the image is rolled
  out or the status shows the failure, and that is where every behaviour ends, with no
  `force-migrate` request left (`Settles`).  `Reconciled` at the current generation
  speaks of a migrated image, but not of every workload: an image changed and changed
  back finds the old copy of a workload in a cache that lags far enough, leaves the
  workload alone and reports success while it runs the other image.  What holds, and
  what `ReconciledTruthful` says, is that such a workload has a change on its way to the
  cache, which enqueues the CR, or that a round is due already.  The contract has the same
  exception, no more: a workload is given an image only when those before it in
  the order have it, but for those the operator has not noticed a change of or owes a
  round for, and a round that is owed is only paid by one that begins
  after the change was noticed.
* **Lifecycle.**  Nothing is owned by a CR without finalizer; once a pause
  has been reported no reconcile is in its writing part; whole-object writes never
  undo an edit; unless the webhook refuses the operator's own updates, the cluster
  reaches what the CR asks for and deletion completes; and what a late reconcile creates
  for a CR that is gone is collected.
* **Workloads.**  The operator never undoes a decision of the autoscaler, though the
  replica count it writes comes from a cached copy; at rest exactly the wanted kinds
  exist and the counts in the status are the live ones, not those some older reconcile
  saw; for a Deployment of fixed size without OpAMP `Ready` is exactly readiness.
  In every step the operator follows one spec, never an older one than before: it creates
  and updates what that spec calls for, at its version, deletes only what it does
  not call for, and leaves an autoscaled number of replicas alone (`KeepsContract`).
* **Node access.**  The Service's selector is never turned back under a Rollout, even
  when drift makes the operator rewrite the Service from an old copy; and a selector
  key that Argo writes after the Rollout has gone, when it would leave the
  Service without pods, is always removed; the HPA follows the workload's kind.
* **Backing.**  At rest no Certificate or TSDB object is missing, left over or built
  from an older spec or password, unless it was last decided on blindly, that is on
  an outdated copy of a kind nobody watches; resyncs repair that too (`Settles`).  A
  generated Secret never changes its value.  In every state the operator creates only
  what the spec it works on calls for and removes only what that does not
  (`KeepsContract`).  No pod waits for ever for a Secret or ConfigMap nobody makes.
* **Templates.**  Whatever the webhook admits gives a template the API server accepts
  (`WellFormed`), except where the user's podTemplate replaces the mounts or an extra mount
  takes the path of a configuration file of the TSDB; every Secret it refers to is the user's or one `Backing` keeps for the
  same manifest (`RefsProvided`); every file named in the environment, on the command line
  or in web.yml and probe-http.yml is mounted there (`FilesMounted`, which leaves out
  manifests that give keys of no Secret, and podTemplates with mounts or with a volume of the
  operator's name); a setting of the
  operator is never overridden by `extraEnv` (`OperatorWins`); nothing the chosen
  login, store or export needs is missing (`Complete`); GOMAXPROCS and GOMEMLIMIT fit the
  resources after the merge (`GoLimits`); no label or name gets too long or loses the pods
  (`SelectorKept`, `NamesFit`); the default quorum is a majority; and an edit rolls no
  component but its own (`RollsOnlyItsOwn`), the switch between Deployment and Rollout
  none.

What the violation runs show, each a disagreement between the code and a sentence of
the documentation or a comment (quoted in `PROJECT.json`):

* `gate_stale_job`: the success of a Job read from the cache is recorded although the
  user has had it deleted by `force-migrate`; the fresh one is never created.
* `gate_rollback`: going back to the recorded image while or after a newer image's Job
  runs passes the gate, with the database migrated for the newer one.
* `life_stuck_deletion`: removing the finalizer is an update the webhook checks; a CR
  that a change of flags made invalid cannot be deleted.
* `life_recreated`: a CR deleted and created again accepts the old CR's session
  Secret, which is collected afterwards without an event.
* `wl_phase`: under an Argo Rollout the phase stays `ApplyingChanges` for ever.
* `backing_mtls`: client TLS switched on after server TLS changes web.yml only; the
  running TSDB has it mounted with subPath, its template does not change, and it goes on
  accepting clients without a certificate until its pod is replaced.

Noted while modelling, with no run of their own: `Reconciled` may be reported for a
workload that was skipped, as above; the same verdict compares with
`spec.bindplane.replicas` under autoscaling and leaves OpAMP out (`BC`:784, 830; TLC
finds these as well when `wl_phase` is given only that switch); a failure between
clearing `force-migrate` and resetting the recorded image loses the reset
(`jobs.go`:357-380); the TTL of a failed Job ends its visibility and restarts the
migration; the pause branch leaves the phase alone where `configuration.md`:1398
says `Paused`; `Pending` is set on a copy whose status is not written
(`BC`:528-553); a failed delete of the legacy migrate Deployment is ignored (`jobs.go`:331).

Of the objects and the templates, likewise: `reservedMountPaths` lacks
`/etc/prometheus/web.yml` and `probe-http.yml`, so an extra mount may collide with them
(`validate.go`:74); mounts of the user's podTemplate replace the operator's, and an
element without `subPath` or `readOnly` inherits that of the operator's in its place
(`BC`:1898; `configuration.md`:1070 says such entries are ignored); affinity is merged in the
same way where the comments say it is overridden (`node.go`:270); a name of 39 to 47
characters is admitted although the component label of a Certificate,
`<name>-tsdb-remote-write-server`, is then longer than 63 (`validate.go`:37,
`cert_manager.go`:39); the default quorum leaves out OpAMP and autoscaled replicas, and a
change of `replicas` rolls every Bindplane workload when the quorum is the default
(`config_env.go`:630); Node pods keep the old password when the TSDB is made remote and
local again before they have been updated (the local one goes before the migration
gate), as their template is then the same (`security.md`:50); changes of the volume
claim are ignored (`BC`:1044); `secretName` together with `certManager` is refused by
Reconcile for ever but admitted by the webhook (`cert_manager.go`:162-197); `spec.tsdb.tls`
with only a `caKey` names files that are not mounted (`prometheus.go`:172), as does
`ldap.tls` without a `secretName`; the headroom's product overflows 64 bits from about
0.8 EiB (`go_runtime_env.go`:78).

Every property of a passing run has a mutant in `PROJECT.json`: an operator of the
model, defined just before the original and marked `Mutant:`, that alters one line of
the code the way a slip would (a dropped resourceVersion, a missing `Owns`, a lost
requeue, a `>` for `>=`) and violates the property under the same configuration.

## 4. Fairness

`FairSpec` is weak fairness of
  * `Reconciling`: the worker loop takes a queued key and the calls of one reconcile
    return (client timeouts see to that; a call that fails is `CallFails`, which is not
    fair and bounded, as a call that always fails makes no promise possible);
  * each delivery: a watch that breaks is re-established by its informer.  The gate does
    with less, that something of what is on its way arrives (`Deliver`), as what is on
    its way is finite and TLC checks one condition faster than four;
  * `TimerFires`: `RequeueAfter`;
  * the other controllers, so far as the result depends on them: a running Job finishes
    one way or the other, a deleted Job goes, pods of an existing workload become ready
    or stop, the garbage collector collects, cert-manager issues, Argo's informer learns
    of a Rollout;
  * `Resync` in `Backing` only: controller-runtime's informers repeat their
    events every ten hours.  No other model relies on it, so what they promise does not
    take that long.
Users, scalings, cutovers, drift and faults owe nothing; nor do, in the gate, pods that
change a workload's status (`PodsChange`) and events of other objects (`OwnedEvent`).
Status changes are bounded like faults there, since each of them may make one update
conflict: a status that changes before every retry would hold the rollout back for ever,
and the code promises nothing against that.  Error backoff delays a
retry and never drops it, so it is not modelled.

## 5. Proofs

All theorems hold for every value of the constants that the named assumption of the
module allows; the bounds of section 3 play no part.  Each inductive invariant was
checked by TLC on the instances of section 3 before it was proved.  A proof has a lemma
for each action, or one for each group of actions that do the same to the invariant, and
lemmas for what they share (publishing, delivering, updating, failing).

| module | theorem | says |
|---|---|---|
| `MigrationGateProofs` | `TypeCorrect` | `Spec => []TypeOK` |
| | `GateInvariant` | `Spec => []GateInv` |
| | `GateIsSafe` | `Spec => []GateSafety` |
| | `RecordIsConfirmed` | `Spec => []RecordedConfirmed` |
| | `GateImplementsContract` | `Spec => ImplementsContract` |
| `MigrationStatusProofs` | `JobInvariant` | `Spec => []JobInv` |
| | `DeletionHitsObserved` | `Spec => []DeleteHitsObserved` |
| | `StatusInvariant` | `Spec => []StatusInv` |
| | `ReconciledIsTrue` | `Spec => []ReconciledTruthful` |
| | `NoWakeupIsLost` | `Spec => []NoLostWakeup` |
| `LifecycleProofs` | `LifeInvariant` | `Spec => []LifeInv` |
| | `TypeCorrect` | `Spec => []TypeOK` |
| | `FinalizerIsFirst` | `Spec => []FinalizerFirst` |
| | `PauseIsQuiet` | `Spec => []PausedIsQuiet` |
| | `EditsAreKept` | `Spec => EditsSurvive` |
| `WorkloadsProofs` | `WorkloadsInvariant` | `Spec => []WorkloadsInv` |
| | `TypeCorrect` | `Spec => []TypeOK` |
| | `NoWakeupIsLost` | `Spec => []NoLostWakeup` |
| | `ScaleIsKept` | `Spec => ScaleKept`: the part of the contract about the autoscaler, by itself |
| | `WorkloadsImplementContract` | `Spec => KeepsContract` |
| `NodeAccessProofs` | `AccessInvariant` | `Spec => []AccessInv` |
| | `TypeCorrect` | `Spec => []TypeOK` |
| | `NoWakeupIsLost` | `Spec => []NoLostWakeup` |
| | `CutoverIsKept` | `Spec => CutoverKept` |
| `BackingProofs` | `BackingInvariant` | `Spec => []BackingInv` |
| | `TypeCorrect` | `Spec => []TypeOK` |
| | `ObjectsRestAsAsked` | `Spec => []RestsAsAsked` |
| | `SecretsAreKept` | `Spec => SecretsKept` |
| | `BackingImplementsContract` | `Spec => KeepsContract` |

### The migration gate

`GateAssumption`: the first image is an image, `None` is not one, the order is a
non-empty list that names every workload and no other, the bounds are natural numbers.

`GateSafety` is not inductive: it speaks of the workloads only, while the next image is
on its way to them through copies of the CR and the Job.  `GateInv` says of
*every copy* (live, in a watch stream, in the cache, in the worker's locals) that a
recorded image in a CR is a migrated one and that a succeeded Job's image is; that a
CR copy with the skip annotation has its image waived; that a worker which has passed
the gate holds an image in `migrated \cup waived`; that the workloads before its
position in `Order` have that image, or a change on its way to the cache, unless the key is
queued again (`Reached`); and that the cached copy of a workload is true when no
change is on its way (`Synced`).  The sets only grow, so an old copy stays
good: that is why staleness, conflicts and crashes do no harm to `GateSafety`.  The
proof has one step per action, lemmas for what is published, delivered and deleted, and
a lemma each for steps that leave the sets alone (`QuietStep`), that enlarge them
(`GrowingStep`) and for the update of a workload (`RolloutGate`).

`Reached` is what makes an update of a workload a step of the contract, and the skip
is why it is not simply that the workloads passed have the image.  A workload is passed
over on a copy that says so; by `Synced` the copy is right or the workload is in `unseen`.
It leaves `unseen` only by a delivery or a restart, and both queue the key, which stays
queued until the worker is idle and starts afresh (`OnlyStartDequeues`).

`DeleteHitsObserved` is about uids, which a deletion by name does not compare.
It holds because there is never more than one generation of Jobs to be seen: `JobInv` says
that every copy of a Job has the uid of the youngest; that the stream ends with the live
Job and that only its last element may be an absence, so that no Job is behind one in the
stream; that a reconcile on its way to `create` has a cache that knows of the absence
(or there is by now a Job, made by an attempt whose answer was lost, which nobody is
deleting yet); and that a Job the cache has not been told of is not being deleted.  The last
two carry the argument: a second Job could only be behind the first in the stream if the
first had gone before its creation was seen.

`ReconciledTruthful` needs that no reconcile under way, and none to come, brings a
workload back to an older image once the status says `Reconciled` for the current
generation.  `StatusInv` says that all copies of an *equal* generation have the same
image, that the watch ends with the live CR, that a reconcile whose resource version is
current holds the live CR itself (`Held`), and, under `Truthful`, that no older generation
is left in the cache, the stream or the worker (`AllCurrent`).  That the final
status update finds it so is `Current`: a reconcile that succeeds in writing the status
took the CR from a cache with nothing behind it.  The one exception is a reconcile that
fetched the CR again while it cleared the force annotation; it has then reset the
recorded image, so that its state is not `complete` and it writes no `Reconciled`
(`Straight`).  `Verdict` keeps what the worker has read about the Job, and that at the
end of the rollout every workload has the image, is in `unseen`, or the key is queued.
The status inherits that (`AllReached`), and keeps it until the next round is due.

`NoLostWakeup` is inductive together with the three: only two actions end
a reconcile with nothing queued or timed.  After `FinishReconcile` the image is
everywhere where no change is on its way, and at rest none is (`Verdict`); after `ReportFailure` the failed Job the verdict is from is the
one in the cache, or else the key is queued (`Verdict`), and the one in the cache is the
live one, or else the stream is not empty (`JobStream`).  Everything else that
disturbs the rest publishes an object that differs from the last, so it is in a stream
(`Announced`).

### The life of the CR

`LifecycleAssumption`: invalid specs and those with extra environment are specs, there is
a setting of the flags, bounds are natural numbers.  `EditsSurvive` and `FinalizerFirst`
come down to one question: what does an outdated copy still prove about the live CR?
`LifeInv` answers it: a copy with the live uid that has the finalizer proves that the CR
has it yet (`CopiesKept`: uids do not come back, and the finalizer goes only with the CR);
a copy that is not outdated differs from the live CR in the status at most (`FreshCopy`),
so that writing it back whole loses nothing; and every unpaused version has left the cache and the
stream when the pause can be reported on an up-to-date copy (`Quiet`), so that no
reconcile can start on one.  The last needs the second half of `FreshCopy`: an up-to-date copy
has none with another annotation behind it, as each change of it would have
made it outdated.

### Workloads, Node access, objects behind the pods

`WorkloadsAssumption`, `NodeAccessAssumption` and `BackingAssumption` say that
what is tracked and switched is known to the model, that the first spec is a spec, that the
bounds are natural numbers, that the TSDB's ConfigMap is tracked only with the Secret it
is computed from, and that at least one workload other than the Rollout is tracked.

The invariants of the three have the same shape.  `Synced`: the cache is right about every
object that is not in `changed`.  `Accounted`: unless the key is queued, the reconcile in
progress works from the CR in the cache, and every object it is done with is as that CR
asks or is in `changed`, so that an event will queue the key.  Both are needed for
each other: a decision on a cached copy is right for the live object only if the
object is not in `changed`.  From them `NoLostWakeup` and `RestsAsAsked` follow at rest, when
`changed` is empty and no reconcile is in progress.  `Workloads` adds the same of the
counts read so far (`Counted`) and of the status they were written to (`StatusKept`), and
that no copy of the CR is newer than the CR (`Copies`), which makes a conflict-free
status update one of the live CR.  `Backing` adds that an object nobody watches may have been
decided on blindly, and that the Secret is dealt with before the ConfigMap that is
computed from it (`SecretFirst`).

`ScaleKept` and `CutoverKept` follow from `Synced` alone: an update that takes effect was
computed from a copy not in `changed`, thus from the live object, so the replicas or the
selector key it carries over are the live ones.  A generated Secret is only ever created,
and removed as the option says (`SecretsKept`).

`KeepsContract` of `Backing` follows from the order in which generations are taken: the
worker's is never behind the one that was served before.  That of `Workloads` needs no
history of specs: a spec moves from the CR to the cache and from there to the worker and
never the other way (`AdvanceStep`).  `EnsureContract` and `RemoveContract` say what one
call does to the one workload it is about, again with `Synced` for the replicas of an
autoscaled one; pods do not show in the contract (`PodsRefine`), the autoscaler's
decisions do (`ScaleRefines`).

### The pod templates

For every set of manifests and every number of changes, from `MinimalAssumption` (the
webhook admits the first manifest), `TypesAssumption` (the fields of the first manifest and
what they may be changed to have the types of the CRD), `AlternativesAssumption` (only
fields that are there are changed) and `BoundsAssumption` (a mebibyte is a positive number):

| theorem | says |
|---|---|
| `NamesAlwaysFit` | `Spec => []NamesFit` |
| `SelectorAlwaysKept` | `Spec => []SelectorKept` |
| `EditRollsOnlyItsOwn` | `Spec => RollsOnlyItsOwn` |
| `AlwaysWellFormed` | `Spec => []WellFormed` |
| `RefsAlwaysProvided` | `Spec => []RefsProvided` |
| `FilesAlwaysMounted` | `Spec => []FilesMounted` |
| `OperatorAlwaysWins` | `Spec => []OperatorWins` |
| `AlwaysComplete` | `Spec => []Complete` |
| `AlwaysGoLimits` | `Spec => []GoLimits` |
| `MajorityAlwaysRequired` | `Spec => []MajorityRequired` |
| `DefaultIsMajority` | the default quorum is a majority and not more than there are, for all replica counts |
| `EnoughThreads` | GOMAXPROCS is the CPU rounded up, for every amount |
| `HeadroomWithinLimit` | GOMEMLIMIT is positive, within the limit and leaves at most a tenth, for every amount of memory |

The first rests on `AlwaysAdmitted`, the stored manifest is always one the webhook
admits, and the second on `AlwaysUpToDate`, the template is the one that follows from it.  `EditRollsOnlyItsOwn` needs both, for the
step is then from the template of one admitted manifest to that of another which differs
in one field.  A lemma for each builder (`ConfigEnvReads`, `CommonEnvReads`, `VolumesRead`,
`OperatorsRead`) says that it gives the same for two manifests that agree on the fields it
reads; `TemplateReads` puts them together to the fields a component reads (`Reads`, from
those of every component and its `OwnFields`), and `NotRead` says that a field which may
not roll a component is none of them.  `AlwaysWhole` (no edit adds or removes a field) is
what lets an edit of one field be told from an edit of another.

`DefaultIsMajority`, `EnoughThreads` and `HeadroomWithinLimit` are the arithmetic behind
`MajorityRequired` and `GoLimits`.  TLA+ integers do not overflow; where the program's would
is noted above.

The seven theorems in between are in `PodContentProofs`.  The invariant they need besides
the two is `Typed(manifest)`: every field has its type, however often it was edited.  The
rest of the argument is about one admitted manifest and its template:

* *Volumes* (`FinalVolumes`, `WellFormed`).  Of every part of the operator's volumes and
  mounts there is a lemma that says what they are; put together they have distinct names, distinct
  paths, and an object each that is the user's or wanted (`BackedVolumes`, which is where
  `SpecSwitches` comes in).  What validation reserves is what keeps the extra ones apart
  from them, and merging by name keeps names distinct and keeps every name.
* *Environment* (`ProperOwn`).  Each part is a sequence of *proper* entries (`IsProper`): none is
  of the Go runtime's; a Secret is the user's or wanted; a file is in one of the
  component's own volumes, under a name for files; the required hosts are the
  default where that is asked for.  Proper sequences concatenate to proper ones, and a name
  that occurs in a part occurs in the whole (`ProperConcat`, `OccursConcat`); the rules of
  validation give what has to occur (`ProperConfig`).
* *What counts* (`EnvIs`).  The last entry of a name counts, so that of a concatenation it
  is the second part's where there is one (`EffectiveAfter`).  `extraEnv` comes first and
  may hold no name of the Go runtime's, so these two are appended and replace nothing
  (`WithGoEnvIs`), and every other name is the operator's as soon as it sets it.
* *Files* (`FilesThere`, `OwnInPlace`).  A file of a proper entry is in a volume of the
  operator's, and those and their mounts reach the pod as they are when the podTemplate
  leaves them alone (`OwnStay`); for the TSDB the files are listed (`TSDBFilesThere`).

Where the proofs use what cannot be had by computing, that a set of natural
numbers has a smallest one and that the elements of a finite set can be listed without
repetition, it comes from the library's theorems (`SmallestExists`, `SetToSeqLists`).

### Only model-checked

All liveness (`Settles`, `BecomesReady`, `DeletionUnlessRefused`,
`OrphansCollected`), since the prover has no rules here for fairness and ENABLED.  Every
other property of a passing run is a theorem.

## 6. Not modelled, and why

* Of the pods: probes, ports, affinity, security contexts, lifecycle hooks, image pull
  settings and volume claims, which no branch of the operator depends on; and the
  JSON merge of the pod spec's other fields (`mergeSpecViaJSON`).
* ServiceAccounts other than the TSDB's, and the Services, PDBs and HPA of other
  components than Node: the same helpers are called with other names.
* The syntax of names, images, percentages, UUIDs and durations: good or bad.
* The names and key usages in Certificates, passwords and hashes: one value each.
* The Argo CRD installed after the operator has started: the Rollout is then used and
  not watched (`BC`:875), which the documentation asks to cure by a restart.
* In the gate: a TTL that ends in the middle of a reconcile or while a watch lags (24 hours
  are assumed to be longer than either), and workloads that disappear (`Workloads` and
  `Lifecycle` have that).
* In `Lifecycle`, a `Deleting` status whose write takes effect while its answer is lost
  (the code only logs that error).
* Leader election, probes, metrics, TLS of the manager: controller-runtime's.
* Generated code, manifests, scripts, CI, tests.

## 7. Plan

What is left, in the order of importance:

1. `NodeAccess` as an implementation of a contract in the manner of
   `WorkloadContract`, with the refinement proved as `WorkloadsImplementContract` is.
2. OpAMP's own Service, PDB and HPA as another instance of `NodeAccess`, without Argo.
