------------------------------ MODULE Workloads ------------------------------
(***************************************************************************)
(* The long-running workloads and the readiness the CR's status reports.   *)
(* Each reconcile brings the Deployments, StatefulSets and the Argo        *)
(* Rollout in line with the CR (reconcileTransformAgent, reconcileTSDB,    *)
(* reconcileBindplaneJobsRegular, reconcileNats, reconcileNode,            *)
(* reconcileOpAMP), then reads back their ready replicas one by one and    *)
(* writes phase and counts (updateReadyReplicaStatus).  Pods come and go,  *)
(* an autoscaler scales the Node workload, and the user switches between   *)
(* Deployment and Rollout, local and remote TSDB, and so on, meanwhile.    *)
(*                                                                         *)
(* The migration has succeeded throughout (MigrationGate), and the CR is   *)
(* valid, not paused and not deleted (Lifecycle).  A cache may lag its     *)
(* objects by any number of changes; a write based on a cached object that *)
(* has changed since fails with a conflict.                                *)
(***************************************************************************)
EXTENDS Naturals, Sequences

CONSTANTS
  Tracked,       \* the workloads looked at
  Versions,      \* what a user may write in spec.version; stands for all that
                 \* goes into the pod templates
  NodeReplicas,  \* what a user may write in spec.bindplane.replicas
  HPAReplicas,   \* what the autoscaler may choose
  Switches,      \* the parts of the spec a user may switch on and off
  FirstVersion,  \* what the CR is created with
  FirstReplicas,
  FirstOn,       \* the sets of parts that may be on at first
  MaxEdits,      \* bound: user edits
  MaxFaults      \* bound: API errors, lost replies, operator restarts, pods lost

AllWorkloads == {"transformAgent", "tsdb", "jobs", "nats", "node", "rollout", "opamp"}
AllSwitches == {"rollout", "autoscaling", "opamp", "remote"}

ASSUME WorkloadsAssumption ==
  /\ Tracked \subseteq AllWorkloads /\ Tracked \ {"rollout"} # {}
  /\ Switches \subseteq AllSwitches
  /\ Versions # {}
  /\ NodeReplicas \subseteq Nat \ {0} /\ NodeReplicas # {}
  /\ HPAReplicas \subseteq Nat \ {0}
  /\ FirstVersion \in Versions /\ FirstReplicas \in NodeReplicas /\ FirstOn \subseteq SUBSET Switches
  /\ MaxEdits \in Nat /\ MaxFaults \in Nat

VARIABLES
  cr, crCache,        \* the CR: live and cached
  objects, cache,     \* the workloads: live and cached
  changed,            \* those with changes the cache has not been told of
  queued,             \* the CR's key is in the work queue
  worker,             \* the reconcile in progress
  edits, faults

storeVars == <<objects, cache, changed>>
vars == <<cr, crCache, objects, cache, changed, queued, worker, edits, faults>>

-----------------------------------------------------------------------------
(* Objects                                                                 *)

\* Everything but the Rollout has a count in status.components.
Reported == Tracked \ {"rollout"}

\* Replicas of the components whose number the instance leaves fixed.
FixedReplicas == 1

\* on: what is enabled (argoRollout, autoscaling, opamp, tsdb.remote).
CR == [version : Versions, replicas : NodeReplicas, on : SUBSET Switches, gen : Nat,
       phase : {"Pending", "ApplyingChanges", "Ready"}, ready : [Reported -> Nat], observed : Nat]

\* A Deployment or Rollout created without replicas gets the API's default, 1.
DefaultReplicas == 1

Absent == [there |-> FALSE]

Object == [there : {TRUE}, version : Versions, replicas : Nat \ {0}, ready : Nat] \cup {Absent}

Points == {"idle", "apply", "read", "status"}

\* todo: the workloads still to be dealt with, or counted; ready: the counts read
\* so far.
Idle == [pc |-> "idle"]
Worker == {Idle} \cup
  [pc : Points \ {"idle"}, snap : CR, fresh : BOOLEAN, todo : SUBSET Tracked, ready : [Reported -> Nat]]

-----------------------------------------------------------------------------
(* What the CR asks for                                                    *)

Deployed(w, c) ==
  CASE w = "node"    -> "rollout" \notin c.on
    [] w = "rollout" -> "rollout" \in c.on
    [] w = "opamp"   -> "opamp" \in c.on
    [] w = "tsdb"    -> "remote" \notin c.on
    [] OTHER         -> TRUE

IsNode(w) == w \in {"node", "rollout"}

\* The replicas of the Node workload are left to the HPA.
Autoscaled(w, c) == IsNode(w) /\ "autoscaling" \in c.on

Desired(w, c) == IF IsNode(w) THEN c.replicas ELSE FixedReplicas

\* The order of Reconcile; within reconcileNode the other kind is deleted first.
Order(c) ==
  IF "rollout" \in c.on
  THEN <<"transformAgent", "tsdb", "jobs", "nats", "node", "rollout", "opamp">>
  ELSE <<"transformAgent", "tsdb", "jobs", "nats", "rollout", "node", "opamp">>

\* The order of updateReadyReplicaStatus.
ReadOrder == <<"node", "nats", "transformAgent", "jobs", "tsdb", "opamp">>

-----------------------------------------------------------------------------
(* Reconcile                                                               *)

Nothing == [w \in Reported |-> 0]

\* Reconcile returned an error: the key goes back to the queue.
Fail ==
  /\ worker' = Idle
  /\ queued' = TRUE

\* A write and the event it causes.
Write(w, object) ==
  /\ objects' = [objects EXCEPT ![w] = object]
  /\ changed' = changed \cup {w}

\* The answer to a call that took effect arrives, or is lost on the way.
Reply(next) ==
  \/ /\ worker' = next
     /\ UNCHANGED <<queued, faults>>
  \/ /\ faults < MaxFaults
     /\ faults' = faults + 1
     /\ Fail

StartReconcile ==
  /\ worker.pc = "idle"
  /\ queued
  /\ queued' = FALSE
  /\ worker' = [pc |-> "apply", snap |-> crCache, fresh |-> crCache = cr,
                todo |-> Tracked, ready |-> Nothing]
  /\ UNCHANGED <<cr, crCache, storeVars, edits, faults>>

\* w is the first of the workloads still to come.
First(w, order) ==
  /\ w \in worker.todo
  /\ \E p \in DOMAIN order :
       /\ order[p] = w
       /\ \A q \in 1..(p - 1) : order[q] \notin worker.todo

Turn(w) == First(w, Order(worker.snap))

NextCall(w) ==
  IF worker.todo = {w} THEN [worker EXCEPT !.pc = "read", !.todo = Reported]
  ELSE [worker EXCEPT !.todo = @ \ {w}]

\* Mutant: the update carries no resourceVersion.
Unconditional(w) == objects[w].there

\* An update sends the object that was found, resourceVersion included: it takes
\* effect only on the version that was read.
NoConflict(w) == w \notin changed

\* Mutant: a number of replicas that was not set is written as 0.
ZeroReplicas(w, c) == IF Autoscaled(w, c) THEN 0 ELSE Desired(w, c)

\* A nil replicas field in the desired spec keeps the number that was read.
WantedReplicas(w, c) == IF Autoscaled(w, c) THEN cache[w].replicas ELSE Desired(w, c)

\* reconcileDeployment, reconcileRollout, reconcileStatefulSet.  An update is
\* skipped when it changes nothing; the API server's defaults may hide that, and
\* then it is sent, causes no event, and conflicts when the copy is stale.
Ensure(w, c) ==
  LET wanted == [cache[w] EXCEPT !.version = c.version, !.replicas = WantedReplicas(w, c)]
      created == [there |-> TRUE, version |-> c.version, ready |-> 0,
                  replicas |-> IF Autoscaled(w, c) THEN DefaultReplicas ELSE Desired(w, c)]
  IN  \/ /\ cache[w].there /\ wanted = cache[w]
         /\ worker' = NextCall(w)
         /\ UNCHANGED <<objects, changed, queued, faults>>
      \/ /\ cache[w].there /\ wanted # cache[w] /\ NoConflict(w)
         /\ Write(w, wanted)
         /\ Reply(NextCall(w))
      \/ /\ ~cache[w].there /\ ~objects[w].there
         /\ Write(w, created)
         /\ Reply(NextCall(w))
      \/ /\ IF cache[w].there THEN ~NoConflict(w) ELSE objects[w].there
         /\ Fail
         /\ UNCHANGED <<objects, changed, faults>>

\* Mutant: the Rollout is left behind.
LeavesRollout(w) == cache[w].there /\ w # "rollout"

MustGo(w) == cache[w].there

\* deleteDeploymentIfExists, deleteRolloutIfExists and deleteTSDBLocalResources-
\* IfExist return the NotFound of an object that only the cache still has;
\* deleteOpAMPResourcesIfExist ignores it.
Remove(w) ==
  \/ /\ ~MustGo(w)
     /\ worker' = NextCall(w)
     /\ UNCHANGED <<objects, changed, queued, faults>>
  \/ /\ MustGo(w) /\ (objects[w].there \/ w = "opamp")
     /\ Write(w, Absent)
     /\ Reply(NextCall(w))
  \/ /\ MustGo(w) /\ ~objects[w].there /\ w # "opamp"
     /\ Fail
     /\ UNCHANGED <<objects, changed, faults>>

Apply ==
  /\ worker.pc = "apply"
  /\ \E w \in Tracked :
       /\ Turn(w)
       /\ IF Deployed(w, worker.snap) THEN Ensure(w, worker.snap) ELSE Remove(w)
  /\ UNCHANGED <<cr, crCache, cache, edits>>

\* deploymentReadyReplicas, statefulSetReadyReplicas: 0 when there is none.
ReadyIn(store, w) == IF store[w].there THEN store[w].ready ELSE 0

\* The TSDB and OpAMP are not asked for when they are not deployed.
Count(w) ==
  IF w \in {"tsdb", "opamp"} /\ ~Deployed(w, worker.snap) THEN 0 ELSE ReadyIn(cache, w)

ReadReady ==
  /\ worker.pc = "read"
  /\ \E w \in Reported :
       /\ First(w, ReadOrder)
       /\ worker' = [worker EXCEPT !.ready[w] = Count(w), !.todo = @ \ {w},
                       !.pc = IF worker.todo = {w} THEN "status" ELSE "read"]
  /\ UNCHANGED <<cr, crCache, storeVars, queued, edits, faults>>

\* Mutant: off by one.
MoreThanEnough(ready, desired) == ready > desired

Enough(ready, desired) == ready >= desired

\* allWorkloadsReady: the Node component is held against spec.bindplane.replicas,
\* the TSDB against 0 when it is remote; OpAMP is not among them.
allWorkloadsReady(c, ready) ==
  \A w \in Reported \ {"opamp"} :
    Enough(ready[w], IF w = "tsdb" /\ ~Deployed(w, c) THEN 0 ELSE Desired(w, c))

WriteStatus ==
  /\ worker.pc = "status"
  /\ \/ /\ worker.fresh
        /\ cr' = [cr EXCEPT !.ready = worker.ready, !.observed = worker.snap.gen,
                    !.phase = IF allWorkloadsReady(worker.snap, worker.ready) THEN "Ready"
                              ELSE "ApplyingChanges"]
        /\ Reply(Idle)
     \/ /\ ~worker.fresh
        /\ Fail
        /\ UNCHANGED <<cr, faults>>
  /\ UNCHANGED <<crCache, storeVars, edits>>

\* Any other failure of a call: it had no effect and Reconcile returns the
\* error.  (The counts are read from the caches, and a failure there is no error.)
CallFails ==
  /\ worker.pc \in {"apply", "status"}
  /\ faults < MaxFaults
  /\ faults' = faults + 1
  /\ Fail
  /\ UNCHANGED <<cr, crCache, storeVars, edits>>

Restart ==
  /\ faults < MaxFaults
  /\ faults' = faults + 1
  /\ Fail
  /\ crCache' = cr
  /\ cache' = objects /\ changed' = {}
  /\ UNCHANGED <<cr, objects, edits>>

-----------------------------------------------------------------------------
(* Informers, the workload controllers, the autoscaler and the user        *)

DeliverCR ==
  /\ crCache # cr
  /\ crCache' = cr
  /\ queued' = TRUE
  /\ UNCHANGED <<cr, storeVars, worker, edits, faults>>

\* Mutant: Rollouts are not watched.
NoRolloutWatch(w) == queued \/ w # "rollout"

\* SetupWithManager, Owns: the event enqueues the owner.
Watched(w) == TRUE

Deliver(w) ==
  /\ w \in changed
  /\ changed' = changed \ {w}
  /\ cache' = [cache EXCEPT ![w] = objects[w]]
  /\ queued' = Watched(w)
  /\ UNCHANGED <<cr, crCache, objects, worker, edits, faults>>

PodsChange(w, n) ==
  /\ Write(w, [objects[w] EXCEPT !.ready = n])
  /\ UNCHANGED <<cr, crCache, cache, queued, worker, edits>>

PodReady(w) ==
  /\ objects[w].there /\ objects[w].ready < objects[w].replicas
  /\ PodsChange(w, objects[w].ready + 1)
  /\ UNCHANGED faults

PodStopped(w) ==
  /\ objects[w].there /\ objects[w].ready > objects[w].replicas
  /\ PodsChange(w, objects[w].ready - 1)
  /\ UNCHANGED faults

PodLost(w) ==
  /\ objects[w].there /\ objects[w].ready > 0
  /\ faults < MaxFaults
  /\ faults' = faults + 1
  /\ PodsChange(w, objects[w].ready - 1)

\* The HPA that reconcileNodeHPA points at the Node workload.
Scale(w) ==
  /\ objects[w].there /\ Autoscaled(w, cr)
  /\ edits < MaxEdits
  /\ edits' = edits + 1
  /\ \E n \in HPAReplicas \ {objects[w].replicas} :
       Write(w, [objects[w] EXCEPT !.replicas = n])
  /\ UNCHANGED <<cr, crCache, cache, queued, worker, faults>>

\* A write of the user outdates the copy of a reconcile in progress.
Edit(c) ==
  /\ edits < MaxEdits
  /\ edits' = edits + 1
  /\ cr' = [c EXCEPT !.gen = @ + 1]
  /\ worker' = IF worker.pc = "idle" THEN Idle ELSE [worker EXCEPT !.fresh = FALSE]
  /\ UNCHANGED <<crCache, storeVars, queued, faults>>

SetVersion == \E v \in Versions \ {cr.version} : Edit([cr EXCEPT !.version = v])

SetReplicas == \E n \in NodeReplicas \ {cr.replicas} : Edit([cr EXCEPT !.replicas = n])

Switch == \E s \in Switches :
  Edit([cr EXCEPT !.on = IF s \in cr.on THEN cr.on \ {s} ELSE cr.on \cup {s}])

-----------------------------------------------------------------------------
Init ==
  /\ cr \in [version : {FirstVersion}, replicas : {FirstReplicas}, on : FirstOn, gen : {1},
             phase : {"Pending"}, ready : {Nothing}, observed : {0}]
  /\ crCache = cr
  /\ objects = [w \in Tracked |-> Absent] /\ cache = objects /\ changed = {}
  /\ queued = TRUE
  /\ worker = Idle
  /\ edits = 0 /\ faults = 0

Reconciling == StartReconcile \/ Apply \/ ReadReady \/ WriteStatus

Pods(w) == PodReady(w) \/ PodStopped(w)

Next ==
  \/ Reconciling \/ CallFails \/ Restart
  \/ DeliverCR
  \/ \E w \in Tracked : Deliver(w) \/ PodReady(w) \/ PodStopped(w) \/ PodLost(w) \/ Scale(w)
  \/ SetVersion \/ SetReplicas \/ Switch

Spec == Init /\ [][Next]_vars

\* The worker and the watches keep going, and so do the workload controllers;
\* the user, the autoscaler and faults owe nothing.
FairSpec ==
  /\ Spec
  /\ WF_vars(Reconciling) /\ WF_vars(DeliverCR)
  /\ \A w \in Tracked : WF_vars(Deliver(w)) /\ WF_vars(Pods(w))

-----------------------------------------------------------------------------
(* Properties                                                              *)

\* Every variable keeps its type.
TypeOK ==
  /\ cr \in CR /\ crCache \in CR
  /\ objects \in [Tracked -> Object] /\ cache \in [Tracked -> Object] /\ changed \in SUBSET Tracked
  /\ queued \in BOOLEAN
  /\ worker \in Worker
  /\ edits \in 0..MaxEdits /\ faults \in 0..MaxFaults

\* An update by the operator never undoes a decision of the autoscaler, however
\* old the object it was computed from (the replicas kept by reconcileDeployment
\* and reconcileRollout are those of the cached object).
ScaleKept ==
  [][\A w \in Tracked :
       /\ worker.pc = "apply" /\ Turn(w) /\ Autoscaled(w, worker.snap)
       /\ worker'.pc # "apply" \/ worker'.todo # worker.todo
       /\ objects[w].there /\ objects'[w].there
       => objects'[w].replicas = objects[w].replicas]_vars

\* Nothing is under way and nothing will wake the worker.
AtRest == worker.pc = "idle" /\ ~queued /\ crCache = cr /\ changed = {}

\* Exactly the workloads the CR asks for exist, of its version, and with its
\* number of replicas unless they are autoscaled.
InPlace ==
  \A w \in Tracked :
    /\ objects[w].there = Deployed(w, cr)
    /\ objects[w].there =>
         /\ objects[w].version = cr.version
         /\ Autoscaled(w, cr) \/ objects[w].replicas = Desired(w, cr)

\* All the replicas of the workload are ready.
FullyReady(w) == objects[w].there /\ objects[w].ready >= objects[w].replicas

\* Status and workloads agree: the counts are the live ones, and for a Node
\* component that is a Deployment of fixed size Ready means ready.
StatusTrue ==
  /\ \A w \in Reported : cr.ready[w] = ReadyIn(objects, w)
  /\ cr.on \cap {"rollout", "autoscaling", "opamp"} = {} =>
       (cr.phase = "Ready" <=> \A w \in Tracked : Deployed(w, cr) => FullyReady(w))

\* No wake-up is lost: when nothing is pending, at most one kind of Node workload
\* is left, everything is in place, and the status is that of the workloads now,
\* not of the ones some older reconcile saw.
NoLostWakeup == AtRest => InPlace /\ StatusTrue /\ cr.observed = cr.gen

\* Left alone, the workloads end up as the CR asks, whatever was switched.
Settles == <>[]InPlace

\* A Deployment of fixed size is reported Ready in the end.
BecomesReady ==
  <>[](cr.on \cap {"rollout", "autoscaling"} = {} => cr.phase = "Ready")

-----------------------------------------------------------------------------
(* The contract                                                            *)

\* What is documented to run under a spec: configuration.md, "Argo Rollouts",
\* "OpAMP deployment split" and the remote TSDB.
Documented(c) ==
  Tracked \ ((IF "rollout" \in c.on THEN {"node"} ELSE {"rollout"}) \cup
             (IF "opamp" \in c.on THEN {} ELSE {"opamp"}) \cup
             (IF "remote" \in c.on THEN {"tsdb"} ELSE {}))

SpecOf(c) == [version |-> c.version, replicas |-> c.replicas, on |-> c.on]

Shown(o) ==
  IF o.there THEN [there |-> TRUE, version |-> o.version, replicas |-> o.replicas] ELSE Absent

Running == [w \in Tracked |-> Shown(objects[w])]

\* The spec Reconcile works for, or would if it started now.
Serving == SpecOf(IF worker.pc = "idle" THEN crCache ELSE worker.snap)

Sizes == NodeReplicas \cup HPAReplicas \cup {DefaultReplicas}

Contract == INSTANCE WorkloadContract WITH
  Specs <- [version : Versions, replicas : NodeReplicas, on : SUBSET Switches],
  Workloads <- Tracked, Sizes <- Sizes,
  Wanted <- Documented, Autoscaled <- Autoscaled, Replicas <- Desired,
  latest <- SpecOf(cr), seen <- SpecOf(crCache), serving <- Serving, running <- Running

\* The workloads follow the specs as documented, in the order they were written:
\* nothing is created, changed or deleted on behalf of two specs at once, of one
\* already left behind, or of a number of replicas that is the autoscaler's.
KeepsContract == Contract!Spec

-----------------------------------------------------------------------------
(* What the documentation says and the code does not keep                  *)

\* Everything the CR asks for has all its replicas ready.
EverythingReady == InPlace /\ \A w \in Tracked : Deployed(w, cr) => FullyReady(w)

\* configuration.md:1444: Ready means that all required workloads have their
\* desired replica count ready.
ReadyShown == AtRest => (cr.phase = "Ready" <=> EverythingReady)
=============================================================================
