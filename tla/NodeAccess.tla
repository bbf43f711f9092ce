----------------------------- MODULE NodeAccess -----------------------------
(***************************************************************************)
(* What surrounds the Node workload: its Service, whose selector the       *)
(* operator shares with the Argo Rollouts controller, its                  *)
(* PodDisruptionBudget and its HorizontalPodAutoscaler (reconcileNode,     *)
(* reconcileService, reconcilePodDisruptionBudget, reconcileNodeHPA).      *)
(*                                                                         *)
(* With a BlueGreen Rollout the Argo controller switches traffic by        *)
(* writing rollouts-pod-template-hash into the Service's selector, while   *)
(* the operator rewrites that selector from the copy in its cache.  Which  *)
(* of the two kinds of workload exists is decided in Workloads and is one  *)
(* step here.                                                              *)
(***************************************************************************)
EXTENDS Naturals

CONSTANTS
  Hashes,     \* pod template hashes of the Rollout
  NoHash,     \* the selector has no such key
  MaxEdits,   \* bound: user edits
  MaxCutovers,\* bound: BlueGreen cutovers
  MaxFaults   \* bound: API errors, lost replies, restarts

ASSUME NodeAccessAssumption ==
  /\ NoHash \notin Hashes
  /\ MaxEdits \in Nat /\ MaxCutovers \in Nat /\ MaxFaults \in Nat

VARIABLES
  cr, crCache,        \* the switches of the CR: live and cached
  kind,               \* the kind of workload the Node component is now
  objects, cache,     \* Service, PDB and HPA: live and cached
  changed,            \* those with changes the cache has not been told of
  argo,               \* the Argo controller believes the Rollout exists
  queued, worker, edits, cutovers, faults

storeVars == <<objects, cache, changed>>
vars == <<cr, crCache, kind, objects, cache, changed, argo, queued, worker, edits,
          cutovers, faults>>

-----------------------------------------------------------------------------
(* Objects                                                                 *)

Kinds == {"Deployment", "Rollout"}

\* argoRollout.enabled, autoscaling.enabled, not disablePodDisruptionBudget.
CR == [rollout : BOOLEAN, hpa : BOOLEAN, pdb : BOOLEAN, gen : Nat]

Names == {"service", "pdb", "hpa"}

\* spec: the hash in the Service's selector, the kind the HPA scales.
\* drifted: somebody has changed what else the operator sets (ports, labels).
Absent == [there |-> FALSE]
Object == {Absent} \cup
  [there : {TRUE}, spec : Hashes \cup {NoHash} \cup Kinds \cup {"minAvailable"}, drifted : BOOLEAN]

Built(spec) == [there |-> TRUE, spec |-> spec, drifted |-> FALSE]

Idle == [pc |-> "idle"]
Worker == {Idle} \cup [pc : {"workload"} \cup Names, snap : CR]

KindOf(c) == IF c.rollout THEN "Rollout" ELSE "Deployment"

-----------------------------------------------------------------------------
(* Reconcile                                                               *)

Fail ==
  /\ worker' = Idle
  /\ queued' = TRUE

Reply(next) ==
  \/ /\ worker' = next
     /\ UNCHANGED <<queued, faults>>
  \/ /\ faults < MaxFaults
     /\ faults' = faults + 1
     /\ Fail

\* A write and the event it causes.
Write(n, object) ==
  /\ objects' = [objects EXCEPT ![n] = object]
  /\ changed' = changed \cup {n}

Goto(pc) == [worker EXCEPT !.pc = pc]

StartReconcile ==
  /\ worker.pc = "idle" /\ queued
  /\ queued' = FALSE
  /\ worker' = [pc |-> "workload", snap |-> crCache]
  /\ UNCHANGED <<cr, crCache, kind, storeVars, argo, edits, cutovers, faults>>

\* The other kind is deleted and this one created (Workloads).
SwitchWorkload ==
  /\ worker.pc = "workload"
  /\ kind' = KindOf(worker.snap)
  /\ Reply(Goto("service"))
  /\ UNCHANGED <<cr, crCache, storeVars, argo, edits, cutovers>>

\* Mutant: the update carries no resourceVersion.
Unconditional(n) == objects[n].there

\* An update sends the object that was found, resourceVersion included: it takes
\* effect only on the version that was read.
NoConflict(n) == n \notin changed

\* Only the HPA is sent without a look at whether it changes anything; an update
\* that changes nothing causes no event.
Skipped(n, object) == cache[n] = object /\ n # "hpa"

\* Get, then Create or Update with the wanted spec.
Ensure(n, wanted, next) ==
  LET object == Built(wanted)
      stale == IF cache[n].there THEN ~NoConflict(n) ELSE objects[n].there
  IN  \/ /\ Skipped(n, object)
         /\ worker' = next
         /\ UNCHANGED <<objects, changed, queued, faults>>
      \/ /\ ~Skipped(n, object) /\ ~stale
         /\ IF cache[n] = object THEN UNCHANGED <<objects, changed>> ELSE Write(n, object)
         /\ Reply(next)
      \/ /\ ~Skipped(n, object) /\ stale
         /\ Fail
         /\ UNCHANGED <<objects, changed, faults>>

\* Get, then Delete; an object that only the cache still has is an error.
Remove(n, next) ==
  \/ /\ ~cache[n].there
     /\ worker' = next
     /\ UNCHANGED <<objects, changed, queued, faults>>
  \/ /\ cache[n].there /\ objects[n].there
     /\ Write(n, Absent)
     /\ Reply(next)
  \/ /\ cache[n].there /\ ~objects[n].there
     /\ Fail
     /\ UNCHANGED <<objects, changed, faults>>

\* WithPreserveSelectorKey: under a Rollout the key read is the key written.
SelectorHash(c) ==
  IF c.rollout /\ cache["service"].there THEN cache["service"].spec ELSE NoHash

EnsureService ==
  /\ worker.pc = "service"
  /\ Ensure("service", SelectorHash(worker.snap), Goto("pdb"))
  /\ UNCHANGED <<cr, crCache, kind, cache, argo, edits, cutovers>>

ReconcilePDB ==
  /\ worker.pc = "pdb"
  /\ IF worker.snap.pdb THEN Ensure("pdb", "minAvailable", Goto("hpa")) ELSE Remove("pdb", Goto("hpa"))
  /\ UNCHANGED <<cr, crCache, kind, cache, argo, edits, cutovers>>

\* Mutant: the scale target is not switched along.
AlwaysDeployment(c) == "Deployment"

\* Mutant: the Deployment's target is left empty.
NoTarget(c) == IF c.rollout THEN "Rollout" ELSE NoHash

\* nodeHPAScaleTargetRef.
ScaleTarget(c) == KindOf(c)

ReconcileHPA ==
  /\ worker.pc = "hpa"
  /\ IF worker.snap.hpa THEN Ensure("hpa", ScaleTarget(worker.snap), Idle) ELSE Remove("hpa", Idle)
  /\ UNCHANGED <<cr, crCache, kind, cache, argo, edits, cutovers>>

CallFails ==
  /\ worker.pc # "idle"
  /\ faults < MaxFaults
  /\ faults' = faults + 1
  /\ Fail
  /\ UNCHANGED <<cr, crCache, kind, storeVars, argo, edits, cutovers>>

Restart ==
  /\ faults < MaxFaults
  /\ faults' = faults + 1
  /\ Fail
  /\ crCache' = cr /\ cache' = objects /\ changed' = {}
  /\ UNCHANGED <<cr, kind, objects, argo, edits, cutovers>>

-----------------------------------------------------------------------------
(* Informers, the Argo controller and the user                             *)

DeliverCR ==
  /\ crCache # cr
  /\ crCache' = cr
  /\ queued' = TRUE
  /\ UNCHANGED <<cr, kind, storeVars, argo, worker, edits, cutovers, faults>>

\* Mutant: Services are missing from Owns.
NoServiceWatch(n) == queued \/ n # "service"

\* SetupWithManager, Owns.
Watched(n) == TRUE

Deliver(n) ==
  /\ n \in changed
  /\ changed' = changed \ {n}
  /\ cache' = [cache EXCEPT ![n] = objects[n]]
  /\ queued' = Watched(n)
  /\ UNCHANGED <<cr, crCache, kind, objects, argo, worker, edits, cutovers, faults>>

\* The Argo controller learns of the Rollout, and of its deletion, in its time.
ArgoNotices ==
  /\ argo # (kind = "Rollout")
  /\ argo' = (kind = "Rollout")
  /\ UNCHANGED <<cr, crCache, kind, storeVars, queued, worker, edits, cutovers, faults>>

\* It patches the selector of the active Service, on whatever version is there.
Cutover ==
  /\ argo /\ objects["service"].there
  /\ cutovers < MaxCutovers
  /\ cutovers' = cutovers + 1
  /\ \E h \in Hashes \ {objects["service"].spec} :
       Write("service", [objects["service"] EXCEPT !.spec = h])
  /\ UNCHANGED <<cr, crCache, kind, cache, argo, queued, worker, edits, faults>>

Switch ==
  /\ edits < MaxEdits
  /\ edits' = edits + 1
  /\ \E s \in {"rollout", "hpa", "pdb"} : cr' = [cr EXCEPT ![s] = ~@, !.gen = @ + 1]
  /\ UNCHANGED <<crCache, kind, storeVars, argo, queued, worker, cutovers, faults>>

\* Somebody changes one of the objects behind the operator's back.
Drift(n) ==
  /\ objects[n].there /\ ~objects[n].drifted
  /\ edits < MaxEdits
  /\ edits' = edits + 1
  /\ Write(n, [objects[n] EXCEPT !.drifted = TRUE])
  /\ UNCHANGED <<cr, crCache, kind, cache, argo, queued, worker, cutovers, faults>>

-----------------------------------------------------------------------------
Init ==
  /\ cr \in [rollout : BOOLEAN, hpa : BOOLEAN, pdb : BOOLEAN, gen : {1}]
  /\ crCache = cr
  /\ kind = "Deployment" /\ argo = FALSE
  /\ objects = [n \in Names |-> Absent] /\ cache = objects /\ changed = {}
  /\ queued = TRUE /\ worker = Idle
  /\ edits = 0 /\ cutovers = 0 /\ faults = 0

Reconciling ==
  StartReconcile \/ SwitchWorkload \/ EnsureService \/ ReconcilePDB \/ ReconcileHPA

Next ==
  \/ Reconciling \/ CallFails \/ Restart
  \/ DeliverCR \/ (\E n \in Names : Deliver(n) \/ Drift(n))
  \/ ArgoNotices \/ Cutover \/ Switch

Spec == Init /\ [][Next]_vars

\* The worker and the watches keep going, and the Argo controller learns of the
\* Rollout in the end; cutovers, users and faults owe nothing.
FairSpec ==
  /\ Spec
  /\ WF_vars(Reconciling) /\ WF_vars(DeliverCR) /\ WF_vars(ArgoNotices)
  /\ \A n \in Names : WF_vars(Deliver(n))

-----------------------------------------------------------------------------
(* Properties                                                              *)

\* Every variable keeps its type.
TypeOK ==
  /\ cr \in CR /\ crCache \in CR
  /\ kind \in Kinds /\ argo \in BOOLEAN
  /\ objects \in [Names -> Object] /\ cache \in [Names -> Object] /\ changed \in SUBSET Names
  /\ objects["hpa"].there => objects["hpa"].spec \in Kinds
  /\ objects["service"].there => objects["service"].spec \in Hashes \cup {NoHash}
  /\ queued \in BOOLEAN /\ worker \in Worker
  /\ edits \in 0..MaxEdits /\ cutovers \in 0..MaxCutovers /\ faults \in 0..MaxFaults

\* While the Rollout is wanted the operator never takes traffic back from the
\* pods the Argo controller has switched it to, however old the copy from which it
\* repairs a Service somebody has changed (reconcileService).
CutoverKept ==
  [][worker.pc = "service" /\ worker'.pc # "service" /\ worker.snap.rollout /\ objects["service"].there
     => objects'["service"].spec = objects["service"].spec]_vars

\* Nothing is under way and nothing will wake the worker.
AtRest ==
  worker.pc = "idle" /\ ~queued /\ crCache = cr /\ changed = {} /\ argo = (kind = "Rollout")

\* Everything is as the CR asks: the selector holds no leftover of a Rollout,
\* drift is repaired, and the HPA scales the workload that is there.
InPlace ==
  /\ kind = KindOf(cr)
  /\ objects["service"].there
  /\ \A n \in Names : objects[n].there => ~objects[n].drifted
  /\ ~cr.rollout => objects["service"].spec = NoHash
  /\ objects["pdb"].there = cr.pdb
  /\ objects["hpa"] = IF cr.hpa THEN Built(kind) ELSE Absent

\* No wake-up is lost, even when the Argo controller writes to the Service after
\* the Rollout is gone.
NoLostWakeup == AtRest => InPlace

\* Left alone, it all ends up as the CR asks.
Settles == <>[]InPlace
=============================================================================
