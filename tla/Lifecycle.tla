------------------------------ MODULE Lifecycle ------------------------------
(***************************************************************************)
(* The life of a Bindplane custom resource: Reconcile from its first line  *)
(* to the reconciliation of the owned objects, and handleDeletion          *)
(* (internal/controller/bindplane_controller.go), under the admission      *)
(* webhook (internal/webhook/v1alpha1), owner-reference garbage collection *)
(* and restarts of the operator with other flags.                          *)
(*                                                                         *)
(* The owned objects stand for two classes: "workload" for the kinds the   *)
(* controller watches (SetupWithManager, Owns), "secret" for the objects   *)
(* that are created once and not watched (the session, status and          *)
(* basic-auth Secrets).  The migration gate between the two is the subject *)
(* of MigrationGate.                                                       *)
(***************************************************************************)
EXTENDS Naturals, Sequences

CONSTANTS
  Specs,          \* what a user may write in spec
  InvalidSpecs,   \* the ones ValidateBindplane always rejects
  ExtraEnvSpecs,  \* the ones it accepts under --allow-bindplane-extra-env only
  FlagSets,       \* the flags the operator may be started with
  MaxCRs,         \* bound: how often a CR of this name is created
  MaxEdits,       \* bound: user edits of the CR and of the workload
  MaxFaults       \* bound: API errors, lost replies and restarts

Flags == [webhook : BOOLEAN, allowExtraEnv : BOOLEAN]

ASSUME LifecycleAssumption ==
  /\ InvalidSpecs \subseteq Specs /\ ExtraEnvSpecs \subseteq Specs
  /\ FlagSets \subseteq Flags /\ FlagSets # {}
  /\ MaxCRs \in Nat /\ MaxEdits \in Nat /\ MaxFaults \in Nat

VARIABLES
  cr, crCache, crWatch,                    \* the CR: live, cached, undelivered versions
  workload, workloadCache, workloadWatch,  \* a watched owned object
  secret, secretCache, secretWatch,        \* an unwatched, create-once owned object
  flags,     \* the flags of the running operator
  queued,    \* the CR's key is in the work queue
  worker,    \* the reconcile in progress
  acked,     \* the status has reported the pause that is still in force  (history)
  lastUid, edits, faults

crVars       == <<cr, crWatch>>
workloadVars == <<workload, workloadWatch>>
secretVars   == <<secret, secretWatch>>
cacheVars    == <<crCache, workloadCache, secretCache>>
boundVars    == <<lastUid, edits, faults>>
vars == <<cr, crCache, crWatch, workload, workloadCache, workloadWatch, secret,
          secretCache, secretWatch, flags, queued, worker, acked, lastUid, edits, faults>>

-----------------------------------------------------------------------------
(* Objects                                                                 *)

Reasons == {"", "Reconciled", "Paused", "Invalid"}

\* "Active" stands for ApplyingChanges and Ready.
Phases == {"", "Pending", "Degraded", "Deleting", "Active"}

NoCR == [uid |-> 0]

LiveCR == [uid : Nat \ {0}, spec : Specs, gen : Nat, paused : BOOLEAN, finalizer : BOOLEAN,
           deleting : BOOLEAN, reason : Reasons, phase : Phases, observed : Nat]

CR == LiveCR \cup {NoCR}

Exists(c) == c.uid # 0

\* owner is the uid in the object's owner reference, 0 when it has none.
Absent == [there |-> FALSE, owner |-> 0]
Workload == [there : {TRUE}, owner : Nat \ {0}, spec : Specs] \cup {Absent}
Secret == [there : {TRUE}, owner : Nat \ {0}] \cup {Absent}

\* Where a reconcile is: before the write of that name.
Points == {"idle", "deletingStatus", "removeFinalizer", "addFinalizer", "pauseStatus",
           "invalidStatus", "secret", "workload", "finish"}

\* snap: the CR as fetched; fresh: its resourceVersion is the current one.
Worker == [pc : Points, snap : CR, fresh : BOOLEAN]

Idle == [pc |-> "idle", snap |-> NoCR, fresh |-> FALSE]

\* ValidateBindplane, as far as it depends on the operator's flags.
Valid(spec) ==
  /\ spec \notin InvalidSpecs
  /\ spec \in ExtraEnvSpecs => flags.allowExtraEnv

\* The webhook is called on every create and update, the operator's included,
\* but not on updates of the status subresource.
Admitted(c) == flags.webhook => Valid(c.spec)

-----------------------------------------------------------------------------
(* API calls of the reconciler                                             *)

PublishCR(c) ==
  /\ cr' = c
  /\ crWatch' = IF c = cr THEN crWatch ELSE Append(crWatch, c)

PublishWorkload(w) ==
  /\ workload' = w
  /\ workloadWatch' = IF w = workload THEN workloadWatch ELSE Append(workloadWatch, w)

PublishSecret(s) ==
  /\ secret' = s
  /\ secretWatch' = IF s = secret THEN secretWatch ELSE Append(secretWatch, s)

\* Reconcile returned an error: the key goes back to the queue.
Fail ==
  /\ worker' = Idle
  /\ queued' = TRUE

\* The answer to a call that took effect arrives, or is lost on the way.
Reply(next) ==
  \/ /\ worker' = next
     /\ UNCHANGED <<queued, faults>>
  \/ /\ faults < MaxFaults
     /\ faults' = faults + 1
     /\ Fail

\* Mutant: the write carries no resourceVersion.
Unconditional == TRUE

\* A write of the CR sends the object that was fetched, resourceVersion included:
\* it takes effect only on the version that was read.
NoConflict == worker.fresh

WithStatusOf(c, d) ==
  [c EXCEPT !.reason = d.reason, !.phase = d.phase, !.observed = d.observed]

\* r.Status().Update writes the status alone.
UpdateStatus(c, next) ==
  \/ /\ NoConflict /\ Exists(cr)
     /\ PublishCR(WithStatusOf(cr, c))
     /\ Reply(next)
  \/ /\ ~(NoConflict /\ Exists(cr))
     /\ Fail
     /\ UNCHANGED <<crVars, faults>>

\* r.Update writes all but the status, subject to admission; an object being
\* deleted goes with its last finalizer.
Update(c, next) ==
  \/ /\ NoConflict /\ Exists(cr) /\ Admitted(c)
     /\ PublishCR(IF c.deleting /\ ~c.finalizer THEN NoCR ELSE WithStatusOf(c, cr))
     /\ Reply(next)
  \/ /\ ~(NoConflict /\ Exists(cr) /\ Admitted(c))
     /\ Fail
     /\ UNCHANGED <<crVars, faults>>

-----------------------------------------------------------------------------
(* Reconcile                                                               *)

\* Mutant: the finalizer is added only when nothing else is to be done.
FinalizerLast(c) ==
  IF ~Exists(c)                        THEN "idle"
  ELSE IF c.deleting /\ c.finalizer    THEN "deletingStatus"
  ELSE IF c.deleting                   THEN "idle"
  ELSE IF c.paused                     THEN "pauseStatus"
  ELSE IF ~Valid(c.spec)               THEN "invalidStatus"
  ELSE IF c.reason # "Reconciled"      THEN "secret"
  ELSE IF ~c.finalizer                 THEN "addFinalizer"
  ELSE                                      "secret"

\* What Reconcile does first with the CR it fetched.
Dispatch(c) ==
  IF ~Exists(c)                        THEN "idle"
  ELSE IF c.deleting /\ c.finalizer    THEN "deletingStatus"
  ELSE IF c.deleting                   THEN "idle"
  ELSE IF ~c.finalizer                 THEN "addFinalizer"
  ELSE IF c.paused                     THEN "pauseStatus"
  ELSE IF ~Valid(c.spec)               THEN "invalidStatus"
  ELSE                                      "secret"

\* An empty phase becomes Pending in the copy only; it reaches the API server
\* with whichever status update comes first.
Pending(c) == IF c.phase = "" THEN [c EXCEPT !.phase = "Pending"] ELSE c

StartReconcile ==
  /\ worker.pc = "idle"
  /\ queued
  /\ queued' = FALSE
  /\ worker' = IF Dispatch(crCache) = "idle" THEN Idle
               ELSE [pc |-> Dispatch(crCache), snap |-> Pending(crCache), fresh |-> crWatch = <<>>]
  /\ UNCHANGED <<crVars, workloadVars, secretVars, cacheVars, boundVars, flags, acked>>

\* Mutant: a failure to set the phase ends the attempt without an error.
DeletingStatusOrNothing ==
  /\ worker.pc = "deletingStatus"
  /\ \/ LET c == [worker.snap EXCEPT !.phase = "Deleting"]
        IN  UpdateStatus(c, [worker EXCEPT !.pc = "removeFinalizer", !.snap = c])
     \/ /\ faults < MaxFaults
        /\ faults' = faults + 1
        /\ worker' = Idle
        /\ UNCHANGED <<crVars, queued>>
  /\ UNCHANGED <<workloadVars, secretVars, cacheVars, flags, acked, lastUid, edits>>

\* handleDeletion, first half: a failure is logged and otherwise ignored.
DeletingStatus ==
  /\ worker.pc = "deletingStatus"
  /\ LET c == [worker.snap EXCEPT !.phase = "Deleting"]
     IN  \/ /\ NoConflict /\ Exists(cr)
            /\ PublishCR(WithStatusOf(cr, c))
            /\ worker' = [worker EXCEPT !.pc = "removeFinalizer", !.snap = c]
            /\ UNCHANGED faults
         \/ /\ ~(NoConflict /\ Exists(cr))
            /\ worker' = [worker EXCEPT !.pc = "removeFinalizer"]
            /\ UNCHANGED <<crVars, faults>>
         \/ /\ faults < MaxFaults
            /\ faults' = faults + 1
            /\ worker' = [worker EXCEPT !.pc = "removeFinalizer"]
            /\ UNCHANGED crVars
  /\ UNCHANGED <<workloadVars, secretVars, cacheVars, flags, queued, acked, lastUid, edits>>

\* handleDeletion, second half.
RemoveFinalizer ==
  /\ worker.pc = "removeFinalizer"
  /\ Update([worker.snap EXCEPT !.finalizer = FALSE], Idle)
  /\ UNCHANGED <<workloadVars, secretVars, cacheVars, flags, acked, lastUid, edits>>

\* Reconcile ends here; the update's own event brings it back.
AddFinalizer ==
  /\ worker.pc = "addFinalizer"
  /\ Update([worker.snap EXCEPT !.finalizer = TRUE], Idle)
  /\ UNCHANGED <<workloadVars, secretVars, cacheVars, flags, acked, lastUid, edits>>

ReportPaused ==
  /\ worker.pc = "pauseStatus"
  /\ UpdateStatus([worker.snap EXCEPT !.reason = "Paused", !.observed = worker.snap.gen], Idle)
  /\ acked' = (acked \/ (NoConflict /\ Exists(cr) /\ cr.paused))
  /\ UNCHANGED <<workloadVars, secretVars, cacheVars, flags, lastUid, edits>>

ReportInvalid ==
  /\ worker.pc = "invalidStatus"
  /\ UpdateStatus([worker.snap EXCEPT !.reason = "Invalid", !.phase = "Degraded",
                                      !.observed = worker.snap.gen], Idle)
  /\ UNCHANGED <<workloadVars, secretVars, cacheVars, flags, acked, lastUid, edits>>

\* Mutant: the owner reference is left out.
NotOwned(uid) == 0

\* SetControllerReference.
OwnedBy(uid) == uid

\* reconcileSessionSecret and its siblings: created once, never updated, and
\* the create fails with AlreadyExists when only the cache has missed it.
EnsureSecret ==
  /\ worker.pc = "secret"
  /\ LET next == [worker EXCEPT !.pc = "workload"]
     IN  \/ /\ secretCache.there
            /\ worker' = next
            /\ UNCHANGED <<secretVars, queued, faults>>
         \/ /\ ~secretCache.there /\ ~secret.there
            /\ PublishSecret([there |-> TRUE, owner |-> OwnedBy(worker.snap.uid)])
            /\ Reply(next)
         \/ /\ ~secretCache.there /\ secret.there
            /\ Fail
            /\ UNCHANGED <<secretVars, faults>>
  /\ UNCHANGED <<crVars, workloadVars, cacheVars, flags, acked, lastUid, edits>>

\* reconcileDeployment and its siblings: create, leave alone, or update the
\* cached object, which keeps the owner reference it has.  An update that changes
\* nothing may be sent all the same (the API server's defaults hide that), and
\* conflicts like any other.
EnsureWorkload ==
  /\ worker.pc = "workload"
  /\ LET next == [worker EXCEPT !.pc = "finish"]
         spec == worker.snap.spec
     IN  \/ /\ workloadCache.there /\ workloadCache.spec = spec
            /\ worker' = next
            /\ UNCHANGED <<workloadVars, queued, faults>>
         \/ /\ workloadCache.there /\ workloadCache.spec # spec
            /\ workloadWatch = <<>>
            /\ PublishWorkload([workload EXCEPT !.spec = spec])
            /\ Reply(next)
         \/ /\ ~workloadCache.there /\ ~workload.there
            /\ PublishWorkload([there |-> TRUE, owner |-> OwnedBy(worker.snap.uid), spec |-> spec])
            /\ Reply(next)
         \/ /\ \/ ~workloadCache.there /\ workload.there
               \/ workloadCache.there /\ workloadWatch # <<>>
            /\ Fail
            /\ UNCHANGED <<workloadVars, faults>>
  /\ UNCHANGED <<crVars, secretVars, cacheVars, flags, acked, lastUid, edits>>

FinishReconcile ==
  /\ worker.pc = "finish"
  /\ UpdateStatus([worker.snap EXCEPT !.reason = "Reconciled", !.phase = "Active",
                                      !.observed = worker.snap.gen], Idle)
  /\ UNCHANGED <<workloadVars, secretVars, cacheVars, flags, acked, lastUid, edits>>

\* Any other failure of a call: it had no effect and Reconcile returns the error.
CallFails ==
  /\ worker.pc \notin {"idle", "deletingStatus"}
  /\ faults < MaxFaults
  /\ faults' = faults + 1
  /\ Fail
  /\ UNCHANGED <<crVars, workloadVars, secretVars, cacheVars, flags, acked, lastUid, edits>>

\* The operator dies or is redeployed, perhaps with other flags; the new one
\* lists every object afresh and enqueues the CR.
Restart ==
  /\ faults < MaxFaults
  /\ faults' = faults + 1
  /\ flags' \in FlagSets
  /\ Fail
  /\ crCache' = cr /\ crWatch' = <<>>
  /\ workloadCache' = workload /\ workloadWatch' = <<>>
  /\ secretCache' = secret /\ secretWatch' = <<>>
  /\ UNCHANGED <<cr, workload, secret, acked, lastUid, edits>>

-----------------------------------------------------------------------------
(* Informers and the garbage collector                                     *)

DeliverCR ==
  /\ crWatch # <<>>
  /\ crCache' = Head(crWatch)
  /\ crWatch' = Tail(crWatch)
  /\ queued' = TRUE
  /\ UNCHANGED <<cr, workloadVars, secretVars, workloadCache, secretCache, boundVars, flags, worker, acked>>

\* Mutant: the kind is missing from Owns.
NotWatched == queued

\* SetupWithManager, Owns: an event of the workload enqueues its owner.
Watched == TRUE

DeliverWorkload ==
  /\ workloadWatch # <<>>
  /\ workloadCache' = Head(workloadWatch)
  /\ workloadWatch' = Tail(workloadWatch)
  /\ queued' = Watched
  /\ UNCHANGED <<crVars, workload, secretVars, crCache, secretCache, boundVars, flags, worker, acked>>

\* The workload's status changed (a pod became ready, say).
WorkloadEvent ==
  /\ workload.there /\ workloadWatch = <<>>
  /\ queued' = Watched
  /\ UNCHANGED <<crVars, workloadVars, secretVars, cacheVars, boundVars, flags, worker, acked>>

\* No Owns for Secrets: the cache learns of it, the queue does not.
DeliverSecret ==
  /\ secretWatch # <<>>
  /\ secretCache' = Head(secretWatch)
  /\ secretWatch' = Tail(secretWatch)
  /\ UNCHANGED <<crVars, workloadVars, secret, crCache, workloadCache, boundVars, flags, queued, worker, acked>>

\* An object goes when the CR its owner reference names is gone.
Orphaned(obj) == obj.owner # 0 /\ obj.owner # cr.uid

CollectWorkload ==
  /\ Orphaned(workload)
  /\ PublishWorkload(Absent)
  /\ UNCHANGED <<crVars, secretVars, cacheVars, boundVars, flags, queued, worker, acked>>

CollectSecret ==
  /\ Orphaned(secret)
  /\ PublishSecret(Absent)
  /\ UNCHANGED <<crVars, workloadVars, cacheVars, boundVars, flags, queued, worker, acked>>

-----------------------------------------------------------------------------
(* The user                                                                *)

\* A write of the CR by the user outdates the copy of a reconcile in progress.
UserWrites(c) ==
  /\ PublishCR(c)
  /\ worker' = [worker EXCEPT !.fresh = FALSE]
  /\ UNCHANGED <<workloadVars, secretVars, cacheVars, flags, queued, faults>>

CreateCR ==
  /\ ~Exists(cr)
  /\ lastUid < MaxCRs
  /\ lastUid' = lastUid + 1
  /\ \E s \in Specs :
       LET c == [uid |-> lastUid + 1, spec |-> s, gen |-> 1, paused |-> FALSE, finalizer |-> FALSE,
                 deleting |-> FALSE, reason |-> "", phase |-> "", observed |-> 0]
       IN  Admitted(c) /\ UserWrites(c)
  /\ UNCHANGED <<acked, edits>>

Edit(c) ==
  /\ Exists(cr)
  /\ edits < MaxEdits
  /\ edits' = edits + 1
  /\ Admitted(c)
  /\ UserWrites(c)
  /\ UNCHANGED lastUid

EditSpec ==
  /\ Exists(cr)
  /\ \E s \in Specs \ {cr.spec} : Edit([cr EXCEPT !.spec = s, !.gen = @ + 1])
  /\ UNCHANGED acked

TogglePause ==
  /\ Exists(cr)
  /\ Edit([cr EXCEPT !.paused = ~@])
  /\ acked' = FALSE

\* The webhook allows every delete.
DeleteCR ==
  /\ Exists(cr)
  /\ ~cr.deleting
  /\ UserWrites(IF cr.finalizer THEN [cr EXCEPT !.deleting = TRUE, !.gen = @ + 1] ELSE NoCR)
  /\ acked' = FALSE
  /\ UNCHANGED <<lastUid, edits>>

\* Drift: somebody deletes an owned object behind the operator's back.
DeleteWorkload ==
  /\ workload.there
  /\ edits < MaxEdits
  /\ edits' = edits + 1
  /\ PublishWorkload(Absent)
  /\ UNCHANGED <<crVars, secretVars, cacheVars, flags, queued, worker, acked, lastUid, faults>>

-----------------------------------------------------------------------------
Init ==
  /\ cr = NoCR /\ crCache = NoCR /\ crWatch = <<>>
  /\ workload = Absent /\ workloadCache = Absent /\ workloadWatch = <<>>
  /\ secret = Absent /\ secretCache = Absent /\ secretWatch = <<>>
  /\ flags \in FlagSets
  /\ queued = FALSE
  /\ worker = Idle
  /\ acked = FALSE
  /\ lastUid = 0 /\ edits = 0 /\ faults = 0

Reconciling ==
  \/ StartReconcile \/ DeletingStatus \/ RemoveFinalizer \/ AddFinalizer
  \/ ReportPaused \/ ReportInvalid \/ EnsureSecret \/ EnsureWorkload \/ FinishReconcile

Cluster ==
  \/ DeliverCR \/ DeliverWorkload \/ WorkloadEvent \/ DeliverSecret
  \/ CollectWorkload \/ CollectSecret

User == CreateCR \/ EditSpec \/ TogglePause \/ DeleteCR \/ DeleteWorkload

Next == Reconciling \/ Cluster \/ User \/ CallFails \/ Restart

Spec == Init /\ [][Next]_vars

\* The worker, the watches and the garbage collector keep going; users, faults
\* and workload events owe nothing.
FairSpec ==
  /\ Spec
  /\ WF_vars(Reconciling)
  /\ WF_vars(DeliverCR) /\ WF_vars(DeliverWorkload) /\ WF_vars(DeliverSecret)
  /\ WF_vars(CollectWorkload) /\ WF_vars(CollectSecret)

-----------------------------------------------------------------------------
(* Properties                                                              *)

\* Every variable keeps its type.
TypeOK ==
  /\ cr \in CR /\ crCache \in CR /\ crWatch \in Seq(CR)
  /\ workload \in Workload /\ workloadCache \in Workload /\ workloadWatch \in Seq(Workload)
  /\ secret \in Secret /\ secretCache \in Secret /\ secretWatch \in Seq(Secret)
  /\ flags \in Flags
  /\ queued \in BOOLEAN /\ acked \in BOOLEAN
  /\ worker \in Worker
  /\ lastUid \in 0..MaxCRs /\ edits \in 0..MaxEdits /\ faults \in 0..MaxFaults

\* No object is created for a CR that does not carry the finalizer yet
\* (Reconcile returns right after adding it).
FinalizerFirst ==
  \A obj \in {workload, secret} : obj.owner # 0 /\ obj.owner = cr.uid => cr.finalizer

\* Once the status has reported a pause that is still in force, no reconcile is
\* past the pause test, so nothing is created, updated or deleted any more,
\* however often the annotation was toggled before and whatever the cache shows.
PausedIsQuiet == acked => worker.pc \notin {"secret", "workload", "finish"}

\* The operator writes whole objects back (finalizer, status), and never undoes
\* a user's edit of the spec or of the annotation in doing so.
EditsSurvive ==
  [][Exists(cr) /\ Exists(cr') /\ worker'.pc # worker.pc =>
       cr'.spec = cr.spec /\ cr'.paused = cr.paused /\ cr'.deleting = cr.deleting]_vars

\* What a quiet cluster looks like.
Settled ==
  \/ ~Exists(cr) /\ ~workload.there /\ ~secret.there
  \/ /\ Exists(cr) /\ cr.finalizer /\ ~cr.deleting
     /\ \/ cr.paused /\ cr.reason = "Paused"
        \/ ~cr.paused /\ ~Valid(cr.spec) /\ cr.reason = "Invalid" /\ cr.phase = "Degraded"
        \/ /\ ~cr.paused /\ Valid(cr.spec)
           /\ workload = [there |-> TRUE, owner |-> cr.uid, spec |-> cr.spec]
           /\ secret = [there |-> TRUE, owner |-> cr.uid]
           /\ cr.reason = "Reconciled" /\ cr.observed = cr.gen

\* The webhook, if there is one, would in the end admit the CR as it is stored: a
\* restart with other flags or a webhook added later has not made it invalid.
Unhindered == <>[](Exists(cr) => Admitted(cr))

\* Left alone, the cluster ends up in the state the CR asks for, drift of the
\* watched objects repaired (no lost wake-up, no failure that is not retried).
Settles == Unhindered => <>[]Settled

\* A deleted CR that the webhook does not refuse goes away: its finalizer is
\* removed in the end, whatever failed or was outdated on the way (handleDeletion).
DeletionUnlessRefused ==
  Unhindered => \A u \in 1..MaxCRs : (cr.uid = u /\ cr.deleting) ~> (cr.uid # u)

\* Nothing outlives its CR: whatever a reconcile in progress still creates after
\* the CR is gone is collected too (owner references).
OrphansCollected ==
  ~Exists(cr) ~> (Exists(cr) \/ (~workload.there /\ ~secret.there))

-----------------------------------------------------------------------------
(* What the documentation and the comments say and the code does not keep  *)

\* bindplane_webhook.go:56: deletions are always allowed; so a deleted CR goes.
DeletionCompletes ==
  \A u \in 1..MaxCRs : (cr.uid = u /\ cr.deleting) ~> (cr.uid # u)

\* Nothing is under way and nothing will wake the worker.
AtRest ==
  /\ worker.pc = "idle" /\ ~queued
  /\ crWatch = <<>> /\ workloadWatch = <<>> /\ secretWatch = <<>>
  /\ ~Orphaned(workload) /\ ~Orphaned(secret)

\* bindplane_controller.go:603: the session secret is reconciled before the
\* workloads that consume it; so a workload at rest has its secret.
WorkloadHasSecret == AtRest /\ workload.there => secret.there
=============================================================================
