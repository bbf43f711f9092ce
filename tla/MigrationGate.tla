---------------------------- MODULE MigrationGate ----------------------------
(***************************************************************************)
(* The database-migration gate of the Bindplane reconciler                 *)
(* (internal/controller/jobs.go and bindplane_controller.go).              *)
(*                                                                         *)
(* One worker takes the Bindplane CR from its informer cache, manages the  *)
(* migrate Job, and hands the CR's image to the downstream workloads only  *)
(* when the gate lets it.  It reads through informer caches that lag the   *)
(* API server, and writes to the API server, where an update fails on a    *)
(* stale resourceVersion.  A workload that looks right in the cache is not *)
(* written at all, however old the copy.  The user edits the CR, the Job   *)
(* runs, fails, expires and is garbage-collected, and the operator may     *)
(* crash, between any two calls of one reconcile.                          *)
(*                                                                         *)
(* The streams of the CR and the Job are kept event by event.  Of each     *)
(* workload the cache holds one image: once a write is on its way to the   *)
(* cache no other can succeed, so there is no third image to remember.     *)
(***************************************************************************)
EXTENDS Naturals, Sequences

CONSTANTS
  Versions,     \* images of the Jobs Migrate component (spec.version)
  None,         \* the empty image
  Workloads,    \* the workloads reconciled after the gate
  Order,        \* the order in which Reconcile reaches them
  FirstVersion, \* the image the CR is created with
  MaxEdits,     \* bound: how often the user edits the CR
  MaxFaults,    \* bound: API errors, lost replies, operator crashes and
                \* changes of a workload's status
  MaxFailures,  \* bound: how many Jobs may fail
  MaxEvents     \* bound: edits and failed Jobs taken together

ASSUME GateAssumption ==
  /\ None \notin Versions
  /\ FirstVersion \in Versions
  /\ Order \in Seq(Workloads) /\ Order # <<>>
  /\ \A w \in Workloads : \E i \in DOMAIN Order : Order[i] = w
  /\ MaxEdits \in Nat
  /\ MaxFaults \in Nat
  /\ MaxFailures \in Nat
  /\ MaxEvents \in Nat

VARIABLES
  cr,        \* the Bindplane CR in the API server
  crCache,   \* the CR in the operator's informer cache
  crWatch,   \* CR versions written but not yet delivered to the cache
  job,       \* the migrate Job in the API server (status "absent": none)
  jobCache,  \* the Job in the operator's informer cache
  jobWatch,  \* Job versions not yet delivered to the cache
  lastUid,   \* uid of the youngest Job
  legacy,    \* the pre-Job migrate Deployment of an old operator still exists
  deployed,  \* image of each downstream workload in the API server
  workloadCache,  \* image of each workload in the operator's informer cache
  unseen,    \* workloads with a change not yet delivered to that cache
  queued,    \* the CR's key is in the work queue
  timer,     \* a RequeueAfter is pending
  worker,    \* the reconcile in progress: where it is and its locals
  schema,    \* the image whose migration the database went through last
  migrated,  \* images for which a Job has succeeded            (history)
  waived,    \* images asked for with skip-migrate-check set    (history)
  edits, faults, failures                    \* what has been used of the bounds

apiVars    == <<cr, crWatch>>
workloadVars == <<deployed, workloadCache, unseen>>
jobVars    == <<job, jobWatch, lastUid>>
cacheVars  == <<crCache, jobCache>>
queueVars  == <<queued, timer>>
dbVars     == <<schema, migrated>>
boundVars  == <<edits, faults, failures>>
vars == <<cr, crCache, crWatch, job, jobCache, jobWatch, lastUid, legacy, deployed,
          workloadCache, unseen, queued, timer, worker, schema, migrated, waived, edits, faults, failures>>

\* Edits and failed Jobs have not used up their common bound.
Spare == edits + failures < MaxEvents

-----------------------------------------------------------------------------
(* Objects                                                                 *)

Reasons == {"none", "Reconciled", "MigrationCheckSkipped", "MigrationFailed"}

\* The fields of a Bindplane object the gate reads or writes.  gen is
\* metadata.generation, recorded is status.components.jobsMigrate.image,
\* reason that of the Reconciled condition, observed status.observedGeneration.
CR == [version : Versions, gen : Nat, force : BOOLEAN, skip : BOOLEAN,
       recorded : Versions \cup {None}, reason : Reasons, observed : Nat]

\* The CR as the user creates it.
NewCR == [version |-> FirstVersion, gen |-> 1, force |-> FALSE, skip |-> FALSE,
          recorded |-> None, reason |-> "none", observed |-> 0]

NoJob == [uid |-> 0, image |-> None, status |-> "absent", deleting |-> FALSE]

Job == [uid : Nat, image : Versions, status : {"running", "succeeded", "failed"},
        deleting : BOOLEAN] \cup {NoJob}

Exists(j) == j.status # "absent"

\* Where a reconcile is: before the call of that name.
Points == {"idle", "legacy", "migrate", "forceDelete", "forcePatch", "forceReset", "create",
           "delete", "record", "gate", "failStatus", "rollout", "finish"}

MigrateStates == {"complete", "inProgress", "failed"}

\* Between reconciles the locals are dead and parked at fixed values.
\* snap: the object fetched at the start; fresh: its resourceVersion is
\* the current one; existing: the Job reconcileMigrateJob read; step: the
\* workload in turn.
Worker == [pc : Points, snap : CR, fresh : BOOLEAN, existing : Job,
           state : MigrateStates, step : DOMAIN Order]

Idle == [pc |-> "idle", snap |-> NewCR, fresh |-> FALSE, existing |-> NoJob,
         state |-> "complete", step |-> 1]

-----------------------------------------------------------------------------
(* The API server                                                          *)

\* A write that changes nothing keeps the resourceVersion and is not sent to
\* watchers.
PublishCR(c) ==
  /\ cr' = c
  /\ crWatch' = IF c = cr THEN crWatch ELSE Append(crWatch, c)

PublishJob(j) ==
  /\ job' = j
  /\ jobWatch' = IF j = job THEN jobWatch ELSE Append(jobWatch, j)

\* Mutant: the error is logged and nil returned.
FailWithoutRequeue ==
  /\ worker' = Idle
  /\ UNCHANGED queued

\* Reconcile returned an error: the key goes back to the queue (with backoff).
Fail ==
  /\ worker' = Idle
  /\ queued' = TRUE

\* The answer to a call that took effect arrives, or is lost on the way.
Reply(next) ==
  \/ /\ worker' = next
     /\ UNCHANGED <<queued, faults>>
  \/ /\ faults < MaxFaults
     /\ faults' = faults + 1
     /\ Fail

\* r.Status().Update: a conflict when the object was changed since it was read.
UpdateStatus(c, next) ==
  \/ /\ worker.fresh
     /\ PublishCR(c)
     /\ Reply(next)
  \/ /\ ~worker.fresh
     /\ Fail
     /\ UNCHANGED <<cr, crWatch, faults>>

\* r.Delete with foreground propagation: it goes by name, so it takes
\* whatever Job has the name now; NotFound is not an error.
DeleteLiveJob == PublishJob(IF Exists(job) THEN [job EXCEPT !.deleting = TRUE] ELSE job)

-----------------------------------------------------------------------------
(* reconcileMigrateJob                                                     *)

\* Mutant: a finished Job is taken for a successful one.
FinishedIsSuccess(j) == j.status \in {"succeeded", "failed"}

isJobSucceeded(j) == j.status = "succeeded"

\* Mutant: the Failed condition is not looked at.
FailureUnseen(j) == FALSE

isJobFailed(j) == j.status = "failed"

AlreadyMigrated(c) == c.recorded = c.version

\* Mutant: the "already migrated" test comes before the force annotation.
ForceAfterMigratedTest(c) == c.force /\ ~AlreadyMigrated(c)

\* annotationEnabled(force-migrate), tested before anything else.
ForceRequested(c) == c.force

\* The worker takes the key and fetches the CR from the cache; without a legacy
\* Deployment it goes on to the Job.
StartReconcile ==
  /\ worker.pc = "idle"
  /\ queued
  /\ queued' = FALSE
  /\ worker' = [Idle EXCEPT !.pc = IF legacy THEN "legacy" ELSE "migrate",
                            !.snap = crCache, !.fresh = (crWatch = <<>>)]
  /\ UNCHANGED <<apiVars, jobVars, cacheVars, dbVars, boundVars, legacy, workloadVars, timer, waived>>

\* A failed delete of the legacy Deployment is logged and otherwise ignored.
CleanUpLegacy ==
  /\ worker.pc = "legacy"
  /\ worker' = [worker EXCEPT !.pc = "migrate"]
  /\ \/ legacy' = FALSE /\ UNCHANGED faults
     \/ legacy /\ faults < MaxFaults /\ faults' = faults + 1 /\ UNCHANGED legacy
  /\ UNCHANGED <<apiVars, jobVars, cacheVars, queueVars, dbVars, workloadVars, waived, edits, failures>>

\* force-migrate comes before the "already migrated" test.
HandleForce ==
  /\ worker.pc = "migrate"
  /\ ForceRequested(worker.snap)
  /\ worker' = [worker EXCEPT !.existing = jobCache,
                              !.pc = IF Exists(jobCache) THEN "forceDelete" ELSE "forcePatch"]
  /\ UNCHANGED <<apiVars, jobVars, cacheVars, queueVars, dbVars, boundVars, legacy, workloadVars, waived>>

ForceDeleteJob ==
  /\ worker.pc = "forceDelete"
  /\ DeleteLiveJob
  /\ Reply([worker EXCEPT !.pc = "forcePatch", !.existing = NoJob])
  /\ UNCHANGED <<apiVars, cacheVars, dbVars, legacy, workloadVars, lastUid, timer, waived, edits, failures>>

\* r.Patch carries no resourceVersion and its answer overwrites the local copy
\* with the CR as it is now.
ClearForce ==
  /\ worker.pc = "forcePatch"
  /\ LET c == [cr EXCEPT !.force = FALSE]
     IN  /\ PublishCR(c)
         /\ Reply([worker EXCEPT !.pc = "forceReset", !.snap = c, !.fresh = TRUE])
  /\ UNCHANGED <<jobVars, cacheVars, dbVars, legacy, workloadVars, timer, waived, edits, failures>>

ResetRecorded ==
  /\ worker.pc = "forceReset"
  /\ LET c == [worker.snap EXCEPT !.recorded = None]
     IN  UpdateStatus(c, [worker EXCEPT !.pc = "gate", !.state = "inProgress", !.snap = c])
  /\ UNCHANGED <<jobVars, cacheVars, dbVars, legacy, workloadVars, timer, waived, edits, failures>>

\* What reconcileMigrateJob does next with the CR c and the Job j it read.
AfterReading(c, j) ==
  IF AlreadyMigrated(c)        THEN [pc |-> "gate",   state |-> "complete"]
  ELSE IF ~Exists(j)           THEN [pc |-> "create", state |-> "inProgress"]
  ELSE IF j.deleting           THEN [pc |-> "gate",   state |-> "inProgress"]
  ELSE IF j.image # c.version  THEN [pc |-> "delete", state |-> "inProgress"]
  ELSE IF isJobSucceeded(j)    THEN [pc |-> "record", state |-> "complete"]
  ELSE IF isJobFailed(j)       THEN [pc |-> "gate",   state |-> "failed"]
  ELSE                              [pc |-> "gate",   state |-> "inProgress"]

ReadJob ==
  /\ worker.pc = "migrate"
  /\ ~ForceRequested(worker.snap)
  /\ LET next == AfterReading(worker.snap, jobCache)
     IN  worker' = [worker EXCEPT !.pc = next.pc, !.state = next.state,
                                  !.existing = IF next.pc = "gate" THEN NoJob ELSE jobCache]
  /\ UNCHANGED <<apiVars, jobVars, cacheVars, queueVars, dbVars, boundVars, legacy, workloadVars, waived>>

\* Create fails with AlreadyExists while a Job of that name is still there.
CreateJob ==
  /\ worker.pc = "create"
  /\ \/ /\ ~Exists(job)
        /\ lastUid' = lastUid + 1
        /\ PublishJob([uid |-> lastUid + 1, image |-> worker.snap.version,
                       status |-> "running", deleting |-> FALSE])
        /\ Reply([worker EXCEPT !.pc = "gate"])
     \/ /\ Exists(job)
        /\ Fail
        /\ UNCHANGED <<jobVars, faults>>
  /\ UNCHANGED <<apiVars, cacheVars, dbVars, legacy, workloadVars, timer, waived, edits, failures>>

\* Mutant: the stale Job is replaced on the spot instead of being waited for.
ReplaceStaleJob ==
  /\ worker.pc = "delete"
  /\ lastUid' = lastUid + 1
  /\ PublishJob([uid |-> lastUid + 1, image |-> worker.snap.version,
                 status |-> "running", deleting |-> FALSE])
  /\ Reply([worker EXCEPT !.pc = "gate"])
  /\ UNCHANGED <<apiVars, cacheVars, dbVars, legacy, workloadVars, timer, waived, edits, failures>>

DeleteStaleJob ==
  /\ worker.pc = "delete"
  /\ DeleteLiveJob
  /\ Reply([worker EXCEPT !.pc = "gate", !.existing = NoJob])
  /\ UNCHANGED <<apiVars, cacheVars, dbVars, legacy, workloadVars, lastUid, timer, waived, edits, failures>>

RecordSuccess ==
  /\ worker.pc = "record"
  /\ LET c == [worker.snap EXCEPT !.recorded = worker.snap.version]
     IN  UpdateStatus(c, [worker EXCEPT !.pc = "gate", !.snap = c, !.existing = NoJob])
  /\ UNCHANGED <<jobVars, cacheVars, dbVars, legacy, workloadVars, timer, waived, edits, failures>>

-----------------------------------------------------------------------------
(* applyMigrateGate, the rollout and the end of Reconcile                  *)

\* Mutant: only a running Job holds the rollout back.
OpenUnlessRunning(state, c) == state # "inProgress" \/ c.skip

GateOpen(state, c) == state = "complete" \/ c.skip

PassGate ==
  /\ worker.pc = "gate"
  /\ GateOpen(worker.state, worker.snap)
  /\ worker' = [worker EXCEPT !.pc = "rollout", !.step = 1]
  /\ UNCHANGED <<apiVars, jobVars, cacheVars, queueVars, dbVars, boundVars, legacy, workloadVars, waived>>

\* The Job is not finished: stop here and look again in 10 s.
HaltInProgress ==
  /\ worker.pc = "gate"
  /\ ~GateOpen(worker.state, worker.snap)
  /\ worker.state = "inProgress"
  /\ worker' = Idle
  /\ timer' = TRUE
  /\ UNCHANGED <<apiVars, jobVars, cacheVars, dbVars, boundVars, legacy, workloadVars, queued, waived>>

HaltFailed ==
  /\ worker.pc = "gate"
  /\ ~GateOpen(worker.state, worker.snap)
  /\ worker.state = "failed"
  /\ worker' = [worker EXCEPT !.pc = "failStatus"]
  /\ UNCHANGED <<apiVars, jobVars, cacheVars, queueVars, dbVars, boundVars, legacy, workloadVars, waived>>

\* setMigrateFailureCondition; Reconcile returns without a requeue.
ReportFailure ==
  /\ worker.pc = "failStatus"
  /\ UpdateStatus([worker.snap EXCEPT !.reason = "MigrationFailed",
                                      !.observed = worker.snap.gen], Idle)
  /\ UNCHANGED <<jobVars, cacheVars, dbVars, legacy, workloadVars, timer, waived, edits, failures>>

\* Mutant: each component fetches the CR again.
RefetchedImage(c) == crCache.version

\* getBindplaneJobsImage, getNatsImage, getNodeImage, getOpAMPImage.
WorkloadImage(c) == c.version

\* Mutant: the loop over the workloads runs one too far.
PastLast(i) == i > Len(Order)

LastWorkload(i) == i = Len(Order)

AfterWorkload == IF LastWorkload(worker.step) THEN [worker EXCEPT !.pc = "finish"]
                 ELSE [worker EXCEPT !.step = @ + 1]

\* reconcileBindplaneJobsRegular, reconcileNats, reconcileNode, reconcileOpAMP:
\* each gives its workload the image of the CR fetched at the start.  A cached
\* copy that has it is left alone; otherwise (or when only the API server's
\* defaults make it look different) the workload is created or updated, which
\* fails when the copy is not the current one.
UpdateWorkload ==
  /\ worker.pc = "rollout"
  /\ LET w     == Order[worker.step]
         image == WorkloadImage(worker.snap)
     IN  \/ /\ workloadCache[w] = image
            /\ worker' = AfterWorkload
            /\ UNCHANGED <<deployed, unseen, queued, faults>>
         \/ /\ w \notin unseen
            /\ deployed' = [deployed EXCEPT ![w] = image]
            /\ unseen' = IF deployed[w] = image THEN unseen ELSE unseen \cup {w}
            /\ Reply(AfterWorkload)
         \/ /\ w \in unseen
            /\ Fail
            /\ UNCHANGED <<deployed, unseen, faults>>
  /\ UNCHANGED <<apiVars, jobVars, cacheVars, dbVars, legacy, workloadCache, timer, waived,
                 edits, failures>>

\* The Reconciled=True condition says whether the gate was bypassed.
ReconciledReason(state, c) ==
  IF c.skip /\ state # "complete" THEN "MigrationCheckSkipped" ELSE "Reconciled"

\* The final status update; the next look at the Job is timed only while it runs.
FinishReconcile ==
  /\ worker.pc = "finish"
  /\ UpdateStatus([worker.snap EXCEPT !.reason = ReconciledReason(worker.state, worker.snap),
                                      !.observed = worker.snap.gen], Idle)
  /\ timer' = (timer \/ (worker.state = "inProgress" /\ worker.fresh /\ faults' = faults))
  /\ UNCHANGED <<jobVars, cacheVars, dbVars, legacy, workloadVars, waived, edits, failures>>

\* Any other failure of a call: it had no effect and Reconcile returns the error.
CallFails ==
  /\ worker.pc \notin {"idle", "gate"}
  /\ faults < MaxFaults
  /\ faults' = faults + 1
  /\ Fail
  /\ UNCHANGED <<apiVars, jobVars, cacheVars, dbVars, legacy, workloadVars, timer, waived, edits, failures>>

\* The operator process dies; its successor lists every object afresh and
\* enqueues the CR.
Crash ==
  /\ faults < MaxFaults
  /\ faults' = faults + 1
  /\ Fail
  /\ timer' = FALSE
  /\ crCache' = cr /\ crWatch' = <<>>
  /\ jobCache' = job /\ jobWatch' = <<>>
  /\ workloadCache' = deployed /\ unseen' = {}
  /\ UNCHANGED <<cr, job, lastUid, dbVars, legacy, deployed, waived, edits, failures>>

-----------------------------------------------------------------------------
(* Informers, timers, the Job controller and the user                      *)

DeliverCR ==
  /\ crWatch # <<>>
  /\ crCache' = Head(crWatch)
  /\ crWatch' = Tail(crWatch)
  /\ queued' = TRUE
  /\ UNCHANGED <<cr, jobVars, jobCache, dbVars, boundVars, legacy, workloadVars, timer, worker, waived>>

DeliverJob ==
  /\ jobWatch # <<>>
  /\ jobCache' = Head(jobWatch)
  /\ jobWatch' = Tail(jobWatch)
  /\ queued' = TRUE
  /\ UNCHANGED <<apiVars, job, lastUid, crCache, dbVars, boundVars, legacy, workloadVars, timer, worker, waived>>

TimerFires ==
  /\ timer
  /\ timer' = FALSE
  /\ queued' = TRUE
  /\ UNCHANGED <<apiVars, jobVars, cacheVars, dbVars, boundVars, legacy, workloadVars, worker, waived>>

\* Mutant: the controller does not own the workload's kind, so that the cache
\* follows it and no event enqueues the CR.
WorkloadNotOwned(w) ==
  /\ w \in unseen
  /\ workloadCache' = [workloadCache EXCEPT ![w] = deployed[w]]
  /\ unseen' = unseen \ {w}
  /\ UNCHANGED <<apiVars, jobVars, cacheVars, queueVars, dbVars, boundVars, legacy, deployed, worker, waived>>

\* The cache learns what has become of a workload; the event enqueues the CR.
DeliverWorkload(w) ==
  /\ w \in unseen
  /\ workloadCache' = [workloadCache EXCEPT ![w] = deployed[w]]
  /\ unseen' = unseen \ {w}
  /\ queued' = TRUE
  /\ UNCHANGED <<apiVars, jobVars, cacheVars, dbVars, boundVars, legacy, deployed, timer, worker, waived>>

\* A pod becomes ready, say: the workload's controller writes its status, and
\* with it a new resourceVersion.  On top of a change still on its way another
\* makes no difference.
PodsChange(w) ==
  /\ deployed[w] # None /\ w \notin unseen
  /\ faults < MaxFaults
  /\ faults' = faults + 1
  /\ unseen' = unseen \cup {w}
  /\ UNCHANGED <<apiVars, jobVars, cacheVars, queueVars, dbVars, legacy, deployed, workloadCache,
                 worker, waived, edits, failures>>

\* An event of another owned object (a Service, say) enqueues the CR.
OwnedEvent ==
  /\ \E w \in Workloads : deployed[w] # None
  /\ ~queued
  /\ queued' = TRUE
  /\ UNCHANGED <<apiVars, jobVars, cacheVars, dbVars, boundVars, legacy, workloadVars, timer, worker, waived>>

\* The Job's pod migrates the database.  A Job being deleted may still get
\* there before its pod is stopped, but reports nothing any more.
JobSucceeds ==
  /\ job.status = "running"
  /\ schema' = job.image
  /\ \/ /\ ~job.deleting
        /\ migrated' = migrated \cup {job.image}
        /\ PublishJob([job EXCEPT !.status = "succeeded"])
     \/ /\ job.deleting
        /\ UNCHANGED <<migrated, job, jobWatch>>
  /\ UNCHANGED <<apiVars, lastUid, cacheVars, queueVars, boundVars, legacy, workloadVars, worker, waived>>

\* backoffLimit is exhausted.
JobFails ==
  /\ job.status = "running"
  /\ ~job.deleting
  /\ failures < MaxFailures /\ Spare
  /\ failures' = failures + 1
  /\ PublishJob([job EXCEPT !.status = "failed"])
  /\ UNCHANGED <<apiVars, lastUid, cacheVars, queueVars, dbVars, legacy, workloadVars, worker, waived, edits, faults>>

\* Foreground deletion ends once the pods are gone.
JobGone ==
  /\ job.deleting
  /\ PublishJob(NoJob)
  /\ UNCHANGED <<apiVars, lastUid, cacheVars, queueVars, dbVars, boundVars, legacy, workloadVars, worker, waived>>

\* ttlSecondsAfterFinished is 24 h, far longer than a reconcile or the lag of a
\* watch: both are over when the TTL controller deletes a finished Job.
JobExpires ==
  /\ job.status \in {"succeeded", "failed"}
  /\ ~job.deleting
  /\ worker.pc = "idle" /\ ~queued /\ crWatch = <<>> /\ jobWatch = <<>>
  /\ PublishJob(NoJob)
  /\ UNCHANGED <<apiVars, lastUid, cacheVars, queueVars, dbVars, boundVars, legacy, workloadVars, worker, waived>>

\* The user writes the CR; a reconcile in progress keeps its older copy.
Edit(c) ==
  /\ edits < MaxEdits /\ Spare
  /\ edits' = edits + 1
  /\ PublishCR(c)
  /\ worker' = [worker EXCEPT !.fresh = FALSE]
  /\ waived' = IF c.skip THEN waived \cup {c.version} ELSE waived
  /\ UNCHANGED <<jobVars, cacheVars, queueVars, dbVars, legacy, workloadVars, faults, failures>>

SetVersion == \E v \in Versions \ {cr.version} : Edit([cr EXCEPT !.version = v, !.gen = @ + 1])

RequestForce == ~cr.force /\ Edit([cr EXCEPT !.force = TRUE])

ToggleSkip == Edit([cr EXCEPT !.skip = ~@])

-----------------------------------------------------------------------------
Init ==
  /\ cr = NewCR
  /\ crCache = cr /\ crWatch = <<>>
  /\ job = NoJob /\ jobCache = NoJob /\ jobWatch = <<>> /\ lastUid = 0
  /\ legacy \in BOOLEAN
  /\ deployed = [w \in Workloads |-> None]
  /\ workloadCache = deployed /\ unseen = {}
  /\ queued = TRUE /\ timer = FALSE
  /\ worker = Idle
  /\ schema = None /\ migrated = {} /\ waived = {}
  /\ edits = 0 /\ faults = 0 /\ failures = 0

Reconciling ==
  \/ StartReconcile \/ CleanUpLegacy \/ HandleForce \/ ForceDeleteJob \/ ClearForce
  \/ ResetRecorded \/ ReadJob \/ CreateJob \/ DeleteStaleJob \/ RecordSuccess
  \/ PassGate \/ HaltInProgress \/ HaltFailed \/ ReportFailure
  \/ UpdateWorkload \/ FinishReconcile

Environment ==
  \/ DeliverCR \/ DeliverJob \/ TimerFires \/ OwnedEvent
  \/ \E w \in Workloads : DeliverWorkload(w) \/ PodsChange(w)
  \/ JobSucceeds \/ JobFails \/ JobGone \/ JobExpires
  \/ SetVersion \/ RequestForce \/ ToggleSkip
  \/ CallFails \/ Crash

Next == Reconciling \/ Environment

Spec == Init /\ [][Next]_vars

\* Something on its way to the cache arrives.
Deliver == DeliverCR \/ DeliverJob \/ \E w \in Workloads : DeliverWorkload(w)

\* The Job finishes one way or the other, or goes when it is being deleted.
JobMovesOn == (~job.deleting /\ (JobSucceeds \/ JobFails)) \/ JobGone

\* The worker loop, the watches (one or another), the delaying queue and the Job
\* controller keep going.  Users, faults, pods, events of other objects and the
\* TTL owe nothing.
FairSpec ==
  /\ Spec
  /\ WF_vars(Reconciling)
  /\ WF_vars(Deliver)
  /\ WF_vars(TimerFires)
  /\ WF_vars(JobMovesOn)

-----------------------------------------------------------------------------
(* Properties                                                              *)

\* Every variable keeps its type; the CR and the Jobs in flight are well formed.
TypeOK ==
  /\ cr \in CR /\ crCache \in CR /\ crWatch \in Seq(CR)
  /\ job \in Job /\ jobCache \in Job /\ jobWatch \in Seq(Job)
  /\ lastUid \in Nat
  /\ legacy \in BOOLEAN
  /\ deployed \in [Workloads -> Versions \cup {None}]
  /\ workloadCache \in [Workloads -> Versions \cup {None}]
  /\ unseen \in SUBSET Workloads
  /\ queued \in BOOLEAN /\ timer \in BOOLEAN
  /\ worker \in Worker
  /\ schema \in Versions \cup {None}
  /\ migrated \in SUBSET Versions /\ waived \in SUBSET Versions
  /\ edits \in 0..MaxEdits /\ faults \in 0..MaxFaults /\ failures \in 0..MaxFailures

\* The gate (applyMigrateGate): no workload ever runs an image whose migration
\* has not succeeded, unless the user asked for that image with
\* skip-migrate-check set.
GateSafety ==
  \A w \in Workloads : deployed[w] # None => deployed[w] \in migrated \cup waived

\* status.components.jobsMigrate.image always names a confirmed migration,
\* the bypass and the races notwithstanding (reconcileMigrateJob).
RecordedConfirmed == cr.recorded # None => cr.recorded \in migrated

\* Another round is under way or on its way.
RoundDue == worker.pc # "idle" \/ queued \/ timer

\* A Reconciled=True/Reconciled condition that has observed the current
\* generation speaks of a migrated image, and a workload that runs another one
\* all the same (left alone because of an old copy in the cache) will be looked
\* at again: its change has still to reach the cache, and enqueues the CR when
\* it does, or a round is due already (end of Reconcile, and the three
\* reconcile helpers that skip the write).
ReconciledTruthful ==
  cr.reason = "Reconciled" /\ cr.observed = cr.gen =>
    /\ cr.version \in migrated
    /\ \A w \in Workloads : deployed[w] = cr.version \/ w \in unseen \/ RoundDue

\* deleteJobWithPods deletes by name: the Job it hits is the one the reconcile
\* read, never a younger one created since (reconcileMigrateJob).
DeleteHitsObserved ==
  worker.pc \in {"forceDelete", "delete"} /\ Exists(job) => job.uid = worker.existing.uid

\* Nothing is under way and nothing will wake the worker.
AtRest ==
  /\ worker.pc = "idle" /\ ~queued /\ ~timer
  /\ crWatch = <<>> /\ jobWatch = <<>> /\ unseen = {}

\* The CR's image is everywhere and the status says so, and says whether its
\* migration is confirmed.
RolledOut ==
  /\ \A w \in Workloads : deployed[w] = cr.version
  /\ cr.observed = cr.gen
  /\ \/ cr.reason = "Reconciled" /\ cr.recorded = cr.version
     \/ cr.reason = "MigrationCheckSkipped" /\ cr.skip

\* The rollout stands still and the status says why.
HaltedOnFailure ==
  /\ cr.reason = "MigrationFailed" /\ cr.observed = cr.gen
  /\ ~cr.skip /\ job.status = "failed" /\ job.image = cr.version

\* No wake-up is lost: when nothing is pending the work is done, or halted on
\* a failure that the status shows (RequeueAfter, error returns and watches); an
\* annotation nobody has looked at yet does not rest either.
NoLostWakeup == AtRest => RolledOut \/ HaltedOnFailure

\* Once users and faults leave it alone the system settles in one of the two, and
\* no force-migrate request is left waiting.
Settles == <>[](~cr.force /\ (RolledOut \/ HaltedOnFailure))

\* The gate implements the migration contract; the round it owes is the key in
\* the work queue.
Contract == INSTANCE MigrationContract WITH
  migrated <- migrated, waived <- waived, deployed <- deployed,
  unseen <- unseen, due <- queued
ImplementsContract == Contract!Spec

-----------------------------------------------------------------------------
(* What the documentation says and the code does not keep                  *)

\* configuration.md:1355: force-migrate deletes the Job and a fresh one is
\* created; so the success that is recorded is never that of a Job that has
\* been deleted.
RecordsLiveJob ==
  worker.pc = "record" => job.uid = worker.existing.uid /\ ~job.deleting

\* configuration.md:1476: the database schema is always compatible with all
\* running workloads: once an image is rolled out without the bypass and all is
\* quiet, the database was last migrated for that image.
RunsOnItsSchema ==
  AtRest /\ RolledOut /\ ~cr.skip /\ job.status # "running" => schema = cr.version
=============================================================================
