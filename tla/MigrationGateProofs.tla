------------------------- MODULE MigrationGateProofs -------------------------
(***************************************************************************)
(* Proofs about the migration gate, for every set of images, every list of *)
(* workloads and every bound.                                              *)
(***************************************************************************)
EXTENDS MigrationGate, TLAPS

-----------------------------------------------------------------------------
(* Watch streams                                                           *)

\* Appending an element of S to a sequence over S gives one.
LEMMA AppendType ==
  ASSUME NEW S, NEW q \in Seq(S), NEW e \in S
  PROVE  Append(q, e) \in Seq(S)
  OBVIOUS

\* What is delivered from a watch stream, and what is left in it, was in it.
LEMMA DeliverType ==
  ASSUME NEW S, NEW q \in Seq(S), q # <<>>
  PROVE  /\ Head(q) \in S
         /\ Tail(q) \in Seq(S)
  OBVIOUS

\* A published CR is well formed and so is the stream it is put on.
LEMMA PublishCRType ==
  ASSUME cr \in CR, crWatch \in Seq(CR), NEW c \in CR, PublishCR(c)
  PROVE  cr' \in CR /\ crWatch' \in Seq(CR)
  BY AppendType DEF PublishCR

\* A published Job is well formed and so is the stream it is put on.
LEMMA PublishJobType ==
  ASSUME job \in Job, jobWatch \in Seq(Job), NEW j \in Job, PublishJob(j)
  PROVE  job' \in Job /\ jobWatch' \in Seq(Job)
  BY AppendType DEF PublishJob

\* A Job that exists names an image, and stays well formed when its status
\* changes or its deletion begins.
LEMMA ExistingJob ==
  ASSUME NEW j \in Job, Exists(j)
  PROVE  /\ j.image \in Versions
         /\ [j EXCEPT !.deleting = TRUE] \in Job
         /\ [j EXCEPT !.status = "succeeded"] \in Job
         /\ [j EXCEPT !.status = "failed"] \in Job
  <1> DEFINE Real == [uid : Nat, image : Versions,
                      status : {"running", "succeeded", "failed"}, deleting : BOOLEAN]
  <1>1. j # NoJob
    BY DEF Exists, NoJob
  <1>2. j \in Real
    BY <1>1 DEF Job
  <1>3. /\ j.image \in Versions
        /\ [j EXCEPT !.deleting = TRUE] \in Real
        /\ [j EXCEPT !.status = "succeeded"] \in Real
        /\ [j EXCEPT !.status = "failed"] \in Real
    BY <1>2
  <1>4. QED
    BY <1>3 DEF Job

\* The fields a deletion leaves alone.
LEMMA JobFields ==
  ASSUME NEW j \in Job
  PROVE  /\ [j EXCEPT !.deleting = TRUE].status = j.status
         /\ [j EXCEPT !.deleting = TRUE].image = j.image
  BY DEF Job, NoJob

\* Deleting whatever Job is there publishes a well-formed one.
LEMMA DeleteLiveJobType ==
  ASSUME TypeOK, DeleteLiveJob
  PROVE  job' \in Job /\ jobWatch' \in Seq(Job)
  <1>1. CASE Exists(job)
    <2>1. [job EXCEPT !.deleting = TRUE] \in Job
      BY <1>1, ExistingJob DEF TypeOK
    <2>2. QED
      BY <1>1, <2>1, PublishJobType DEF DeleteLiveJob, TypeOK
  <1>2. CASE ~Exists(job)
    BY <1>2, PublishJobType DEF DeleteLiveJob, TypeOK
  <1>3. QED
    BY <1>1, <1>2

-----------------------------------------------------------------------------
(* Type correctness                                                        *)

\* The worker between two reconciles is well formed.
LEMMA IdleType == Idle \in Worker /\ NewCR \in CR /\ NoJob \in Job
  <1>1. 1 \in DOMAIN Order
    BY GateAssumption
  <1>2. NewCR \in CR
    BY GateAssumption DEF NewCR, CR, Reasons
  <1>3. NoJob \in Job
    BY DEF Job
  <1>4. QED
    BY <1>1, <1>2, <1>3 DEF Idle, Worker, Points, MigrateStates

\* The answer to a call leaves the worker well formed.
LEMMA ReplyType ==
  ASSUME TypeOK, NEW next \in Worker, Reply(next)
  PROVE  worker' \in Worker /\ queued' \in BOOLEAN /\ faults' \in 0..MaxFaults
  <1>1. CASE worker' = next /\ UNCHANGED <<queued, faults>>
    BY <1>1 DEF TypeOK
  <1>2. CASE faults < MaxFaults /\ faults' = faults + 1 /\ Fail
    <2>1. faults' \in 0..MaxFaults
      BY <1>2, GateAssumption DEF TypeOK
    <2>2. worker' \in Worker /\ queued' \in BOOLEAN
      BY <1>2, IdleType DEF Fail
    <2>3. QED
      BY <2>1, <2>2
  <1>3. QED
    BY <1>1, <1>2 DEF Reply

\* So does a status update.
LEMMA UpdateStatusType ==
  ASSUME TypeOK, NEW c \in CR, NEW next \in Worker, UpdateStatus(c, next)
  PROVE  /\ worker' \in Worker /\ queued' \in BOOLEAN /\ faults' \in 0..MaxFaults
         /\ cr' \in CR /\ crWatch' \in Seq(CR)
  <1>1. CASE worker.fresh /\ PublishCR(c) /\ Reply(next)
    BY <1>1, ReplyType, PublishCRType DEF TypeOK
  <1>2. CASE Fail /\ UNCHANGED <<cr, crWatch, faults>>
    BY <1>2, IdleType DEF TypeOK, Fail
  <1>3. QED
    BY <1>1, <1>2 DEF UpdateStatus

\* One step of the reconcile keeps every variable in its type.
LEMMA ReconcilingType ==
  ASSUME TypeOK, Reconciling
  PROVE  TypeOK'
  <1> USE DEF apiVars, workloadVars, jobVars, cacheVars, queueVars, dbVars, boundVars
  <1>1. CASE StartReconcile
    BY <1>1, IdleType DEF StartReconcile, TypeOK, Worker, Points
  <1>2. CASE CleanUpLegacy
    <2>1. worker' \in Worker
      BY <1>2 DEF CleanUpLegacy, TypeOK, Worker, Points
    <2>2. legacy' \in BOOLEAN
      BY <1>2 DEF CleanUpLegacy, TypeOK
    <2>3. faults' \in 0..MaxFaults
      BY <1>2, GateAssumption DEF CleanUpLegacy, TypeOK
    <2>4. QED
      BY <1>2, <2>1, <2>2, <2>3 DEF CleanUpLegacy, TypeOK
  <1>3. CASE HandleForce
    BY <1>3 DEF HandleForce, TypeOK, Worker, Points
  <1>4. CASE ForceDeleteJob
    <2> DEFINE next == [worker EXCEPT !.pc = "forcePatch", !.existing = NoJob]
    <2>1. next \in Worker /\ Reply(next)
      BY <1>4, IdleType DEF ForceDeleteJob, TypeOK, Worker, Points
    <2> HIDE DEF next
    <2>2. worker' \in Worker /\ queued' \in BOOLEAN /\ faults' \in 0..MaxFaults
      BY <2>1, ReplyType
    <2>3. job' \in Job /\ jobWatch' \in Seq(Job)
      BY <1>4, DeleteLiveJobType DEF ForceDeleteJob
    <2>4. QED
      BY <1>4, <2>2, <2>3 DEF ForceDeleteJob, TypeOK
  <1>5. CASE ClearForce
    <2> DEFINE c == [cr EXCEPT !.force = FALSE]
               next == [worker EXCEPT !.pc = "forceReset", !.snap = c, !.fresh = TRUE]
    <2>1. c \in CR
      BY DEF TypeOK, CR
    <2>2. next \in Worker
      BY <2>1 DEF TypeOK, Worker, Points
    <2>3. PublishCR(c) /\ Reply(next)
      BY <1>5 DEF ClearForce
    <2> HIDE DEF c, next
    <2>4. worker' \in Worker /\ queued' \in BOOLEAN /\ faults' \in 0..MaxFaults
      BY <2>2, <2>3, ReplyType
    <2>5. cr' \in CR /\ crWatch' \in Seq(CR)
      BY <2>1, <2>3, PublishCRType DEF TypeOK
    <2>6. QED
      BY <1>5, <2>4, <2>5 DEF ClearForce, TypeOK
  <1>6. CASE ResetRecorded
    <2> DEFINE c == [worker.snap EXCEPT !.recorded = None]
               next == [worker EXCEPT !.pc = "gate", !.state = "inProgress", !.snap = c]
    <2>1. c \in CR
      BY DEF TypeOK, Worker, CR
    <2>2. next \in Worker
      BY <2>1 DEF TypeOK, Worker, Points, MigrateStates
    <2>3. UpdateStatus(c, next)
      BY <1>6 DEF ResetRecorded
    <2> HIDE DEF c, next
    <2>4. QED
      BY <1>6, <2>1, <2>2, <2>3, UpdateStatusType DEF ResetRecorded, TypeOK
  <1>7. CASE ReadJob
    <2> DEFINE next == AfterReading(worker.snap, jobCache)
               seen == IF next.pc = "gate" THEN NoJob ELSE jobCache
    <2>1. next.pc \in Points /\ next.state \in MigrateStates /\ seen \in Job
      BY IdleType DEF AfterReading, Points, MigrateStates, TypeOK
    <2> HIDE DEF next, seen
    <2>2. worker' \in Worker
      BY <1>7, <2>1 DEF ReadJob, next, seen, TypeOK, Worker
    <2>3. QED
      BY <1>7, <2>2 DEF ReadJob, TypeOK
  <1>8. CASE CreateJob
    <2>1. CASE Exists(job) /\ Fail /\ UNCHANGED <<jobVars, faults>>
      BY <1>8, <2>1, IdleType DEF CreateJob, TypeOK, Fail
    <2>2. CASE ~(Exists(job) /\ Fail /\ UNCHANGED <<jobVars, faults>>)
      <3> DEFINE j == [uid |-> lastUid + 1, image |-> worker.snap.version,
                       status |-> "running", deleting |-> FALSE]
                 next == [worker EXCEPT !.pc = "gate"]
      <3>1. j \in Job
        BY DEF TypeOK, Worker, CR, Job
      <3>2. next \in Worker
        BY DEF TypeOK, Worker, Points
      <3>3. PublishJob(j) /\ Reply(next) /\ lastUid' = lastUid + 1
        BY <1>8, <2>2 DEF CreateJob
      <3> HIDE DEF j, next
      <3>4. worker' \in Worker /\ queued' \in BOOLEAN /\ faults' \in 0..MaxFaults
        BY <3>2, <3>3, ReplyType
      <3>5. job' \in Job /\ jobWatch' \in Seq(Job)
        BY <3>1, <3>3, PublishJobType DEF TypeOK
      <3>6. lastUid' \in Nat
        BY <3>3 DEF TypeOK
      <3>7. QED
        BY <1>8, <3>4, <3>5, <3>6 DEF CreateJob, TypeOK
    <2>3. QED
      BY <2>1, <2>2
  <1>9. CASE DeleteStaleJob
    <2> DEFINE next == [worker EXCEPT !.pc = "gate", !.existing = NoJob]
    <2>1. next \in Worker /\ Reply(next)
      BY <1>9, IdleType DEF DeleteStaleJob, TypeOK, Worker, Points
    <2> HIDE DEF next
    <2>2. worker' \in Worker /\ queued' \in BOOLEAN /\ faults' \in 0..MaxFaults
      BY <2>1, ReplyType
    <2>3. job' \in Job /\ jobWatch' \in Seq(Job)
      BY <1>9, DeleteLiveJobType DEF DeleteStaleJob
    <2>4. QED
      BY <1>9, <2>2, <2>3 DEF DeleteStaleJob, TypeOK
  <1>10. CASE RecordSuccess
    <2> DEFINE c == [worker.snap EXCEPT !.recorded = worker.snap.version]
               next == [worker EXCEPT !.pc = "gate", !.snap = c, !.existing = NoJob]
    <2>1. c \in CR
      BY DEF TypeOK, Worker, CR
    <2>2. next \in Worker
      BY <2>1, IdleType DEF TypeOK, Worker, Points
    <2>3. UpdateStatus(c, next)
      BY <1>10 DEF RecordSuccess
    <2> HIDE DEF c, next
    <2>4. QED
      BY <1>10, <2>1, <2>2, <2>3, UpdateStatusType DEF RecordSuccess, TypeOK
  <1>11. CASE PassGate
    <2>1. 1 \in DOMAIN Order
      BY GateAssumption
    <2>2. QED
      BY <1>11, <2>1 DEF PassGate, TypeOK, Worker, Points
  <1>12. CASE HaltInProgress
    BY <1>12, IdleType DEF HaltInProgress, TypeOK
  <1>13. CASE HaltFailed
    BY <1>13 DEF HaltFailed, TypeOK, Worker, Points
  <1>14. CASE ReportFailure
    <2> DEFINE c == [worker.snap EXCEPT !.reason = "MigrationFailed",
                                        !.observed = worker.snap.gen]
    <2>1. c \in CR
      BY DEF TypeOK, Worker, CR, Reasons
    <2>2. UpdateStatus(c, Idle)
      BY <1>14 DEF ReportFailure
    <2> HIDE DEF c
    <2>3. QED
      BY <1>14, <2>1, <2>2, IdleType, UpdateStatusType DEF ReportFailure, TypeOK
  <1>15. CASE UpdateWorkload
    <2>1. AfterWorkload \in Worker
      <3>1. CASE LastWorkload(worker.step)
        BY <3>1 DEF AfterWorkload, TypeOK, Worker, Points
      <3>2. CASE ~LastWorkload(worker.step)
        <4>1. worker.step + 1 \in DOMAIN Order
          BY <3>2, GateAssumption DEF LastWorkload, TypeOK, Worker
        <4>2. QED
          BY <3>2, <4>1 DEF AfterWorkload, TypeOK, Worker
      <3>3. QED
        BY <3>1, <3>2
    <2>2. worker' \in Worker /\ queued' \in BOOLEAN /\ faults' \in 0..MaxFaults
      <3>1. CASE worker' = AfterWorkload /\ UNCHANGED <<queued, faults>>
        BY <2>1, <3>1 DEF TypeOK
      <3>2. CASE Reply(AfterWorkload)
        BY <2>1, <3>2, ReplyType
      <3>3. CASE Fail /\ UNCHANGED faults
        BY <3>3, IdleType DEF Fail, TypeOK
      <3>4. QED
        BY <1>15, <3>1, <3>2, <3>3 DEF UpdateWorkload
    <2>3. Order[worker.step] \in Workloads /\ WorkloadImage(worker.snap) \in Versions
      BY GateAssumption DEF WorkloadImage, TypeOK, Worker, CR
    <2>4. deployed' \in [Workloads -> Versions \cup {None}] /\ unseen' \in SUBSET Workloads
      BY <1>15, <2>3 DEF UpdateWorkload, TypeOK
    <2>5. QED
      BY <1>15, <2>2, <2>4 DEF UpdateWorkload, TypeOK
  <1>16. CASE FinishReconcile
    <2> DEFINE c == [worker.snap EXCEPT !.reason = ReconciledReason(worker.state, worker.snap),
                                        !.observed = worker.snap.gen]
    <2>1. c \in CR
      BY DEF TypeOK, Worker, CR, Reasons, ReconciledReason
    <2>2. UpdateStatus(c, Idle)
      BY <1>16 DEF FinishReconcile
    <2>3. timer' \in BOOLEAN
      BY <1>16 DEF FinishReconcile, TypeOK, Worker
    <2> HIDE DEF c
    <2>4. QED
      BY <1>16, <2>1, <2>2, <2>3, IdleType, UpdateStatusType DEF FinishReconcile, TypeOK
  <1>17. QED
    BY <1>1, <1>2, <1>3, <1>4, <1>5, <1>6, <1>7, <1>8, <1>9, <1>10, <1>11, <1>12, <1>13,
       <1>14, <1>15, <1>16 DEF Reconciling

\* An edit of the CR keeps every variable in its type.
LEMMA EditType ==
  ASSUME TypeOK, NEW c \in CR, Edit(c)
  PROVE  TypeOK'
  <1> USE DEF workloadVars, jobVars, cacheVars, queueVars, dbVars
  <1>1. cr' \in CR /\ crWatch' \in Seq(CR)
    BY PublishCRType DEF Edit, TypeOK
  <1>2. worker' \in Worker
    BY DEF Edit, TypeOK, Worker
  <1>3. waived' \in SUBSET Versions
    BY DEF Edit, TypeOK, CR
  <1>4. edits' \in 0..MaxEdits
    BY GateAssumption DEF Edit, TypeOK
  <1>5. QED
    BY <1>1, <1>2, <1>3, <1>4 DEF Edit, TypeOK

\* One step of the environment keeps every variable in its type.
LEMMA EnvironmentType ==
  ASSUME TypeOK, Environment
  PROVE  TypeOK'
  <1> USE DEF apiVars, workloadVars, jobVars, cacheVars, queueVars, dbVars, boundVars
  <1>1. CASE DeliverCR
    BY <1>1, DeliverType DEF DeliverCR, TypeOK
  <1>2. CASE DeliverJob
    BY <1>2, DeliverType DEF DeliverJob, TypeOK
  <1>3. CASE TimerFires
    BY <1>3 DEF TimerFires, TypeOK
  <1>4. CASE OwnedEvent \/ \E w \in Workloads : DeliverWorkload(w) \/ PodsChange(w)
    <2>1. CASE OwnedEvent
      BY <2>1 DEF OwnedEvent, TypeOK
    <2>2. ASSUME NEW w \in Workloads, DeliverWorkload(w)
          PROVE  TypeOK'
      <3>1. /\ workloadCache' \in [Workloads -> Versions \cup {None}]
            /\ unseen' \in SUBSET Workloads
        BY <2>2 DEF DeliverWorkload, TypeOK
      <3>2. QED
        BY <2>2, <3>1 DEF DeliverWorkload, TypeOK
    <2>3. ASSUME NEW w \in Workloads, PodsChange(w)
          PROVE  TypeOK'
      <3>1. unseen' \in SUBSET Workloads /\ faults' \in 0..MaxFaults
        BY <2>3, GateAssumption DEF PodsChange, TypeOK
      <3>2. QED
        BY <2>3, <3>1 DEF PodsChange, TypeOK
    <2>4. QED
      BY <1>4, <2>1, <2>2, <2>3
  <1>5. CASE JobSucceeds
    <2>1. Exists(job) /\ job \in Job
      BY <1>5 DEF JobSucceeds, Exists, TypeOK
    <2>2. schema' \in Versions \cup {None} /\ migrated' \in SUBSET Versions
      BY <1>5, <2>1, ExistingJob DEF JobSucceeds, TypeOK
    <2>3. job' \in Job /\ jobWatch' \in Seq(Job)
      BY <1>5, <2>1, ExistingJob, PublishJobType DEF JobSucceeds, TypeOK
    <2>4. QED
      BY <1>5, <2>2, <2>3 DEF JobSucceeds, TypeOK
  <1>6. CASE JobFails
    <2>1. Exists(job) /\ job \in Job
      BY <1>6 DEF JobFails, Exists, TypeOK
    <2>2. job' \in Job /\ jobWatch' \in Seq(Job)
      BY <1>6, <2>1, ExistingJob, PublishJobType DEF JobFails, TypeOK
    <2>3. failures' \in 0..MaxFailures
      BY <1>6, GateAssumption DEF JobFails, TypeOK
    <2>4. QED
      BY <1>6, <2>2, <2>3 DEF JobFails, TypeOK
  <1>7. CASE JobGone
    BY <1>7, IdleType, PublishJobType DEF JobGone, TypeOK
  <1>8. CASE JobExpires
    BY <1>8, IdleType, PublishJobType DEF JobExpires, TypeOK
  <1>9. CASE SetVersion
    <2>1. PICK v \in Versions \ {cr.version} :
                 Edit([cr EXCEPT !.version = v, !.gen = @ + 1])
      BY <1>9 DEF SetVersion
    <2>2. [cr EXCEPT !.version = v, !.gen = @ + 1] \in CR
      <3>1. cr \in CR /\ v \in Versions
        BY DEF TypeOK
      <3>2. cr.gen + 1 \in Nat
        BY <3>1 DEF CR
      <3>3. QED
        BY <3>1, <3>2 DEF CR
    <2>3. QED
      BY <2>1, <2>2, EditType
  <1>10. CASE RequestForce
    <2>1. [cr EXCEPT !.force = TRUE] \in CR
      BY DEF TypeOK, CR
    <2>2. QED
      BY <1>10, <2>1, EditType DEF RequestForce
  <1>11. CASE ToggleSkip
    <2>1. [cr EXCEPT !.skip = ~@] \in CR
      BY DEF TypeOK, CR
    <2>2. QED
      BY <1>11, <2>1, EditType DEF ToggleSkip
  <1>12. CASE CallFails
    <2>1. faults' \in 0..MaxFaults
      BY <1>12, GateAssumption DEF CallFails, TypeOK
    <2>2. QED
      BY <1>12, <2>1, IdleType DEF CallFails, Fail, TypeOK
  <1>13. CASE Crash
    <2>1. faults' \in 0..MaxFaults
      BY <1>13, GateAssumption DEF Crash, TypeOK
    <2>2. crWatch' \in Seq(CR) /\ jobWatch' \in Seq(Job)
      BY <1>13 DEF Crash
    <2>3. worker' \in Worker /\ queued' \in BOOLEAN /\ timer' \in BOOLEAN
      BY <1>13, IdleType DEF Crash, Fail
    <2>4. /\ workloadCache' \in [Workloads -> Versions \cup {None}]
          /\ unseen' \in SUBSET Workloads
      BY <1>13 DEF Crash, TypeOK
    <2>5. QED
      BY <1>13, <2>1, <2>2, <2>3, <2>4 DEF Crash, TypeOK
  <1>14. QED
    BY <1>1, <1>2, <1>3, <1>4, <1>5, <1>6, <1>7, <1>8, <1>9, <1>10, <1>11, <1>12, <1>13
    DEF Environment

\* The initial states are well formed.
LEMMA InitType ==
  ASSUME Init
  PROVE  TypeOK
  <1>1. crWatch \in Seq(CR) /\ jobWatch \in Seq(Job)
    BY DEF Init
  <1>2. edits \in 0..MaxEdits /\ faults \in 0..MaxFaults /\ failures \in 0..MaxFailures
    BY GateAssumption DEF Init
  <1>3. migrated \in SUBSET Versions /\ waived \in SUBSET Versions /\ lastUid \in Nat
    BY DEF Init
  <1>4. /\ deployed \in [Workloads -> Versions \cup {None}]
        /\ workloadCache \in [Workloads -> Versions \cup {None}]
        /\ unseen \in SUBSET Workloads
    BY DEF Init
  <1>5. QED
    BY <1>1, <1>2, <1>3, <1>4, IdleType DEF Init, TypeOK

\* Every state the specification reaches is well formed, whatever the images,
\* the workloads and the bounds.
THEOREM TypeCorrect == Spec => []TypeOK
  <1>1. Init => TypeOK
    BY InitType
  <1>2. TypeOK /\ [Next]_vars => TypeOK'
    <2> SUFFICES ASSUME TypeOK, [Next]_vars PROVE TypeOK'
      OBVIOUS
    <2>1. CASE Reconciling
      BY <2>1, ReconcilingType
    <2>2. CASE Environment
      BY <2>2, EnvironmentType
    <2>3. CASE UNCHANGED vars
      BY <2>3 DEF vars, TypeOK
    <2>4. QED
      BY <2>1, <2>2, <2>3 DEF Next
  <1>3. QED
    BY <1>1, <1>2, PTL DEF Spec

-----------------------------------------------------------------------------
(* The gate                                                                *)

\* CRs, wherever they are (API server, watch, cache, worker), name only
\* confirmed migrations, and ask for the bypass only where the user did.
ConfirmedCRs ==
  {c \in CR : /\ c.recorded # None => c.recorded \in migrated
              /\ c.skip => c.version \in waived}

\* Jobs, wherever they are, are successful only if their image was migrated.
ConfirmedJobs == {j \in Job : isJobSucceeded(j) => j.image \in migrated}

\* Every workload before the k-th runs image v, or a change of it has still to
\* reach the cache, or one has and the key is back in the queue.
Reached(k, v) ==
  \A i \in 1..(k - 1) : deployed[Order[i]] = v \/ Order[i] \in unseen \/ queued

\* What the reconcile in progress has established so far.
Justified(w) ==
  /\ w.snap \in ConfirmedCRs
  /\ w.pc = "record" => w.snap.version \in migrated
  /\ w.pc \in {"create", "delete"} => w.state # "complete"
  /\ w.pc = "gate" /\ w.state = "complete" => w.snap.version \in migrated
  /\ w.pc = "rollout" => w.snap.version \in migrated \cup waived /\ Reached(w.step, w.snap.version)

\* The cached copy of a workload none of whose changes is on its way is true.
Synced == \A w \in Workloads : w \notin unseen => workloadCache[w] = deployed[w]

\* The inductive invariant behind the gate.
GateInv ==
  /\ TypeOK
  /\ cr \in ConfirmedCRs /\ crCache \in ConfirmedCRs /\ crWatch \in Seq(ConfirmedCRs)
  /\ job \in ConfirmedJobs /\ jobCache \in ConfirmedJobs /\ jobWatch \in Seq(ConfirmedJobs)
  /\ Justified(worker)
  /\ Synced
  /\ GateSafety

\* A sequence over a set is a sequence over every larger one.
LEMMA SeqMonotone ==
  ASSUME NEW S, NEW T, S \subseteq T, NEW q \in Seq(S)
  PROVE  q \in Seq(T)
  OBVIOUS

\* The worker between reconciles has nothing to justify.
LEMMA IdleJustified == Justified(Idle) /\ NewCR \in ConfirmedCRs /\ NoJob \in ConfirmedJobs
  BY IdleType DEF Justified, Idle, NewCR, NoJob, ConfirmedCRs, ConfirmedJobs, isJobSucceeded

\* A status update of the worker's own copy keeps the CRs confirmed and moves
\* the worker on, or back to the queue.
LEMMA UpdateStatusConfirmed ==
  ASSUME GateInv, NEW c \in ConfirmedCRs, NEW next, UpdateStatus(c, next)
  PROVE  /\ cr' \in ConfirmedCRs
         /\ crWatch' \in Seq(ConfirmedCRs)
         /\ worker' = next \/ worker' = Idle
  <1>1. Append(crWatch, c) \in Seq(ConfirmedCRs)
    BY AppendType DEF GateInv
  <1>2. QED
    BY <1>1 DEF GateInv, UpdateStatus, PublishCR, Reply, Fail

\* The key leaves the queue only when a round begins.
QueueKept == queued => queued'

LEMMA OnlyStartDequeues == ASSUME Next, ~StartReconcile PROVE QueueKept
  <1> USE DEF queueVars, QueueKept
  <1>1. CASE CleanUpLegacy \/ HandleForce \/ ReadJob \/ PassGate \/ HaltInProgress \/ HaltFailed
    BY <1>1 DEF CleanUpLegacy, HandleForce, ReadJob, PassGate, HaltInProgress, HaltFailed
  <1>2. CASE ForceDeleteJob \/ ClearForce \/ CreateJob \/ DeleteStaleJob \/ UpdateWorkload
    BY <1>2 DEF ForceDeleteJob, ClearForce, CreateJob, DeleteStaleJob, UpdateWorkload, Reply, Fail
  <1>3. CASE ResetRecorded \/ RecordSuccess \/ ReportFailure \/ FinishReconcile
    BY <1>3 DEF ResetRecorded, RecordSuccess, ReportFailure, FinishReconcile, UpdateStatus,
                Reply, Fail
  <1>4. CASE Environment
    BY <1>4 DEF Environment, DeliverCR, DeliverJob, TimerFires, OwnedEvent, DeliverWorkload,
                PodsChange, JobSucceeds, JobFails, JobGone, JobExpires, SetVersion, RequestForce,
                ToggleSkip, Edit, CallFails, Crash, Fail
  <1>5. QED
    BY <1>1, <1>2, <1>3, <1>4 DEF Next, Reconciling

\* A step that leaves the history alone, and hands nothing to a workload,
\* keeps the invariant when the CRs, the Jobs and the worker it produces are
\* confirmed, and a change of a workload that reaches the cache queues the key.
LEMMA HandsOutNothing ==
  ASSUME GateInv, TypeOK', UNCHANGED <<migrated, waived, deployed>>, Synced',
         cr' \in ConfirmedCRs, crCache' \in ConfirmedCRs, crWatch' \in Seq(ConfirmedCRs),
         job' \in ConfirmedJobs, jobCache' \in ConfirmedJobs, jobWatch' \in Seq(ConfirmedJobs),
         NEW w, worker' = w, Justified(w),
         w.pc = "rollout" => QueueKept /\ (unseen \subseteq unseen' \/ queued')
  PROVE  GateInv'
  <1>1. ConfirmedCRs' = ConfirmedCRs /\ ConfirmedJobs' = ConfirmedJobs
    BY DEF ConfirmedCRs, ConfirmedJobs
  <1>2. w.pc = "rollout" => Reached(w.step, w.snap.version)'
    BY DEF Justified, Reached, QueueKept
  <1>3. Justified(worker)'
    BY <1>1, <1>2 DEF Justified
  <1>4. GateSafety'
    BY DEF GateInv, GateSafety
  <1>5. QED
    BY <1>1, <1>3, <1>4 DEF GateInv

\* The same for a step no workload and no copy of one takes part in.
LEMMA QuietStep ==
  ASSUME GateInv, TypeOK', UNCHANGED <<migrated, waived, workloadVars>>,
         cr' \in ConfirmedCRs, crCache' \in ConfirmedCRs, crWatch' \in Seq(ConfirmedCRs),
         job' \in ConfirmedJobs, jobCache' \in ConfirmedJobs, jobWatch' \in Seq(ConfirmedJobs),
         NEW w, worker' = w, Justified(w), w.pc = "rollout" => QueueKept
  PROVE  GateInv'
  <1>1. UNCHANGED <<deployed, workloadCache, unseen>>
    BY DEF workloadVars
  <1>2. Synced'
    BY <1>1 DEF GateInv, Synced
  <1>3. QED
    BY <1>1, <1>2, HandsOutNothing

\* Deleting a Job changes no verdict on it.
LEMMA DeleteLiveJobConfirmed ==
  ASSUME GateInv, DeleteLiveJob
  PROVE  job' \in ConfirmedJobs /\ jobWatch' \in Seq(ConfirmedJobs)
  <1>1. job' \in ConfirmedJobs
    <2>1. CASE Exists(job)
      <3>1. job \in Job /\ [job EXCEPT !.deleting = TRUE] \in Job
        BY <2>1, ExistingJob DEF GateInv, TypeOK
      <3>2. [job EXCEPT !.deleting = TRUE] \in ConfirmedJobs
        BY <3>1, JobFields DEF GateInv, ConfirmedJobs, isJobSucceeded
      <3>3. QED
        BY <2>1, <3>2 DEF DeleteLiveJob, PublishJob
    <2>2. CASE ~Exists(job)
      BY <2>2 DEF DeleteLiveJob, PublishJob, GateInv
    <2>3. QED
      BY <2>1, <2>2
  <1>2. jobWatch' = jobWatch \/ jobWatch' = Append(jobWatch, job')
    BY DEF DeleteLiveJob, PublishJob
  <1>3. QED
    BY <1>1, <1>2, AppendType DEF GateInv

\* What the next workload's turn leaves behind it: its image is right, or was
\* when the cached copy was made, or the reconcile starts over.
LEMMA RolloutReaches ==
  ASSUME GateInv, UpdateWorkload
  PROVE  LET v == worker.snap.version
             k == worker.step
         IN  /\ k \in DOMAIN Order /\ k \in Nat /\ Order[k] \in Workloads
             /\ v \in migrated \cup waived
             /\ \/ UNCHANGED <<deployed, unseen>>
                \/ /\ Order[k] \notin unseen
                   /\ deployed' = [deployed EXCEPT ![Order[k]] = v]
                   /\ unseen' = IF deployed[Order[k]] = v THEN unseen ELSE unseen \cup {Order[k]}
             /\ workloadCache' = workloadCache
             /\ QueueKept
             /\ \/ worker' = Idle /\ queued' = TRUE
                \/ /\ worker' = AfterWorkload
                   /\ \A i \in 1..k :
                        deployed'[Order[i]] = v \/ Order[i] \in unseen' \/ queued'
  <1> DEFINE v == worker.snap.version
             k == worker.step
  <1>1. /\ k \in DOMAIN Order /\ k \in Nat /\ Order[k] \in Workloads
        /\ v \in migrated \cup waived
        /\ Reached(k, v)
        /\ worker.pc = "rollout"
        /\ deployed \in [Workloads -> Versions \cup {None}]
    BY GateAssumption DEF UpdateWorkload, GateInv, Justified, TypeOK, Worker
  <1>2. QueueKept /\ workloadCache' = workloadCache
    BY <1>1, OnlyStartDequeues DEF UpdateWorkload, StartReconcile, Next, Reconciling
  <1>3. \A i \in 1..k : Order[i] \in Workloads /\ (i = k \/ i \in 1..(k - 1))
    BY <1>1, GateAssumption
  <1>4. CASE /\ workloadCache[Order[k]] = v
             /\ worker' = AfterWorkload
             /\ UNCHANGED <<deployed, unseen, queued, faults>>
    <2>1. deployed[Order[k]] = v \/ Order[k] \in unseen
      BY <1>1, <1>4 DEF GateInv, Synced
    <2>2. \A i \in 1..k : deployed'[Order[i]] = v \/ Order[i] \in unseen' \/ queued'
      BY <1>1, <1>3, <1>4, <2>1 DEF Reached
    <2>3. QED
      BY <1>1, <1>2, <1>4, <2>2
  <1>5. CASE /\ Order[k] \notin unseen
             /\ deployed' = [deployed EXCEPT ![Order[k]] = v]
             /\ unseen' = IF deployed[Order[k]] = v THEN unseen ELSE unseen \cup {Order[k]}
             /\ Reply(AfterWorkload)
    <2>1. deployed'[Order[k]] = v /\ unseen \subseteq unseen'
      BY <1>1, <1>5
    <2>2. \A w \in Workloads : deployed'[w] = deployed[w] \/ deployed'[w] = v
      BY <1>1, <1>5
    <2>3. \A i \in 1..k : deployed'[Order[i]] = v \/ Order[i] \in unseen' \/ queued'
      BY <1>1, <1>2, <1>3, <2>1, <2>2 DEF Reached, QueueKept
    <2>4. worker' = AfterWorkload \/ (worker' = Idle /\ queued' = TRUE)
      BY <1>5 DEF Reply, Fail
    <2>5. QED
      BY <1>1, <1>2, <1>5, <2>3, <2>4
  <1>6. CASE Fail /\ UNCHANGED <<deployed, unseen, faults>>
    BY <1>1, <1>2, <1>6 DEF Fail
  <1>7. QED
    BY <1>4, <1>5, <1>6 DEF UpdateWorkload, WorkloadImage

\* Handing an image to a workload, or passing it over, keeps the gate's invariant.
LEMMA RolloutGate ==
  ASSUME GateInv, TypeOK', UpdateWorkload
  PROVE  GateInv'
  <1> USE DEF apiVars, jobVars, cacheVars, dbVars
  <1> DEFINE v == worker.snap.version
             k == worker.step
  <1>0. worker \in Worker /\ deployed \in [Workloads -> Versions \cup {None}]
    BY DEF GateInv, TypeOK
  <1>1. /\ k \in DOMAIN Order /\ k \in Nat /\ Order[k] \in Workloads
        /\ v \in migrated \cup waived
        /\ \/ UNCHANGED <<deployed, unseen>>
           \/ /\ Order[k] \notin unseen
              /\ deployed' = [deployed EXCEPT ![Order[k]] = v]
              /\ unseen' = IF deployed[Order[k]] = v THEN unseen ELSE unseen \cup {Order[k]}
        /\ workloadCache' = workloadCache
        /\ \/ worker' = Idle
           \/ /\ worker' = AfterWorkload
              /\ \A i \in 1..k : deployed'[Order[i]] = v \/ Order[i] \in unseen' \/ queued'
    BY RolloutReaches
  <1>2. ConfirmedCRs' = ConfirmedCRs /\ ConfirmedJobs' = ConfirmedJobs
    BY DEF UpdateWorkload, ConfirmedCRs, ConfirmedJobs
  <1>3. UNCHANGED <<cr, crCache, crWatch, job, jobCache, jobWatch, migrated, waived>>
    BY DEF UpdateWorkload
  <1>4. GateSafety'
    BY <1>0, <1>1, <1>3 DEF GateInv, GateSafety
  <1>5. Synced'
    <2>1. CASE UNCHANGED <<deployed, unseen>>
      BY <1>1, <2>1 DEF GateInv, Synced
    <2>2. CASE /\ deployed' = [deployed EXCEPT ![Order[k]] = v]
               /\ unseen' = IF deployed[Order[k]] = v THEN unseen ELSE unseen \cup {Order[k]}
      <3> SUFFICES ASSUME NEW w \in Workloads, w \notin unseen'
                   PROVE  workloadCache[w] = deployed'[w]
        BY <1>1 DEF Synced
      <3>1. w \notin unseen /\ deployed'[w] = deployed[w]
        BY <1>0, <1>1, <2>2
      <3>2. QED
        BY <3>1 DEF GateInv, Synced
    <2>3. QED
      BY <1>1, <2>1, <2>2
  <1>6. Justified(worker)'
    <2>1. CASE worker' = Idle
      BY <2>1, <1>2, IdleJustified DEF Justified, Idle
    <2>2. CASE worker' = AfterWorkload
      <3>1. CASE worker' = [worker EXCEPT !.pc = "finish"]
        BY <3>1, <1>0, <1>2 DEF Justified, GateInv, Worker
      <3>2. CASE worker' = [worker EXCEPT !.step = @ + 1]
        <4>1. /\ worker'.snap = worker.snap /\ worker'.pc = "rollout" /\ worker'.step = k + 1
          BY <3>2, <1>0 DEF Worker, UpdateWorkload
        <4>2. v \in migrated' \cup waived' /\ worker'.snap \in ConfirmedCRs'
          BY <1>1, <1>2, <1>3, <4>1 DEF GateInv, Justified
        <4>3. 1..((k + 1) - 1) = 1..k
          BY <1>1
        <4>4. Reached(worker.step, worker.snap.version)'
          BY <1>0, <1>1, <4>1, <4>3, <2>2, IdleType DEF Reached, Idle
        <4>5. QED
          BY <4>1, <4>2, <4>4 DEF Justified
      <3>3. QED
        BY <2>2, <3>1, <3>2 DEF AfterWorkload
    <2>3. QED
      BY <1>1, <2>1, <2>2
  <1>7. QED
    BY <1>2, <1>3, <1>4, <1>5, <1>6 DEF GateInv

\* A reconcile's step keeps the gate's invariant.
LEMMA ReconcilingGate ==
  ASSUME GateInv, Reconciling
  PROVE  GateInv'
  <1> USE DEF apiVars, workloadVars, jobVars, cacheVars, queueVars, dbVars, boundVars
  <1>0. /\ TypeOK /\ TypeOK' /\ Justified(worker) /\ worker.snap \in ConfirmedCRs
        /\ worker.pc # "idle" => QueueKept
    BY ReconcilingType, OnlyStartDequeues DEF GateInv, Justified, Next, StartReconcile
  <1>1. CASE StartReconcile
    <2> DEFINE w == [Idle EXCEPT !.pc = IF legacy THEN "legacy" ELSE "migrate",
                                 !.snap = crCache, !.fresh = (crWatch = <<>>)]
    <2>1. Justified(w) /\ w.pc # "rollout"
      BY DEF Justified, Idle, GateInv
    <2>2. worker' = w
      BY <1>1 DEF StartReconcile
    <2> HIDE DEF w
    <2>3. QED
      BY <1>0, <1>1, <2>1, <2>2, QuietStep DEF StartReconcile, GateInv
  <1>2. CASE CleanUpLegacy
    <2> DEFINE w == [worker EXCEPT !.pc = "migrate"]
    <2>1. Justified(w)
      BY <1>0 DEF Justified, TypeOK, Worker
    <2>2. worker' = w
      BY <1>2 DEF CleanUpLegacy
    <2> HIDE DEF w
    <2>3. QED
      BY <1>0, <1>2, <2>1, <2>2, QuietStep DEF CleanUpLegacy, GateInv
  <1>3. CASE HandleForce
    <2> DEFINE w == [worker EXCEPT !.existing = jobCache,
                       !.pc = IF Exists(jobCache) THEN "forceDelete" ELSE "forcePatch"]
    <2>1. Justified(w)
      BY <1>0 DEF Justified, TypeOK, Worker
    <2>2. worker' = w
      BY <1>3 DEF HandleForce
    <2> HIDE DEF w
    <2>3. QED
      BY <1>0, <1>3, <2>1, <2>2, QuietStep DEF HandleForce, GateInv
  <1>4. CASE ForceDeleteJob
    <2> DEFINE w == [worker EXCEPT !.pc = "forcePatch", !.existing = NoJob]
    <2>1. worker' = w \/ worker' = Idle
      BY <1>4 DEF ForceDeleteJob, Reply, Fail
    <2>2. Justified(w) /\ QueueKept
      BY <1>0, <1>4 DEF Justified, TypeOK, Worker, ForceDeleteJob
    <2> HIDE DEF w
    <2>3. job' \in ConfirmedJobs /\ jobWatch' \in Seq(ConfirmedJobs)
      BY <1>4, DeleteLiveJobConfirmed DEF ForceDeleteJob
    <2>4. QED
      BY <1>0, <1>4, <2>1, <2>2, <2>3, IdleJustified, QuietStep DEF ForceDeleteJob, GateInv
  <1>5. CASE ClearForce
    <2> DEFINE c == [cr EXCEPT !.force = FALSE]
               w == [worker EXCEPT !.pc = "forceReset", !.snap = c, !.fresh = TRUE]
    <2>1. c \in ConfirmedCRs
      BY <1>0 DEF GateInv, ConfirmedCRs, TypeOK, CR
    <2>2. Justified(w)
      BY <2>1, <1>0 DEF Justified, TypeOK, Worker
    <2>3. PublishCR(c) /\ Reply(w)
      BY <1>5 DEF ClearForce
    <2> HIDE DEF c, w
    <2>4. cr' \in ConfirmedCRs /\ crWatch' \in Seq(ConfirmedCRs)
      BY <2>1, <2>3, AppendType DEF PublishCR, GateInv
    <2>5. worker' = w \/ worker' = Idle
      BY <2>3 DEF Reply, Fail
    <2>6. QED
      BY <1>0, <1>5, <2>2, <2>4, <2>5, IdleJustified, QuietStep DEF ClearForce, GateInv
  <1>6. CASE ResetRecorded
    <2> DEFINE c == [worker.snap EXCEPT !.recorded = None]
               w == [worker EXCEPT !.pc = "gate", !.state = "inProgress", !.snap = c]
    <2>1. c \in ConfirmedCRs
      BY <1>0 DEF ConfirmedCRs, TypeOK, CR
    <2>2. Justified(w)
      BY <2>1, <1>0 DEF Justified, TypeOK, Worker
    <2>3. UpdateStatus(c, w)
      BY <1>6 DEF ResetRecorded
    <2> HIDE DEF c, w
    <2>4. /\ cr' \in ConfirmedCRs /\ crWatch' \in Seq(ConfirmedCRs)
          /\ worker' = w \/ worker' = Idle
      BY <2>1, <2>3, UpdateStatusConfirmed
    <2>5. QED
      BY <1>0, <1>6, <2>2, <2>4, IdleJustified, QuietStep DEF ResetRecorded, GateInv
  <1>7. CASE ReadJob
    <2> DEFINE next == AfterReading(worker.snap, jobCache)
               w == [worker EXCEPT !.pc = next.pc, !.state = next.state,
                                   !.existing = IF next.pc = "gate" THEN NoJob ELSE jobCache]
    <2>1. /\ w.pc = next.pc /\ w.state = next.state /\ w.snap = worker.snap
      BY <1>0 DEF TypeOK, Worker
    <2>2. w.pc = "gate" /\ w.state = "complete" => w.snap.version \in migrated
      <3>1. SUFFICES ASSUME next.pc = "gate", next.state = "complete"
                     PROVE  worker.snap.version \in migrated
        BY <2>1
      <3>2. AlreadyMigrated(worker.snap)
        BY <3>1 DEF AfterReading
      <3>3. QED
        BY <3>2, <1>0, GateAssumption DEF AlreadyMigrated, ConfirmedCRs, CR
    <2>3. w.pc = "record" => w.snap.version \in migrated
      <3>1. SUFFICES ASSUME next.pc = "record"
                     PROVE  worker.snap.version \in migrated
        BY <2>1
      <3>2. jobCache.image = worker.snap.version /\ isJobSucceeded(jobCache)
        BY <3>1 DEF AfterReading
      <3>3. QED
        BY <3>2 DEF GateInv, ConfirmedJobs
    <2>4. w.pc # "rollout" /\ (w.pc \in {"create", "delete"} => w.state # "complete")
      BY <2>1 DEF AfterReading
    <2>5. Justified(w)
      BY <1>0, <2>1, <2>2, <2>3, <2>4 DEF Justified
    <2>6. worker' = w
      BY <1>7 DEF ReadJob
    <2> HIDE DEF w, next
    <2>7. QED
      BY <1>0, <1>7, <2>5, <2>6, QuietStep DEF ReadJob, GateInv
  <1>8. CASE CreateJob
    <2> DEFINE j == [uid |-> lastUid + 1, image |-> worker.snap.version,
                     status |-> "running", deleting |-> FALSE]
               w == [worker EXCEPT !.pc = "gate"]
    <2>1. CASE Exists(job) /\ Fail /\ UNCHANGED <<jobVars, faults>>
      <3>1. worker' = Idle
        BY <2>1 DEF Fail
      <3>2. QED
        BY <1>0, <1>8, <2>1, <3>1, IdleJustified, QuietStep DEF CreateJob, GateInv
    <2>2. CASE ~(Exists(job) /\ Fail /\ UNCHANGED <<jobVars, faults>>)
      <3>1. PublishJob(j) /\ Reply(w)
        BY <1>8, <2>2 DEF CreateJob
      <3>2. j \in Job
        BY <1>0 DEF TypeOK, Worker, CR, Job
      <3>3. j \in ConfirmedJobs
        BY <3>2 DEF ConfirmedJobs, isJobSucceeded
      <3>4. Justified(w)
        BY <1>0, <1>8 DEF CreateJob, Justified, TypeOK, Worker
      <3> HIDE DEF j, w
      <3>5. job' \in ConfirmedJobs /\ jobWatch' \in Seq(ConfirmedJobs)
        BY <3>1, <3>3, AppendType DEF PublishJob, GateInv
      <3>6. worker' = w \/ worker' = Idle
        BY <3>1 DEF Reply, Fail
      <3>7. QED
        BY <1>0, <1>8, <3>4, <3>5, <3>6, IdleJustified, QuietStep DEF CreateJob, GateInv
    <2>3. QED
      BY <2>1, <2>2
  <1>9. CASE DeleteStaleJob
    <2> DEFINE w == [worker EXCEPT !.pc = "gate", !.existing = NoJob]
    <2>1. worker' = w \/ worker' = Idle
      BY <1>9 DEF DeleteStaleJob, Reply, Fail
    <2>2. Justified(w)
      BY <1>0, <1>9 DEF DeleteStaleJob, Justified, TypeOK, Worker
    <2> HIDE DEF w
    <2>3. job' \in ConfirmedJobs /\ jobWatch' \in Seq(ConfirmedJobs)
      BY <1>9, DeleteLiveJobConfirmed DEF DeleteStaleJob
    <2>4. QED
      BY <1>0, <1>9, <2>1, <2>2, <2>3, IdleJustified, QuietStep DEF DeleteStaleJob, GateInv
  <1>10. CASE RecordSuccess
    <2> DEFINE c == [worker.snap EXCEPT !.recorded = worker.snap.version]
               w == [worker EXCEPT !.pc = "gate", !.snap = c, !.existing = NoJob]
    <2>1. worker.snap.version \in migrated
      BY <1>0, <1>10 DEF RecordSuccess, Justified
    <2>2. c \in ConfirmedCRs
      BY <1>0, <2>1 DEF ConfirmedCRs, TypeOK, Worker, CR
    <2>3. w.snap = c /\ w.pc = "gate" /\ c.version = worker.snap.version
      BY <1>0 DEF TypeOK, Worker, CR
    <2>4. Justified(w)
      BY <2>1, <2>2, <2>3 DEF Justified
    <2>5. UpdateStatus(c, w)
      BY <1>10 DEF RecordSuccess
    <2> HIDE DEF c, w
    <2>6. /\ cr' \in ConfirmedCRs /\ crWatch' \in Seq(ConfirmedCRs)
          /\ worker' = w \/ worker' = Idle
      BY <2>2, <2>5, UpdateStatusConfirmed
    <2>7. QED
      BY <1>0, <1>10, <2>4, <2>6, IdleJustified, QuietStep DEF RecordSuccess, GateInv
  <1>11. CASE PassGate
    <2> DEFINE w == [worker EXCEPT !.pc = "rollout", !.step = 1]
    <2>1. w.snap = worker.snap /\ w.pc = "rollout" /\ w.step = 1
      BY <1>0 DEF TypeOK, Worker
    <2>2. worker.snap.version \in migrated \cup waived
      BY <1>0, <1>11 DEF PassGate, GateOpen, Justified, ConfirmedCRs
    <2>3. Justified(w)
      BY <1>0, <2>1, <2>2 DEF Justified, Reached
    <2>4. worker' = w
      BY <1>11 DEF PassGate
    <2> HIDE DEF w
    <2>5. QED
      BY <1>0, <1>11, <2>3, <2>4, QuietStep DEF PassGate, GateInv
  <1>12. CASE HaltInProgress
    <2>1. worker' = Idle
      BY <1>12 DEF HaltInProgress
    <2>2. QED
      BY <1>0, <1>12, <2>1, IdleJustified, QuietStep DEF HaltInProgress, GateInv
  <1>13. CASE HaltFailed
    <2> DEFINE w == [worker EXCEPT !.pc = "failStatus"]
    <2>1. Justified(w)
      BY <1>0 DEF Justified, TypeOK, Worker
    <2>2. worker' = w
      BY <1>13 DEF HaltFailed
    <2> HIDE DEF w
    <2>3. QED
      BY <1>0, <1>13, <2>1, <2>2, QuietStep DEF HaltFailed, GateInv
  <1>14. CASE ReportFailure
    <2> DEFINE c == [worker.snap EXCEPT !.reason = "MigrationFailed",
                                        !.observed = worker.snap.gen]
    <2>1. c \in ConfirmedCRs
      BY <1>0 DEF ConfirmedCRs, TypeOK, Worker, CR, Reasons
    <2>2. UpdateStatus(c, Idle)
      BY <1>14 DEF ReportFailure
    <2> HIDE DEF c
    <2>3. /\ cr' \in ConfirmedCRs /\ crWatch' \in Seq(ConfirmedCRs)
          /\ worker' = Idle
      BY <2>1, <2>2, UpdateStatusConfirmed
    <2>4. QED
      BY <1>0, <1>14, <2>3, IdleJustified, QuietStep DEF ReportFailure, GateInv
  <1>15. CASE UpdateWorkload
    BY <1>0, <1>15, RolloutGate
  <1>16. CASE FinishReconcile
    <2> DEFINE c == [worker.snap EXCEPT !.reason = ReconciledReason(worker.state, worker.snap),
                                        !.observed = worker.snap.gen]
    <2>1. c \in ConfirmedCRs
      BY <1>0 DEF ConfirmedCRs, TypeOK, Worker, CR, Reasons, ReconciledReason
    <2>2. UpdateStatus(c, Idle)
      BY <1>16 DEF FinishReconcile
    <2> HIDE DEF c
    <2>3. /\ cr' \in ConfirmedCRs /\ crWatch' \in Seq(ConfirmedCRs)
          /\ worker' = Idle
      BY <2>1, <2>2, UpdateStatusConfirmed
    <2>4. QED
      BY <1>0, <1>16, <2>3, IdleJustified, QuietStep DEF FinishReconcile, GateInv
  <1>17. QED
    BY <1>1, <1>2, <1>3, <1>4, <1>5, <1>6, <1>7, <1>8, <1>9, <1>10, <1>11, <1>12, <1>13,
       <1>14, <1>15, <1>16 DEF Reconciling

\* The history only grows, and what was confirmed stays confirmed.
LEMMA ConfirmedGrows ==
  ASSUME migrated \subseteq migrated', waived \subseteq waived'
  PROVE  /\ ConfirmedCRs \subseteq ConfirmedCRs'
         /\ ConfirmedJobs \subseteq ConfirmedJobs'
  BY DEF ConfirmedCRs, ConfirmedJobs, isJobSucceeded

\* A step of the environment that adds to the history keeps the invariant when
\* the objects it publishes are confirmed afterwards.
LEMMA GrowingStep ==
  ASSUME GateInv, TypeOK', migrated \subseteq migrated', waived \subseteq waived',
         UNCHANGED <<workloadVars, queued, crCache, jobCache>>,
         cr' \in ConfirmedCRs', crWatch' \in Seq(ConfirmedCRs'),
         job' \in ConfirmedJobs', jobWatch' \in Seq(ConfirmedJobs'),
         NEW f \in BOOLEAN, worker' = [worker EXCEPT !.fresh = f] \/ worker' = worker
  PROVE  GateInv'
  <1>1. ConfirmedCRs \subseteq ConfirmedCRs' /\ ConfirmedJobs \subseteq ConfirmedJobs'
    BY ConfirmedGrows
  <1>2. /\ worker'.pc = worker.pc /\ worker'.snap = worker.snap
        /\ worker'.state = worker.state /\ worker'.step = worker.step
    BY DEF GateInv, TypeOK, Worker
  <1> USE DEF workloadVars
  <1>3. Justified(worker)'
    <2>1. worker'.snap \in ConfirmedCRs'
      BY <1>1, <1>2 DEF GateInv, Justified
    <2>2. worker'.pc = "rollout" =>
            /\ worker'.snap.version \in migrated' \cup waived'
            /\ Reached(worker.step, worker.snap.version)'
      BY <1>2 DEF GateInv, Justified, Reached
    <2>3. QED
      BY <2>1, <2>2, <1>2 DEF GateInv, Justified
  <1>4. GateSafety' /\ Synced'
    BY DEF GateInv, GateSafety, Synced
  <1>5. crCache' \in ConfirmedCRs' /\ jobCache' \in ConfirmedJobs'
    BY <1>1 DEF GateInv
  <1>6. QED
    BY <1>3, <1>4, <1>5 DEF GateInv

\* An edit keeps the invariant: the user touches neither the recorded image nor
\* anything a Job reports, and what they ask for with the bypass set is waived.
LEMMA EditGate ==
  ASSUME GateInv, NEW c \in CR, c.recorded = cr.recorded, Edit(c)
  PROVE  GateInv'
  <1> USE DEF workloadVars, jobVars, cacheVars, queueVars, dbVars
  <1>1. migrated \subseteq migrated' /\ waived \subseteq waived'
    BY DEF Edit
  <1>2. ConfirmedCRs \subseteq ConfirmedCRs' /\ ConfirmedJobs \subseteq ConfirmedJobs'
    BY <1>1, ConfirmedGrows
  <1>3. c \in ConfirmedCRs'
    BY <1>1 DEF Edit, GateInv, ConfirmedCRs
  <1>4. crWatch \in Seq(ConfirmedCRs') /\ jobWatch \in Seq(ConfirmedJobs')
    BY <1>2, SeqMonotone DEF GateInv
  <1>5. cr' \in ConfirmedCRs' /\ crWatch' \in Seq(ConfirmedCRs')
    BY <1>3, <1>4, AppendType DEF Edit, PublishCR
  <1>6. job' \in ConfirmedJobs' /\ jobWatch' \in Seq(ConfirmedJobs')
    BY <1>2, <1>4 DEF Edit, GateInv
  <1>7. TypeOK'
    BY EditType DEF GateInv
  <1>8. /\ UNCHANGED <<workloadVars, queued, crCache, jobCache>>
        /\ worker' = [worker EXCEPT !.fresh = FALSE]
    BY DEF Edit
  <1>9. QED
    BY <1>1, <1>5, <1>6, <1>7, <1>8, GrowingStep

\* A step of the environment keeps the gate's invariant.
LEMMA EnvironmentGate ==
  ASSUME GateInv, Environment
  PROVE  GateInv'
  <1> USE DEF apiVars, workloadVars, jobVars, cacheVars, queueVars, dbVars, boundVars
  <1>0. TypeOK /\ TypeOK' /\ Justified(worker) /\ QueueKept
    <2>1. ~StartReconcile \/ QueueKept
      BY DEF Environment, StartReconcile, QueueKept, DeliverCR, DeliverJob, TimerFires, OwnedEvent,
             DeliverWorkload, PodsChange, JobSucceeds, JobFails, JobGone, JobExpires, SetVersion,
             RequestForce, ToggleSkip, Edit, CallFails, Crash, Fail
    <2>2. QED
      BY <2>1, EnvironmentType, OnlyStartDequeues DEF GateInv, Next
  <1>1. CASE DeliverCR
    <2>1. crCache' \in ConfirmedCRs /\ crWatch' \in Seq(ConfirmedCRs)
      BY <1>1, DeliverType DEF DeliverCR, GateInv
    <2>2. QED
      BY <1>0, <1>1, <2>1, QuietStep DEF DeliverCR, GateInv
  <1>2. CASE DeliverJob
    <2>1. jobCache' \in ConfirmedJobs /\ jobWatch' \in Seq(ConfirmedJobs)
      BY <1>2, DeliverType DEF DeliverJob, GateInv
    <2>2. QED
      BY <1>0, <1>2, <2>1, QuietStep DEF DeliverJob, GateInv
  <1>3. CASE TimerFires
    BY <1>0, <1>3, QuietStep DEF TimerFires, GateInv
  <1>4. CASE OwnedEvent \/ \E w \in Workloads : DeliverWorkload(w) \/ PodsChange(w)
    <2>1. CASE OwnedEvent
      BY <1>0, <2>1, QuietStep DEF OwnedEvent, GateInv
    <2>2. ASSUME NEW w \in Workloads, DeliverWorkload(w)
          PROVE  GateInv'
      <3>1. Synced'
        BY <1>0, <2>2 DEF DeliverWorkload, GateInv, Synced, TypeOK
      <3>2. QED
        BY <1>0, <2>2, <3>1, HandsOutNothing DEF DeliverWorkload, GateInv
    <2>3. ASSUME NEW w \in Workloads, PodsChange(w)
          PROVE  GateInv'
      <3>1. Synced' /\ unseen \subseteq unseen'
        BY <2>3 DEF PodsChange, GateInv, Synced
      <3>2. QED
        BY <1>0, <2>3, <3>1, HandsOutNothing DEF PodsChange, GateInv
    <2>4. QED
      BY <1>4, <2>1, <2>2, <2>3
  <1>5. CASE JobSucceeds
    <2>1. migrated \subseteq migrated' /\ waived \subseteq waived'
      BY <1>5 DEF JobSucceeds
    <2>2. ConfirmedCRs \subseteq ConfirmedCRs' /\ ConfirmedJobs \subseteq ConfirmedJobs'
      BY <2>1, ConfirmedGrows
    <2>3. jobWatch \in Seq(ConfirmedJobs') /\ crWatch \in Seq(ConfirmedCRs')
      BY <2>2, SeqMonotone DEF GateInv
    <2>4. job' \in ConfirmedJobs' /\ jobWatch' \in Seq(ConfirmedJobs')
      <3>1. CASE job.deleting /\ UNCHANGED <<migrated, job, jobWatch>>
        BY <3>1, <2>2, <2>3 DEF GateInv
      <3>2. CASE /\ migrated' = migrated \cup {job.image}
                 /\ PublishJob([job EXCEPT !.status = "succeeded"])
        <4>1. Exists(job) /\ job \in Job
          BY <1>0, <1>5 DEF JobSucceeds, Exists, TypeOK
        <4> DEFINE s == [job EXCEPT !.status = "succeeded"]
        <4>2. s \in Job /\ s.image = job.image
          BY <4>1, ExistingJob DEF Job, NoJob
        <4>3. job.image \in migrated' /\ PublishJob(s)
          BY <3>2
        <4> HIDE DEF s
        <4>4. s \in ConfirmedJobs'
          BY <4>2, <4>3 DEF ConfirmedJobs
        <4>5. QED
          BY <4>3, <4>4, <2>3, AppendType DEF PublishJob
      <3>3. QED
        BY <1>5, <3>1, <3>2 DEF JobSucceeds
    <2>5. cr' \in ConfirmedCRs' /\ crWatch' \in Seq(ConfirmedCRs')
      BY <1>5, <2>2, <2>3 DEF JobSucceeds, GateInv
    <2>6. UNCHANGED <<workloadVars, queued, crCache, jobCache>> /\ worker' = worker
      BY <1>5 DEF JobSucceeds
    <2>7. QED
      BY <1>0, <2>1, <2>4, <2>5, <2>6, GrowingStep
  <1>6. CASE JobFails
    <2>1. Exists(job) /\ job \in Job
      BY <1>0, <1>6 DEF JobFails, Exists, TypeOK
    <2>2. /\ [job EXCEPT !.status = "failed"] \in Job
          /\ [job EXCEPT !.status = "failed"].status = "failed"
      BY <2>1, ExistingJob DEF Job, NoJob
    <2>3. [job EXCEPT !.status = "failed"] \in ConfirmedJobs
      BY <2>2 DEF ConfirmedJobs, isJobSucceeded
    <2>4. job' \in ConfirmedJobs /\ jobWatch' \in Seq(ConfirmedJobs)
      BY <1>6, <2>3, AppendType DEF JobFails, PublishJob, GateInv
    <2>5. QED
      BY <1>0, <1>6, <2>4, QuietStep DEF JobFails, GateInv
  <1>7. CASE JobGone \/ JobExpires
    <2>1. job' \in ConfirmedJobs /\ jobWatch' \in Seq(ConfirmedJobs)
      BY <1>7, IdleJustified, AppendType DEF JobGone, JobExpires, PublishJob, GateInv
    <2>2. QED
      BY <1>0, <1>7, <2>1, QuietStep DEF JobGone, JobExpires, GateInv
  <1>8. CASE SetVersion
    <2>1. PICK v \in Versions \ {cr.version} :
                 Edit([cr EXCEPT !.version = v, !.gen = @ + 1])
      BY <1>8 DEF SetVersion
    <2>2. cr \in CR /\ v \in Versions /\ cr.gen + 1 \in Nat
      BY <1>0 DEF TypeOK, CR
    <2>3. /\ [cr EXCEPT !.version = v, !.gen = @ + 1] \in CR
          /\ [cr EXCEPT !.version = v, !.gen = @ + 1].recorded = cr.recorded
      BY <2>2 DEF CR
    <2>4. QED
      BY <2>1, <2>3, EditGate
  <1>9. CASE RequestForce
    <2>1. /\ [cr EXCEPT !.force = TRUE] \in CR
          /\ [cr EXCEPT !.force = TRUE].recorded = cr.recorded
      BY <1>0 DEF TypeOK, CR
    <2>2. QED
      BY <1>9, <2>1, EditGate DEF RequestForce
  <1>10. CASE ToggleSkip
    <2>1. /\ [cr EXCEPT !.skip = ~@] \in CR
          /\ [cr EXCEPT !.skip = ~@].recorded = cr.recorded
      BY <1>0 DEF TypeOK, CR
    <2>2. QED
      BY <1>10, <2>1, EditGate DEF ToggleSkip
  <1>11. CASE CallFails
    BY <1>0, <1>11, IdleJustified, QuietStep DEF CallFails, Fail, GateInv
  <1>12. CASE Crash
    <2>1. crWatch' \in Seq(ConfirmedCRs) /\ jobWatch' \in Seq(ConfirmedJobs)
      BY <1>12 DEF Crash
    <2>2. Synced' /\ worker' = Idle
      BY <1>12 DEF Crash, Fail, Synced
    <2>3. Idle.pc # "rollout"
      BY DEF Idle
    <2>4. QED
      BY <1>0, <1>12, <2>1, <2>2, <2>3, IdleJustified, HandsOutNothing DEF Crash, GateInv
  <1>13. QED
    BY <1>1, <1>2, <1>3, <1>4, <1>5, <1>6, <1>7, <1>8, <1>9, <1>10, <1>11, <1>12
    DEF Environment

\* GateInv is inductive and holds of every state the specification reaches.
THEOREM GateInvariant == Spec => []GateInv
  <1>1. ASSUME Init PROVE GateInv
    <2>1. crWatch \in Seq(ConfirmedCRs) /\ jobWatch \in Seq(ConfirmedJobs)
      BY <1>1 DEF Init
    <2>2. TypeOK
      BY <1>1, InitType
    <2>3. GateSafety /\ Synced
      BY <1>1 DEF Init, GateSafety, Synced
    <2>4. QED
      BY <1>1, <2>1, <2>2, <2>3, IdleJustified DEF Init, GateInv
  <1>2. GateInv /\ [Next]_vars => GateInv'
    <2> SUFFICES ASSUME GateInv, [Next]_vars PROVE GateInv'
      OBVIOUS
    <2>1. CASE Reconciling
      BY <2>1, ReconcilingGate
    <2>2. CASE Environment
      BY <2>2, EnvironmentGate
    <2>3. CASE UNCHANGED vars
      <3>1. TypeOK'
        BY <2>3 DEF vars, GateInv, TypeOK
      <3>2. UNCHANGED workloadVars /\ QueueKept
        BY <2>3 DEF vars, workloadVars, QueueKept
      <3>3. QED
        BY <2>3, <3>1, <3>2, QuietStep DEF vars, GateInv
    <2>4. QED
      BY <2>1, <2>2, <2>3 DEF Next
  <1>3. QED
    BY <1>1, <1>2, PTL DEF Spec

\* The gate: no workload ever runs an image that was neither migrated nor waived.
THEOREM GateIsSafe == Spec => []GateSafety
  <1>1. GateInv => GateSafety
    BY DEF GateInv
  <1>2. QED
    BY <1>1, GateInvariant, PTL

\* The recorded image is always one for which a migrate Job has succeeded.
THEOREM RecordIsConfirmed == Spec => []RecordedConfirmed
  <1>1. GateInv => RecordedConfirmed
    BY DEF GateInv, RecordedConfirmed, ConfirmedCRs
  <1>2. QED
    BY <1>1, GateInvariant, PTL

-----------------------------------------------------------------------------
(* Refinement                                                              *)

\* A step that does no more than queue the key owes another round, or nothing.
LEMMA Owes ==
  ASSUME UNCHANGED <<migrated, waived, deployed, unseen>>, queued' \in {queued, TRUE}
  PROVE  Contract!Next \/ UNCHANGED Contract!contractVars
  <1>1. CASE queued' = queued
    BY <1>1 DEF Contract!contractVars
  <1>2. CASE queued' = TRUE
    <2>1. Contract!Notice({})
      BY <1>2 DEF Contract!Notice
    <2>2. QED
      BY <2>1 DEF Contract!Next
  <1>3. QED
    BY <1>1, <1>2

\* Every step of the operator and its environment is a step of the contract, or
\* leaves the contract's variables alone.
LEMMA StepRefines ==
  ASSUME GateInv, Next
  PROVE  Contract!Next \/ UNCHANGED Contract!contractVars
  <1> USE DEF apiVars, workloadVars, jobVars, cacheVars, queueVars, dbVars, boundVars,
              Contract!contractVars
  <1>0. queued \in BOOLEAN /\ queued' \in BOOLEAN
    BY ReconcilingType, EnvironmentType DEF GateInv, TypeOK, Next
  <1>1. CASE UpdateWorkload
    <2>1. /\ worker.step \in DOMAIN Order
          /\ worker.snap.version \in Versions
      BY DEF GateInv, TypeOK, Worker, CR
    <2>2. UNCHANGED <<migrated, waived>> /\ QueueKept
      BY <1>1, OnlyStartDequeues DEF UpdateWorkload, StartReconcile, Next, Reconciling
    <2>3. queued' \in {queued, TRUE}
      BY <1>0, <2>2 DEF QueueKept
    <2>4. CASE UNCHANGED <<deployed, unseen>>
      BY <2>2, <2>3, <2>4, Owes
    <2>5. CASE ~UNCHANGED <<deployed, unseen>>
      <3>1. Contract!Deploy(worker.step, worker.snap.version)
        BY <1>1, <2>2, <2>3, <2>5, RolloutReaches
        DEF GateInv, Justified, Reached, UpdateWorkload, Contract!Deploy, Contract!Reached
      <3>2. QED
        BY <2>1, <3>1 DEF Contract!Next
    <2>6. QED
      BY <2>4, <2>5
  <1>2. CASE JobSucceeds
    <2>1. CASE migrated' = migrated \cup {job.image}
      <3>1. job.image \in Versions
        BY <1>2, ExistingJob DEF JobSucceeds, Exists, GateInv, TypeOK
      <3>2. Contract!Migrate(job.image)
        BY <1>2, <2>1 DEF JobSucceeds, Contract!Migrate
      <3>3. QED
        BY <3>1, <3>2 DEF Contract!Next
    <2>2. CASE UNCHANGED migrated
      BY <1>2, <2>2 DEF JobSucceeds
    <2>3. QED
      BY <1>2, <2>1, <2>2 DEF JobSucceeds
  <1>3. ASSUME NEW c \in CR, Edit(c)
        PROVE  Contract!Next \/ UNCHANGED Contract!contractVars
    <2>1. CASE c.skip
      <3>1. Contract!Waive(c.version) /\ c.version \in Versions
        BY <1>3, <2>1 DEF Edit, Contract!Waive, CR
      <3>2. QED
        BY <3>1 DEF Contract!Next
    <2>2. CASE ~c.skip
      BY <1>3, <2>2 DEF Edit
    <2>3. QED
      BY <2>1, <2>2
  <1>4. CASE SetVersion
    <2>1. PICK v \in Versions \ {cr.version} :
                 Edit([cr EXCEPT !.version = v, !.gen = @ + 1])
      BY <1>4 DEF SetVersion
    <2>2. cr \in CR /\ v \in Versions /\ cr.gen + 1 \in Nat
      BY DEF GateInv, TypeOK, CR
    <2>3. [cr EXCEPT !.version = v, !.gen = @ + 1] \in CR
      BY <2>2 DEF CR
    <2>4. QED
      BY <2>1, <2>3, <1>3
  <1>5. CASE RequestForce \/ ToggleSkip
    <2>1. [cr EXCEPT !.force = TRUE] \in CR /\ [cr EXCEPT !.skip = ~@] \in CR
      BY DEF GateInv, TypeOK, CR
    <2>2. QED
      BY <1>5, <2>1, <1>3 DEF RequestForce, ToggleSkip
  <1>6. CASE StartReconcile
    <2>1. Contract!Begin
      BY <1>0, <1>6 DEF StartReconcile, Contract!Begin
    <2>2. QED
      BY <2>1 DEF Contract!Next
  <1>7. CASE CleanUpLegacy \/ HandleForce \/ ReadJob \/ PassGate \/ HaltInProgress \/ HaltFailed
             \/ JobFails \/ JobGone \/ JobExpires
    BY <1>7 DEF CleanUpLegacy, HandleForce, ReadJob, PassGate, HaltInProgress, HaltFailed,
                JobFails, JobGone, JobExpires
  <1>8. CASE ForceDeleteJob \/ ClearForce \/ ResetRecorded \/ CreateJob \/ DeleteStaleJob
             \/ RecordSuccess \/ ReportFailure \/ FinishReconcile
    <2>1. UNCHANGED <<migrated, waived, deployed, unseen>>
      BY <1>8 DEF ForceDeleteJob, ClearForce, ResetRecorded, CreateJob, DeleteStaleJob,
                  RecordSuccess, ReportFailure, FinishReconcile
    <2>2. queued' \in {queued, TRUE}
      BY <1>8 DEF ForceDeleteJob, ClearForce, ResetRecorded, CreateJob, DeleteStaleJob,
                  RecordSuccess, ReportFailure, FinishReconcile, UpdateStatus, Reply, Fail
    <2>3. QED
      BY <2>1, <2>2, Owes
  <1>9. CASE DeliverCR \/ DeliverJob \/ TimerFires \/ OwnedEvent \/ CallFails
    <2>1. UNCHANGED <<migrated, waived, deployed, unseen>> /\ queued' = TRUE
      BY <1>9 DEF DeliverCR, DeliverJob, TimerFires, OwnedEvent, CallFails, Fail
    <2>2. QED
      BY <2>1, Owes
  <1>10. CASE \E w \in Workloads : DeliverWorkload(w) \/ PodsChange(w)
    <2>1. ASSUME NEW w \in Workloads, DeliverWorkload(w)
          PROVE  Contract!Next
      <3>1. Contract!Notice({w})
        BY <2>1 DEF DeliverWorkload, Contract!Notice
      <3>2. QED
        BY <3>1 DEF Contract!Next
    <2>2. ASSUME NEW w \in Workloads, PodsChange(w)
          PROVE  Contract!Next
      <3>1. Contract!Change(w)
        BY <2>2 DEF PodsChange, Contract!Change
      <3>2. QED
        BY <3>1 DEF Contract!Next
    <2>3. QED
      BY <1>10, <2>1, <2>2
  <1>11. CASE Crash
    <2>1. Contract!Notice(Workloads)
      BY <1>11 DEF Crash, Fail, GateInv, TypeOK, Contract!Notice
    <2>2. QED
      BY <2>1 DEF Contract!Next
  <1>12. QED
    BY <1>1, <1>2, <1>4, <1>5, <1>6, <1>7, <1>8, <1>9, <1>10, <1>11
    DEF Next, Reconciling, Environment

\* The gate implements the migration contract.
THEOREM GateImplementsContract == Spec => ImplementsContract
  <1>1. Init => Contract!Init
    BY DEF Init, Contract!Init
  <1>2. GateInv /\ [Next]_vars => [Contract!Next]_(Contract!contractVars)
    <2> SUFFICES ASSUME GateInv, [Next]_vars
                 PROVE  [Contract!Next]_(Contract!contractVars)
      OBVIOUS
    <2>1. CASE Next
      BY <2>1, StepRefines
    <2>2. CASE UNCHANGED vars
      BY <2>2 DEF vars, Contract!contractVars
    <2>3. QED
      BY <2>1, <2>2
  <1>3. QED
    BY <1>1, <1>2, GateInvariant, PTL DEF Spec, ImplementsContract, Contract!Spec
=============================================================================
