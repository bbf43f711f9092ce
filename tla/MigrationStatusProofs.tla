------------------------ MODULE MigrationStatusProofs ------------------------
(***************************************************************************)
(* Proofs about what the migration gate deletes, what it reports, and when *)
(* it comes to rest, for every set of images, every list of workloads and  *)
(* every bound.                                                            *)
(***************************************************************************)
EXTENDS MigrationGateProofs, SequenceTheorems

-----------------------------------------------------------------------------
(* The Job and its watch                                                   *)

\* There is one Job at a time, and every copy of a Job is of the youngest.
OneJob ==
  /\ Exists(job) => job.uid = lastUid
  /\ Exists(jobCache) => jobCache.uid = lastUid
  /\ \A i \in 1..Len(jobWatch) : Exists(jobWatch[i]) => jobWatch[i].uid = lastUid

\* The watch ends with the live Job, and with nothing else after it is gone.
JobStream ==
  /\ IF jobWatch = <<>> THEN jobCache = job ELSE jobWatch[Len(jobWatch)] = job
  /\ \A i \in 1..(Len(jobWatch) - 1) : Exists(jobWatch[i])

\* A Job the cache has not been told of yet is not being deleted.
Untold ==
  ~Exists(jobCache) /\ jobWatch # <<>> =>
    /\ Exists(job) /\ ~job.deleting
    /\ worker.pc \notin {"forceDelete", "delete"}

\* A reconcile about to create a Job has seen that there is none; if there is one
\* it is one created by an attempt whose answer was lost.
Creating ==
  worker.pc = "create" =>
    \/ ~Exists(job) /\ ~Exists(jobCache) /\ jobWatch = <<>>
    \/ Exists(job) /\ ~job.deleting

\* A reconcile about to delete a Job has seen the youngest.
Deleting ==
  worker.pc \in {"forceDelete", "delete"} =>
    Exists(worker.existing) /\ worker.existing.uid = lastUid

JobInv == OneJob /\ JobStream /\ Untold /\ Creating /\ Deleting

LEMMA IdleFields == Idle.pc = "idle" /\ Idle.fresh = FALSE
BY DEF Idle

\* The fields of a Job that is deleted or finishes.
LEMMA JobUpdates ==
  ASSUME NEW j \in Job, Exists(j)
  PROVE  LET d == [j EXCEPT !.deleting = TRUE]
             s == [j EXCEPT !.status = "succeeded"]
             f == [j EXCEPT !.status = "failed"]
         IN  /\ d \in Job /\ Exists(d) /\ d.uid = j.uid
             /\ s \in Job /\ Exists(s) /\ s.uid = j.uid /\ s.deleting = j.deleting
             /\ f \in Job /\ Exists(f) /\ f.uid = j.uid /\ f.deleting = j.deleting
<1> DEFINE Real == [uid : Nat, image : Versions,
                    status : {"running", "succeeded", "failed"}, deleting : BOOLEAN]
<1>1. j \in Real
  BY DEF Job, Exists, NoJob
<1>2. LET d == [j EXCEPT !.deleting = TRUE]
          s == [j EXCEPT !.status = "succeeded"]
          f == [j EXCEPT !.status = "failed"]
      IN  /\ d \in Real /\ d.uid = j.uid /\ d.status = j.status
          /\ s \in Real /\ s.uid = j.uid /\ s.deleting = j.deleting /\ s.status = "succeeded"
          /\ f \in Real /\ f.uid = j.uid /\ f.deleting = j.deleting /\ f.status = "failed"
  BY <1>1
<1> QED
  BY <1>2 DEF Job, Exists

\* A write of the Job keeps the stream in order, if there was a Job to write or
\* the cache knows that there was none.
LEMMA PublishJobStream ==
  ASSUME TypeOK, OneJob, JobStream, NEW j \in Job, PublishJob(j), jobCache' = jobCache,
         Exists(j) => j.uid = lastUid',
         \/ lastUid' = lastUid /\ (Exists(job) \/ j = job)
         \/ ~Exists(jobCache) /\ jobWatch = <<>>
  PROVE  /\ OneJob' /\ JobStream'
         /\ job' = j
         /\ IF j = job THEN jobWatch' = jobWatch ELSE jobWatch' # <<>>
<1>1. jobWatch \in Seq(Job) /\ Len(jobWatch) \in Nat
  BY LenProperties DEF TypeOK
<1>2. CASE j = job
  BY <1>2 DEF PublishJob, OneJob, JobStream
<1>3. CASE j # job
  <2>1. /\ job' = j /\ jobWatch' = Append(jobWatch, j)
        /\ jobWatch' # <<>> /\ Len(jobWatch') = Len(jobWatch) + 1
        /\ \A i \in 1..Len(jobWatch) : jobWatch'[i] = jobWatch[i]
        /\ jobWatch'[Len(jobWatch) + 1] = j
    BY <1>1, <1>3, AppendProperties DEF PublishJob
  <2>2. CASE lastUid' = lastUid /\ Exists(job)
    <3>1. OneJob'
      BY <1>1, <2>1, <2>2 DEF OneJob
    <3>2. \A i \in 1..Len(jobWatch) : Exists(jobWatch[i])
      <4>1. jobWatch # <<>> => Exists(jobWatch[Len(jobWatch)])
        BY <2>2 DEF JobStream
      <4>2. ASSUME NEW i \in 1..Len(jobWatch) PROVE Exists(jobWatch[i])
        <5>1. jobWatch # <<>> /\ (i = Len(jobWatch) \/ i \in 1..(Len(jobWatch) - 1))
          BY <1>1, <4>2
        <5> QED
          BY <4>1, <5>1 DEF JobStream
      <4> QED
        BY <4>2
    <3>3. JobStream'
      BY <1>1, <2>1, <3>2 DEF JobStream
    <3> QED
      BY <1>3, <2>1, <3>1, <3>3
  <2>3. CASE ~Exists(jobCache) /\ jobWatch = <<>>
    <3>1. Len(jobWatch) = 0
      BY <2>3
    <3>2. OneJob' /\ JobStream'
      BY <2>1, <2>3, <3>1 DEF OneJob, JobStream
    <3> QED
      BY <1>3, <2>1, <3>2
  <2> QED
    BY <1>3, <2>2, <2>3
<1> QED
  BY <1>2, <1>3

\* A step that leaves the Job alone and neither creates nor deletes next.
LEMMA JobQuiet ==
  ASSUME JobInv, UNCHANGED <<jobVars, jobCache>>,
         \/ worker'.pc \notin {"forceDelete", "delete", "create"}
         \/ worker'.pc = worker.pc /\ worker'.existing = worker.existing
  PROVE  JobInv'
BY DEF JobInv, OneJob, JobStream, Untold, Creating, Deleting, jobVars

\* A deletion by name hits the Job the reconcile has seen, or none.
LEMMA JobDeleted ==
  ASSUME TypeOK, JobInv, worker.pc \in {"forceDelete", "delete"}, DeleteLiveJob,
         UNCHANGED <<jobCache, lastUid>>, worker'.pc \notin {"forceDelete", "delete", "create"}
  PROVE  JobInv'
<1>1. ~Exists(jobCache) => jobWatch = <<>> /\ ~Exists(job)
  BY DEF JobInv, Untold, JobStream
<1>2. CASE Exists(job)
  <2> DEFINE j == [job EXCEPT !.deleting = TRUE]
  <2>1. j \in Job /\ Exists(j) /\ j.uid = lastUid
    BY <1>2, JobUpdates DEF TypeOK, JobInv, OneJob
  <2>2. PublishJob(j)
    BY <1>2 DEF DeleteLiveJob
  <2> HIDE DEF j
  <2>3. OneJob' /\ JobStream'
    BY <1>2, <2>1, <2>2, PublishJobStream DEF JobInv
  <2> QED
    BY <1>1, <1>2, <2>3 DEF JobInv, Untold, Creating, Deleting
<1>3. CASE ~Exists(job)
  <2>1. job' = job /\ jobWatch' = jobWatch
    BY <1>3 DEF DeleteLiveJob, PublishJob
  <2> QED
    BY <2>1, JobQuiet DEF jobVars
<1> QED
  BY <1>2, <1>3

\* Any other end, finish or deletion of a Job there was.
LEMMA JobChanged ==
  ASSUME TypeOK, JobInv, Exists(job), NEW j \in Job, j # job, PublishJob(j),
         UNCHANGED <<jobCache, lastUid, worker>>,
         \/ Exists(j) /\ j.uid = job.uid /\ j.deleting = job.deleting
         \/ ~Exists(j) /\ (job.deleting \/ (worker.pc = "idle" /\ jobWatch = <<>>))
  PROVE  JobInv'
<1>1. OneJob' /\ JobStream' /\ job' = j /\ jobWatch' # <<>>
  BY PublishJobStream DEF JobInv, OneJob
<1>2. ~Exists(jobCache) => jobWatch # <<>> /\ ~job.deleting /\ worker.pc \notin {"forceDelete", "delete"}
  BY DEF JobInv, JobStream, Untold
<1>3. Untold'
  BY <1>1, <1>2 DEF Untold
<1>4. Creating' /\ Deleting'
  BY <1>1 DEF JobInv, Creating, Deleting
<1> QED
  BY <1>1, <1>3, <1>4 DEF JobInv

LEMMA ReconcilingJob == ASSUME TypeOK, JobInv, Reconciling PROVE JobInv'
<1> USE DEF cacheVars, jobVars
<1>0. worker \in Worker
  BY DEF TypeOK
<1>1. CASE StartReconcile \/ CleanUpLegacy \/ PassGate \/ HaltInProgress \/ HaltFailed
  <2>1. CASE StartReconcile
    <3>1. worker'.pc \in {"legacy", "migrate"}
      BY <2>1, IdleType DEF StartReconcile, Worker
    <3> QED
      BY <2>1, <3>1, JobQuiet DEF StartReconcile
  <2>2. CASE CleanUpLegacy \/ PassGate \/ HaltFailed
    <3>1. worker'.pc \notin {"forceDelete", "delete", "create"}
      BY <1>0, <2>2 DEF CleanUpLegacy, PassGate, HaltFailed, Worker
    <3> QED
      BY <2>2, <3>1, JobQuiet DEF CleanUpLegacy, PassGate, HaltFailed
  <2>3. CASE HaltInProgress
    BY <2>3, JobQuiet DEF HaltInProgress, Idle
  <2> QED
    BY <1>1, <2>1, <2>2, <2>3
<1>2. CASE \/ ClearForce \/ UpdateWorkload \/ ResetRecorded \/ RecordSuccess
           \/ ReportFailure \/ FinishReconcile
  <2>1. UNCHANGED <<jobVars, jobCache>>
    BY <1>2 DEF ClearForce, UpdateWorkload, ResetRecorded, RecordSuccess, ReportFailure, FinishReconcile
  <2>2. worker'.pc \in {"forceReset", "gate", "rollout", "finish", "idle"}
    <3>1. CASE ClearForce
      <4>1. PICK c : \/ worker' = [worker EXCEPT !.pc = "forceReset", !.snap = c, !.fresh = TRUE]
                     \/ worker' = Idle
        BY <3>1 DEF ClearForce, Reply, Fail
      <4> QED
        BY <1>0, <4>1, IdleFields DEF Worker
    <3>2. CASE UpdateWorkload
      BY <1>0, <3>2 DEF UpdateWorkload, AfterWorkload, Reply, Fail, Idle, Worker
    <3>3. CASE ResetRecorded
      <4>1. PICK c : \/ worker' = [worker EXCEPT !.pc = "gate", !.state = "inProgress", !.snap = c]
                     \/ worker' = Idle
        BY <3>3 DEF ResetRecorded, UpdateStatus, Reply, Fail
      <4> QED
        BY <1>0, <4>1, IdleFields DEF Worker
    <3>4. CASE RecordSuccess
      <4>1. PICK c : \/ worker' = [worker EXCEPT !.pc = "gate", !.snap = c, !.existing = NoJob]
                     \/ worker' = Idle
        BY <3>4 DEF RecordSuccess, UpdateStatus, Reply, Fail
      <4> QED
        BY <1>0, <4>1, IdleFields DEF Worker
    <3>5. CASE ReportFailure \/ FinishReconcile
      BY <3>5 DEF ReportFailure, FinishReconcile, UpdateStatus, Reply, Fail, Idle
    <3> QED
      BY <1>2, <3>1, <3>2, <3>3, <3>4, <3>5
  <2> QED
    BY <2>1, <2>2, JobQuiet
<1>3. CASE HandleForce
  <2>1. /\ worker'.pc = (IF Exists(jobCache) THEN "forceDelete" ELSE "forcePatch")
        /\ worker'.existing = jobCache
    BY <1>0, <1>3 DEF HandleForce, Worker
  <2> QED
    BY <1>3, <2>1 DEF HandleForce, JobInv, OneJob, JobStream, Untold, Creating, Deleting
<1>4. CASE ReadJob
  <2> DEFINE n == AfterReading(worker.snap, jobCache)
             seen == IF n.pc = "gate" THEN NoJob ELSE jobCache
  <2>1. worker'.pc = n.pc /\ worker'.existing = seen
    BY <1>0, <1>4 DEF ReadJob, Worker
  <2>2. /\ worker'.pc # "forceDelete"
        /\ worker'.pc = "delete" => Exists(jobCache)
        /\ worker'.pc = "create" => ~Exists(jobCache)
    BY <2>1 DEF AfterReading
  <2>3. Creating'
    BY <1>4, <2>2 DEF ReadJob, JobInv, JobStream, Untold, Creating
  <2>4. worker'.pc = "delete" => worker'.existing = jobCache
    BY <2>1
  <2> HIDE DEF n, seen
  <2>5. Untold' /\ Deleting'
    BY <1>4, <2>2, <2>4 DEF ReadJob, JobInv, OneJob, Untold, Deleting
  <2> QED
    BY <1>4, <2>3, <2>5 DEF ReadJob, JobInv, OneJob, JobStream
<1>5. CASE ForceDeleteJob \/ DeleteStaleJob
  <2>1. worker'.pc \notin {"forceDelete", "delete", "create"}
    <3>1. \/ worker' = [worker EXCEPT !.pc = "forcePatch", !.existing = NoJob]
          \/ worker' = [worker EXCEPT !.pc = "gate", !.existing = NoJob]
          \/ worker' = Idle
      BY <1>5 DEF ForceDeleteJob, DeleteStaleJob, Reply, Fail
    <3> QED
      BY <1>0, <3>1, IdleFields DEF Worker
  <2> QED
    BY <1>5, <2>1, JobDeleted DEF ForceDeleteJob, DeleteStaleJob
<1>6. CASE CreateJob
  <2>1. worker'.pc \in {"gate", "idle"} /\ worker.pc = "create"
    BY <1>0, <1>6 DEF CreateJob, Reply, Fail, Idle, Worker
  <2>2. CASE Exists(job) /\ Fail /\ UNCHANGED <<jobVars, faults>>
    BY <1>6, <2>1, <2>2, JobQuiet DEF CreateJob
  <2>3. CASE ~Exists(job) /\ lastUid' = lastUid + 1
             /\ PublishJob([uid |-> lastUid + 1, image |-> worker.snap.version,
                            status |-> "running", deleting |-> FALSE])
    <3> DEFINE j == [uid |-> lastUid + 1, image |-> worker.snap.version,
                     status |-> "running", deleting |-> FALSE]
    <3>1. j \in Job /\ Exists(j) /\ j.uid = lastUid' /\ j.deleting = FALSE
      BY <1>0, <2>3 DEF TypeOK, Worker, CR, Job, Exists
    <3>2. ~Exists(jobCache) /\ jobWatch = <<>>
      BY <2>1, <2>3 DEF JobInv, Creating
    <3>3. PublishJob(j) /\ jobCache' = jobCache
      BY <1>6, <2>3 DEF CreateJob
    <3> HIDE DEF j
    <3>4. OneJob' /\ JobStream' /\ job' = j
      BY <3>1, <3>2, <3>3, PublishJobStream DEF JobInv
    <3> QED
      BY <2>1, <3>1, <3>4 DEF JobInv, Untold, Creating, Deleting
  <2> QED
    BY <1>6, <2>2, <2>3 DEF CreateJob
<1> QED
  BY <1>1, <1>2, <1>3, <1>4, <1>5, <1>6 DEF Reconciling

LEMMA DeliverJobStream == ASSUME TypeOK, JobInv, DeliverJob PROVE JobInv'
<1>1. /\ jobWatch # <<>> /\ jobCache' = jobWatch[1] /\ jobWatch' = Tail(jobWatch)
      /\ UNCHANGED <<job, lastUid, worker>>
  BY DEF DeliverJob
<1>2. /\ Len(jobWatch) \in Nat \ {0} /\ Len(jobWatch') = Len(jobWatch) - 1
      /\ \A i \in 1..Len(jobWatch') : jobWatch'[i] = jobWatch[i + 1]
      /\ jobWatch' \in Seq(Job)
  BY <1>1, HeadTailProperties, EmptySeq DEF TypeOK
<1>3. jobWatch' = <<>> <=> Len(jobWatch) = 1
  BY <1>2, EmptySeq
<1>4. OneJob'
  <2>1. \A i \in 1..Len(jobWatch') : i + 1 \in 1..Len(jobWatch)
    BY <1>2
  <2>2. 1 \in 1..Len(jobWatch)
    BY <1>2
  <2> QED
    BY <1>1, <1>2, <2>1, <2>2 DEF JobInv, OneJob
<1>5. JobStream'
  <2>1. jobWatch' # <<>> => jobWatch'[Len(jobWatch')] = jobWatch[Len(jobWatch)]
    <3> SUFFICES ASSUME jobWatch' # <<>> PROVE jobWatch'[Len(jobWatch')] = jobWatch[Len(jobWatch)]
      OBVIOUS
    <3>1. Len(jobWatch') \in 1..Len(jobWatch') /\ Len(jobWatch') + 1 = Len(jobWatch)
      BY <1>2, <1>3
    <3> QED
      BY <1>2, <3>1
  <2>2. \A i \in 1..(Len(jobWatch') - 1) : i \in 1..Len(jobWatch') /\ i + 1 \in 1..(Len(jobWatch) - 1)
    BY <1>2
  <2>3. \A i \in 1..(Len(jobWatch') - 1) : Exists(jobWatch'[i])
    BY <1>2, <2>2 DEF JobInv, JobStream
  <2> QED
    BY <1>1, <1>3, <2>1, <2>3 DEF JobInv, JobStream
<1>6. jobWatch' # <<>> => Exists(jobCache')
  <2>1. jobWatch' # <<>> => 1 \in 1..(Len(jobWatch) - 1)
    BY <1>2, <1>3
  <2> QED
    BY <1>1, <2>1 DEF JobInv, JobStream
<1>7. Untold' /\ Creating' /\ Deleting'
  BY <1>1, <1>6 DEF JobInv, Untold, Creating, Deleting
<1> QED
  BY <1>4, <1>5, <1>7 DEF JobInv

LEMMA EnvironmentJob == ASSUME TypeOK, JobInv, Environment PROVE JobInv'
<1> USE DEF cacheVars, jobVars
<1>0. worker \in Worker
  BY DEF TypeOK
<1>1. CASE DeliverJob
  BY <1>1, DeliverJobStream
<1>2. CASE \/ DeliverCR \/ TimerFires \/ OwnedEvent
           \/ \E w \in Workloads : DeliverWorkload(w) \/ PodsChange(w)
  BY <1>2, JobQuiet DEF DeliverCR, TimerFires, OwnedEvent, DeliverWorkload, PodsChange
<1>3. CASE SetVersion \/ RequestForce \/ ToggleSkip
  <2>1. PICK c : Edit(c)
    BY <1>3 DEF SetVersion, RequestForce, ToggleSkip
  <2>2. worker'.pc = worker.pc /\ worker'.existing = worker.existing /\ UNCHANGED <<jobVars, jobCache>>
    BY <1>0, <2>1 DEF Edit, Worker
  <2> QED
    BY <2>2, JobQuiet
<1>4. CASE CallFails
  <2>1. worker'.pc = "idle" /\ UNCHANGED <<jobVars, jobCache>>
    BY <1>4 DEF CallFails, Fail, Idle
  <2> QED
    BY <2>1, JobQuiet
<1>5. CASE Crash
  <2>1. worker'.pc = "idle" /\ jobCache' = job /\ jobWatch' = <<>> /\ UNCHANGED <<job, lastUid>>
    BY <1>5 DEF Crash, Fail, Idle
  <2>2. Len(jobWatch') = 0
    BY <2>1
  <2> QED
    BY <2>1, <2>2 DEF JobInv, OneJob, JobStream, Untold, Creating, Deleting
<1>6. CASE JobSucceeds
  <2>1. CASE job.deleting
    BY <1>6, <2>1, JobQuiet DEF JobSucceeds
  <2>2. CASE ~job.deleting
    <3> DEFINE j == [job EXCEPT !.status = "succeeded"]
    <3>1. Exists(job) /\ job \in Job
      BY <1>6 DEF JobSucceeds, Exists, TypeOK
    <3>2. j \in Job /\ Exists(j) /\ j.uid = job.uid /\ j.deleting = job.deleting
      BY <3>1, JobUpdates
    <3>3. j.status = "succeeded" /\ job.status = "running"
      BY <1>6, <3>1 DEF JobSucceeds, Job, NoJob
    <3>4. PublishJob(j) /\ UNCHANGED <<jobCache, lastUid, worker>>
      BY <1>6, <2>2 DEF JobSucceeds
    <3>5. j # job
      BY <3>3
    <3> HIDE DEF j
    <3> QED
      BY <3>1, <3>2, <3>4, <3>5, JobChanged
  <2> QED
    BY <2>1, <2>2
<1>7. CASE JobFails
  <2> DEFINE j == [job EXCEPT !.status = "failed"]
  <2>1. Exists(job) /\ job \in Job
    BY <1>7 DEF JobFails, Exists, TypeOK
  <2>2. j \in Job /\ Exists(j) /\ j.uid = job.uid /\ j.deleting = job.deleting
    BY <2>1, JobUpdates
  <2>3. j.status = "failed" /\ job.status = "running"
    BY <1>7, <2>1 DEF JobFails, Job, NoJob
  <2>4. PublishJob(j) /\ UNCHANGED <<jobCache, lastUid, worker>>
    BY <1>7 DEF JobFails
  <2>5. j # job
    BY <2>3
  <2> HIDE DEF j
  <2> QED
    BY <2>1, <2>2, <2>4, <2>5, JobChanged
<1>8. CASE JobGone \/ JobExpires
  <2>1. /\ PublishJob(NoJob) /\ UNCHANGED <<jobCache, lastUid, worker>>
        /\ job.deleting \/ (Exists(job) /\ worker.pc = "idle" /\ jobWatch = <<>>)
    BY <1>8 DEF JobGone, JobExpires, Exists
  <2>2. NoJob \in Job /\ ~Exists(NoJob) /\ NoJob.deleting = FALSE
    BY DEF Job, Exists, NoJob
  <2>3. Exists(job) /\ job # NoJob
    BY <2>1, <2>2 DEF TypeOK, Job, Exists
  <2> QED
    BY <2>1, <2>2, <2>3, JobChanged
<1> QED
  BY <1>1, <1>2, <1>3, <1>4, <1>5, <1>6, <1>7, <1>8 DEF Environment

\* The invariant of the Job.
THEOREM JobInvariant == Spec => []JobInv
<1>1. Init => JobInv
  <2> SUFFICES ASSUME Init PROVE JobInv
    OBVIOUS
  <2>1. job = NoJob /\ jobCache = NoJob /\ jobWatch = <<>> /\ worker.pc = "idle" /\ Len(jobWatch) = 0
    BY DEF Init, Idle
  <2>2. ~Exists(NoJob)
    BY DEF Exists, NoJob
  <2> QED
    BY <2>1, <2>2 DEF JobInv, OneJob, JobStream, Untold, Creating, Deleting
<1>2. TypeOK /\ JobInv /\ [Next]_vars => JobInv'
  <2> SUFFICES ASSUME TypeOK, JobInv, [Next]_vars PROVE JobInv'
    OBVIOUS
  <2>1. CASE UNCHANGED vars
    BY <2>1, JobQuiet DEF vars, jobVars
  <2> QED
    BY <2>1, ReconcilingJob, EnvironmentJob DEF Next
<1> QED
  BY <1>1, <1>2, TypeCorrect, PTL DEF Spec

\* A deletion by name hits the Job that was read and never a younger one: whoever
\* deletes has seen the youngest Job, and nobody creates another before the cache
\* knows that it is gone.
THEOREM DeletionHitsObserved == Spec => []DeleteHitsObserved
<1>1. JobInv => DeleteHitsObserved
  BY DEF JobInv, OneJob, Deleting, DeleteHitsObserved
<1> QED
  BY <1>1, JobInvariant, PTL

-----------------------------------------------------------------------------
(* The CR, its copies and the status                                       *)

\* A copy of the CR is of an earlier generation, or of the same version.
Copy(c) == c.gen <= cr.gen /\ (c.gen = cr.gen => c.version = cr.version)

Copies == Copy(crCache) /\ \A i \in 1..Len(crWatch) : Copy(crWatch[i])

\* The watch ends with the live CR.
CRStream == IF crWatch = <<>> THEN crCache = cr ELSE crWatch[Len(crWatch)] = cr

\* What the reconcile in progress works from.
Held == worker.pc # "idle" => Copy(worker.snap) /\ (worker.fresh => worker.snap = cr)

\* No older generation will be seen any more.
AllCurrent == crCache.gen = cr.gen /\ \A i \in 1..Len(crWatch) : crWatch[i].gen = cr.gen

\* The reconcile has not fetched the CR again for the force annotation.
Straight ==
  /\ worker.fresh
  /\ \/ worker.pc \in {"legacy", "migrate"}
     \/ worker.pc \notin {"idle", "forceReset"} /\ worker.state = "complete"

\* A CR that is current when it is taken from the cache is the last one in it.
Current == Straight => AllCurrent

\* What has been found out about the migration, and done, on the way to a status.
Verdict ==
  /\ worker.pc \in {"rollout", "finish"} => GateOpen(worker.state, worker.snap)
  /\ worker.pc \in {"gate", "rollout", "finish"} /\ worker.state = "complete" =>
       AlreadyMigrated(worker.snap)
  /\ worker.pc = "finish" =>
       \A w \in Workloads : deployed[w] = worker.snap.version \/ w \in unseen \/ queued
  /\ worker.pc \in {"create", "delete"} => worker.state = "inProgress"
  /\ worker.pc = "record" => worker.state = "complete"
  /\ worker.pc = "failStatus" => ~worker.snap.skip /\ worker.state = "failed"
  /\ worker.pc \in {"gate", "failStatus"} /\ worker.state = "failed" /\ ~queued =>
       jobCache.status = "failed" /\ jobCache.image = worker.snap.version

\* While no round is due, a workload without a change on its way runs the CR's image.
AllReached == RoundDue \/ \A w \in Workloads : deployed[w] = cr.version \/ w \in unseen

\* A Reconciled status of this generation stays as true as it is: no reconcile works
\* for another generation, and none will.
Truthful ==
  cr.reason = "Reconciled" /\ cr.observed = cr.gen =>
    /\ AllCurrent
    /\ worker.pc # "idle" => worker.snap.gen = cr.gen
    /\ cr.version \in migrated
    /\ AllReached

StatusInv ==
  cr.observed <= cr.gen /\ Copies /\ CRStream /\ Held /\ Current /\ Verdict /\ Truthful

\* A write of the CR reaches the copies last; none of them becomes newer by it.
LEMMA PublishCRStream ==
  ASSUME TypeOK, Copies, CRStream, NEW c \in CR, PublishCR(c), crCache' = crCache,
         cr.gen <= c.gen, c.gen = cr.gen => c.version = cr.version
  PROVE  /\ Copies' /\ CRStream' /\ cr' = c
         /\ \A k \in CR : Copy(k) => Copy(k)'
         /\ c.gen = cr.gen /\ AllCurrent => AllCurrent'
         /\ IF c = cr THEN crWatch' = crWatch ELSE crWatch' # <<>>
<1>1. /\ crWatch \in Seq(CR) /\ Len(crWatch) \in Nat /\ crCache \in CR /\ cr \in CR
      /\ \A i \in 1..Len(crWatch) : crWatch[i] \in CR
      /\ \A k \in CR : k.gen \in Nat
      /\ cr.gen \in Nat /\ c.gen \in Nat
  <2>1. crWatch \in Seq(CR) /\ cr \in CR /\ crCache \in CR
    BY DEF TypeOK
  <2>2. Len(crWatch) \in Nat /\ \A i \in 1..Len(crWatch) : crWatch[i] \in CR
    BY <2>1, LenProperties
  <2>3. \A k \in CR : k.gen \in Nat
    BY DEF CR
  <2> QED
    BY <2>1, <2>2, <2>3
<1>2. cr' = c
  BY DEF PublishCR
<1>3. \A k \in CR : Copy(k) => Copy(k)'
  BY <1>1, <1>2 DEF Copy
<1>4. CASE c = cr
  <2>1. crWatch' = crWatch
    BY <1>4 DEF PublishCR
  <2> QED
    BY <1>1, <1>2, <1>3, <1>4, <2>1 DEF Copies, CRStream, AllCurrent, Copy
<1>5. CASE c # cr
  <2>1. /\ crWatch' = Append(crWatch, c)
        /\ crWatch' # <<>> /\ Len(crWatch') = Len(crWatch) + 1
        /\ \A i \in 1..Len(crWatch) : crWatch'[i] = crWatch[i]
        /\ crWatch'[Len(crWatch) + 1] = c
    BY <1>1, <1>5, AppendProperties DEF PublishCR
  <2>2. ASSUME NEW i \in 1..Len(crWatch') PROVE i \in 1..Len(crWatch) \/ crWatch'[i] = cr'
    BY <1>1, <1>2, <2>1, <2>2
  <2>3. Copies'
    <3>1. Copy(crCache)'
      BY <1>1, <1>2 DEF Copies, Copy
    <3>2. ASSUME NEW i \in 1..Len(crWatch') PROVE Copy(crWatch[i])'
      <4>1. CASE crWatch'[i] = cr'
        BY <1>1, <1>2, <4>1 DEF Copy
      <4>2. CASE i \in 1..Len(crWatch)
        <5>1. crWatch'[i] = crWatch[i] /\ Copy(crWatch[i]) /\ crWatch[i].gen \in Nat
          BY <1>1, <2>1, <4>2 DEF Copies
        <5> QED
          BY <1>1, <1>2, <5>1 DEF Copy
      <4> QED
        BY <2>2, <3>2, <4>1, <4>2
    <3> QED
      BY <3>1, <3>2 DEF Copies
  <2>4. CRStream'
    BY <1>2, <2>1 DEF CRStream
  <2>5. c.gen = cr.gen /\ AllCurrent => AllCurrent'
    BY <1>2, <2>1, <2>2 DEF AllCurrent
  <2> QED
    BY <1>2, <1>3, <1>5, <2>1, <2>3, <2>4, <2>5
<1> QED
  BY <1>4, <1>5

\* A status update from the reconcile's own copy: it takes effect only when that
\* copy is the live CR.
LEMMA StatusWritten ==
  ASSUME TypeOK, StatusInv, worker.pc # "idle", NEW c \in CR, NEW next,
         c.gen = worker.snap.gen, c.version = worker.snap.version,
         c.observed \in {worker.snap.observed, worker.snap.gen},
         next.pc # "idle" => next.snap = c,
         UpdateStatus(c, next), crCache' = crCache
  PROVE  /\ cr'.observed <= cr'.gen /\ Copies' /\ CRStream' /\ Held'
         /\ cr'.gen = cr.gen /\ cr'.version = cr.version
         /\ AllCurrent => AllCurrent'
         /\ \/ worker' = Idle /\ queued' = TRUE
            \/ worker' = next /\ queued' = queued /\ worker.fresh
         /\ cr' = cr \/ (cr' = c /\ worker.fresh)
         /\ worker' # Idle => cr' = c
         /\ worker.fresh => cr' = c /\ worker.snap = cr
<1>0. worker.snap \in CR /\ worker.snap.gen \in Nat
  BY DEF TypeOK, Worker, CR
<1>1. CASE worker.fresh /\ PublishCR(c) /\ Reply(next)
  <2>1. worker.snap = cr
    BY <1>1 DEF StatusInv, Held
  <2>2. /\ Copies' /\ CRStream' /\ cr' = c /\ (AllCurrent => AllCurrent')
        /\ c.gen = cr.gen /\ c.version = cr.version
    BY <1>0, <1>1, <2>1, PublishCRStream DEF StatusInv
  <2>3. cr'.observed <= cr'.gen
    BY <1>0, <2>1, <2>2 DEF StatusInv
  <2>4. \/ worker' = Idle /\ queued' = TRUE
        \/ worker' = next /\ queued' = queued
    BY <1>1 DEF Reply, Fail
  <2>5. Held'
    <3>1. c.gen \in Nat
      BY <1>0
    <3> QED
      BY <2>2, <2>4, <3>1, IdleFields DEF Held, Copy
  <2> QED
    BY <1>1, <2>1, <2>2, <2>3, <2>4, <2>5
<1>2. CASE ~worker.fresh /\ Fail /\ UNCHANGED <<cr, crWatch, faults>>
  <2>1. worker' = Idle /\ queued' = TRUE
    BY <1>2 DEF Fail
  <2> QED
    BY <1>2, <2>1, IdleFields DEF StatusInv, Copies, CRStream, Held, AllCurrent, Copy
<1> QED
  BY <1>1, <1>2 DEF UpdateStatus

\* What a Reconciled status says stays true while it does not change, and until the
\* round that is due, if one is.
LEMMA TruthKept ==
  ASSUME StatusInv, cr'.version = cr.version, cr'.gen = cr.gen, cr'.reason = cr.reason,
         cr'.observed = cr.observed, migrated \subseteq migrated',
         RoundDue' \/ (~RoundDue /\ deployed' = deployed /\ unseen \subseteq unseen'),
         AllCurrent => AllCurrent',
         worker'.pc # "idle" => \/ worker.pc # "idle" /\ worker'.snap.gen = worker.snap.gen
                                \/ worker'.snap.gen = cr.gen
  PROVE  Truthful'
<1>1. AllReached => AllReached'
  BY DEF AllReached
<1> QED
  BY <1>1 DEF StatusInv, Truthful

\* A busy worker, a queued key or a pending timer is a round due.
LEMMA Busy ==
  ASSUME worker'.pc # "idle" \/ queued' = TRUE \/ timer' = TRUE
  PROVE  RoundDue'
BY DEF RoundDue

LEMMA IdleVerdict == ASSUME worker' = Idle PROVE Verdict' /\ Current' /\ Held'
BY IdleFields DEF Verdict, Current, Straight, Held

\* A step of the reconcile, or its end, that leaves the CR and the workloads alone.
LEMMA WorkerStep ==
  ASSUME StatusInv, UNCHANGED <<cr, crWatch, crCache, migrated>>,
         \/ worker' = Idle /\ (queued' = TRUE \/ timer' = TRUE)
         \/ /\ worker.pc # "idle" /\ worker'.pc # "idle" /\ worker'.snap = worker.snap /\ worker'.fresh = worker.fresh
            /\ Straight' => Straight
            /\ Verdict'
  PROVE  StatusInv'
<1>1. Copies' /\ CRStream' /\ (AllCurrent => AllCurrent')
  BY DEF StatusInv, Copies, CRStream, AllCurrent, Copy
<1>2. Held' /\ Current' /\ Verdict'
  BY IdleVerdict DEF StatusInv, Held, Current, AllCurrent, Copy
<1>3. Truthful'
  BY <1>1, Busy, TruthKept, IdleFields
<1> QED
  BY <1>1, <1>2, <1>3 DEF StatusInv

\* The steps of a reconcile that leave the CR, its copies and the workloads alone.
LEMMA LocalStatus ==
  ASSUME TypeOK, StatusInv,
         \/ CleanUpLegacy \/ HandleForce \/ ForceDeleteJob \/ ReadJob \/ CreateJob
         \/ DeleteStaleJob \/ PassGate \/ HaltInProgress \/ HaltFailed \/ CallFails
  PROVE  StatusInv'
<1> USE DEF apiVars, cacheVars, dbVars, queueVars, workloadVars
<1>0. worker \in Worker
  BY DEF TypeOK
<1>1. CASE CleanUpLegacy
  <2>1. /\ worker.pc = "legacy" /\ worker'.pc = "migrate"
        /\ worker'.snap = worker.snap /\ worker'.fresh = worker.fresh
    BY <1>0, <1>1 DEF CleanUpLegacy, Worker
  <2>2. Verdict' /\ (Straight' => Straight)
    BY <2>1 DEF Verdict, Straight
  <2> QED
    BY <1>1, <2>1, <2>2, WorkerStep DEF CleanUpLegacy
<1>2. CASE HandleForce
  <2>1. /\ worker.pc = "migrate" /\ worker'.pc \in {"forceDelete", "forcePatch"}
        /\ worker'.snap = worker.snap /\ worker'.fresh = worker.fresh
    BY <1>0, <1>2 DEF HandleForce, Worker
  <2>2. Verdict' /\ (Straight' => Straight)
    BY <2>1 DEF Verdict, Straight
  <2> QED
    BY <1>2, <2>1, <2>2, WorkerStep DEF HandleForce
<1>3. CASE ForceDeleteJob
  <2>1. \/ worker' = [worker EXCEPT !.pc = "forcePatch", !.existing = NoJob]
        \/ worker' = Idle /\ queued' = TRUE
    BY <1>3 DEF ForceDeleteJob, Reply, Fail
  <2>2. CASE worker' = [worker EXCEPT !.pc = "forcePatch", !.existing = NoJob]
    <3>1. /\ worker.pc = "forceDelete" /\ worker'.pc = "forcePatch" /\ worker'.state = worker.state
          /\ worker'.snap = worker.snap /\ worker'.fresh = worker.fresh
      BY <1>0, <1>3, <2>2 DEF ForceDeleteJob, Worker
    <3>2. Verdict' /\ (Straight' => Straight)
      BY <3>1 DEF Verdict, Straight
    <3> QED
      BY <1>3, <3>1, <3>2, WorkerStep DEF ForceDeleteJob
  <2> QED
    BY <1>3, <2>1, <2>2, WorkerStep DEF ForceDeleteJob
<1>4. CASE ReadJob
  <2>1. /\ worker.pc = "migrate"
        /\ worker'.pc = AfterReading(worker.snap, jobCache).pc
        /\ worker'.state = AfterReading(worker.snap, jobCache).state
        /\ worker'.snap = worker.snap /\ worker'.fresh = worker.fresh
        /\ jobCache' = jobCache
    BY <1>0, <1>4 DEF ReadJob, Worker
  <2>2. Verdict' /\ worker'.pc # "idle"
    BY <2>1 DEF AfterReading, Verdict, isJobFailed
  <2>3. Straight' => Straight
    BY <2>1 DEF Straight
  <2> QED
    BY <1>4, <2>1, <2>2, <2>3, WorkerStep DEF ReadJob
<1>5. CASE CreateJob \/ DeleteStaleJob
  <2>1. \/ worker' = [worker EXCEPT !.pc = "gate"]
        \/ worker' = [worker EXCEPT !.pc = "gate", !.existing = NoJob]
        \/ worker' = Idle /\ queued' = TRUE
    BY <1>5 DEF CreateJob, DeleteStaleJob, Reply, Fail
  <2>2. CASE \/ worker' = [worker EXCEPT !.pc = "gate"]
             \/ worker' = [worker EXCEPT !.pc = "gate", !.existing = NoJob]
    <3>1. /\ worker.pc \in {"create", "delete"} /\ worker'.pc = "gate" /\ worker'.state = worker.state
          /\ worker'.snap = worker.snap /\ worker'.fresh = worker.fresh
      BY <1>0, <1>5, <2>2 DEF CreateJob, DeleteStaleJob, Worker
    <3>2. worker'.state = "inProgress"
      BY <3>1 DEF StatusInv, Verdict
    <3>3. Verdict' /\ (Straight' => Straight)
      BY <3>1, <3>2 DEF Verdict, Straight
    <3> QED
      BY <1>5, <3>1, <3>3, WorkerStep DEF CreateJob, DeleteStaleJob
  <2> QED
    BY <1>5, <2>1, <2>2, WorkerStep DEF CreateJob, DeleteStaleJob
<1>6. CASE PassGate
  <2>1. /\ worker.pc = "gate" /\ worker'.pc = "rollout" /\ worker'.state = worker.state
        /\ worker'.snap = worker.snap /\ worker'.fresh = worker.fresh
        /\ GateOpen(worker.state, worker.snap)
    BY <1>0, <1>6 DEF PassGate, Worker
  <2>2. Verdict' /\ (Straight' => Straight)
    BY <2>1 DEF StatusInv, Verdict, Straight
  <2> QED
    BY <1>6, <2>1, <2>2, WorkerStep DEF PassGate
<1>7. CASE HaltFailed
  <2>1. /\ worker.pc = "gate" /\ worker'.pc = "failStatus" /\ worker'.state = "failed"
        /\ worker.state = "failed"
        /\ worker'.snap = worker.snap /\ worker'.fresh = worker.fresh
        /\ ~worker.snap.skip /\ UNCHANGED <<queued, jobCache>>
    BY <1>0, <1>7 DEF HaltFailed, GateOpen, Worker
  <2>2. Verdict' /\ (Straight' => Straight)
    BY <2>1 DEF StatusInv, Verdict, Straight
  <2> QED
    BY <1>7, <2>1, <2>2, WorkerStep DEF HaltFailed
<1>8. CASE HaltInProgress \/ CallFails
  BY <1>8, WorkerStep DEF HaltInProgress, CallFails, Fail
<1> QED
  BY <1>1, <1>2, <1>3, <1>4, <1>5, <1>6, <1>7, <1>8

\* A reconcile that takes a CR nothing is behind takes the live one.
LEMMA StartStatus == ASSUME TypeOK, StatusInv, StartReconcile PROVE StatusInv'
<1>1. /\ worker'.pc \in {"legacy", "migrate"}
      /\ worker'.snap = crCache /\ worker'.fresh = (crWatch = <<>>)
      /\ UNCHANGED <<cr, crCache, crWatch, migrated>>
  BY IdleType DEF StartReconcile, Worker, apiVars, cacheVars, dbVars
<1>2. Copies' /\ CRStream' /\ (AllCurrent => AllCurrent')
  BY <1>1 DEF StatusInv, Copies, CRStream, AllCurrent, Copy
<1>3. Held'
  BY <1>1 DEF StatusInv, Held, Copies, CRStream, Copy
<1>4. Current'
  <2>1. crWatch = <<>> => Len(crWatch) = 0 /\ crCache = cr
    BY DEF StatusInv, CRStream
  <2>2. crWatch = <<>> => AllCurrent'
    BY <1>1, <2>1 DEF AllCurrent
  <2> QED
    BY <1>1, <2>2 DEF Current, Straight
<1>5. Verdict'
  BY <1>1 DEF Verdict
<1>6. Truthful'
  BY <1>1, <1>2, Busy DEF StatusInv, Truthful, AllCurrent, AllReached
<1> QED
  BY <1>1, <1>2, <1>3, <1>4, <1>5, <1>6 DEF StatusInv

\* A workload that is given an image, or passed over, leaves the reconcile under way
\* or starting over; the last one leaves none behind that nobody will look at again.
LEMMA RolloutStatus == ASSUME GateInv, StatusInv, UpdateWorkload PROVE StatusInv'
<1> DEFINE v == worker.snap.version
           k == worker.step
<1>0. /\ worker \in Worker /\ worker.pc = "rollout"
      /\ k \in 1..Len(Order) /\ Len(Order) \in Nat
      /\ UNCHANGED <<cr, crCache, crWatch, migrated>>
  <2>1. worker \in Worker
    BY DEF GateInv, TypeOK
  <2>2. k \in 1..Len(Order) /\ Len(Order) \in Nat
    BY <2>1, GateAssumption, LenProperties DEF Worker
  <2> QED
    BY <2>1, <2>2 DEF UpdateWorkload, apiVars, cacheVars, dbVars
<1>1. \/ worker' = Idle /\ queued' = TRUE
      \/ /\ worker' = AfterWorkload
         /\ \A i \in 1..k : deployed'[Order[i]] = v \/ Order[i] \in unseen' \/ queued'
  BY RolloutReaches
<1>2. CASE worker' = Idle /\ queued' = TRUE
  BY <1>0, <1>2, WorkerStep
<1>3. CASE /\ worker' = AfterWorkload
           /\ \A i \in 1..k : deployed'[Order[i]] = v \/ Order[i] \in unseen' \/ queued'
  <2>1. /\ worker'.pc = (IF k = Len(Order) THEN "finish" ELSE "rollout")
        /\ worker'.state = worker.state /\ worker'.snap = worker.snap /\ worker'.fresh = worker.fresh
    BY <1>0, <1>3 DEF AfterWorkload, LastWorkload, Worker
  <2>2. k = Len(Order) => \A w \in Workloads : deployed'[w] = v \/ w \in unseen' \/ queued'
    <3> SUFFICES ASSUME k = Len(Order), NEW w \in Workloads
                 PROVE  deployed'[w] = v \/ w \in unseen' \/ queued'
      OBVIOUS
    <3>1. PICK i \in DOMAIN Order : Order[i] = w
      BY GateAssumption
    <3>2. i \in 1..k
      BY <3>1, GateAssumption, LenProperties
    <3> QED
      BY <1>3, <3>1, <3>2
  <2>3. Verdict'
    BY <1>0, <2>1, <2>2 DEF StatusInv, Verdict
  <2>4. Straight' => Straight
    BY <1>0, <2>1 DEF Straight
  <2> QED
    BY <1>0, <2>1, <2>3, <2>4, WorkerStep
<1> QED
  BY <1>1, <1>2, <1>3

\* The answer to the patch is the live CR, so the reconcile is up to date again,
\* but older generations may still be on their way.
LEMMA ForceStatus == ASSUME TypeOK, StatusInv, ClearForce PROVE StatusInv'
<1> DEFINE c == [cr EXCEPT !.force = FALSE]
           next == [worker EXCEPT !.pc = "forceReset", !.snap = c, !.fresh = TRUE]
<1>0. worker \in Worker /\ cr \in CR
  BY DEF TypeOK
<1>1. /\ c \in CR /\ c.gen = cr.gen /\ c.version = cr.version
      /\ c.reason = cr.reason /\ c.observed = cr.observed /\ cr.gen \in Nat
  BY <1>0 DEF CR
<1>2. next.pc = "forceReset" /\ next.snap = c
  BY <1>0 DEF Worker
<1>3. /\ PublishCR(c) /\ UNCHANGED <<crCache, migrated>>
      /\ worker' = next \/ (worker' = Idle /\ queued' = TRUE)
  BY DEF ClearForce, Reply, Fail, cacheVars, dbVars
<1> HIDE DEF c, next
<1>4. Copies' /\ CRStream' /\ cr' = c /\ (AllCurrent => AllCurrent')
  BY <1>1, <1>3, PublishCRStream DEF StatusInv
<1>5. cr'.observed <= cr'.gen
  BY <1>1, <1>4 DEF StatusInv
<1>6. Held' /\ Current' /\ Verdict'
  <2>1. CASE worker' = next
    BY <1>1, <1>2, <1>4, <2>1 DEF Held, Copy, Current, Straight, Verdict
  <2> QED
    BY <1>3, <2>1, IdleVerdict
<1>7. Truthful'
  BY <1>1, <1>2, <1>3, <1>4, Busy, TruthKept, IdleFields
<1> QED
  BY <1>4, <1>5, <1>6, <1>7 DEF StatusInv

\* The status updates of a reconcile: the reset of the recorded image, the record
\* of a success, and the two that end it.
LEMMA UpdateStatusStatus ==
  ASSUME GateInv, StatusInv, ResetRecorded \/ RecordSuccess \/ ReportFailure \/ FinishReconcile
  PROVE  StatusInv'
<1> USE DEF cacheVars, dbVars, workloadVars
<1>0. /\ TypeOK /\ worker \in Worker /\ worker.snap \in CR
      /\ crCache' = crCache /\ deployed' = deployed /\ unseen' = unseen /\ migrated' = migrated
      /\ worker.pc # "idle"
  BY DEF GateInv, TypeOK, Worker, ResetRecorded, RecordSuccess, ReportFailure, FinishReconcile
<1>1. CASE ResetRecorded
  <2> DEFINE c == [worker.snap EXCEPT !.recorded = None]
             next == [worker EXCEPT !.pc = "gate", !.state = "inProgress", !.snap = c]
  <2>1. /\ c \in CR /\ c.gen = worker.snap.gen /\ c.version = worker.snap.version
        /\ c.observed = worker.snap.observed /\ c.reason = worker.snap.reason
    BY <1>0 DEF CR
  <2>2. next.pc = "gate" /\ next.state = "inProgress" /\ next.snap = c
    BY <1>0 DEF Worker
  <2>3. UpdateStatus(c, next)
    BY <1>1 DEF ResetRecorded
  <2> HIDE DEF c, next
  <2>4. /\ cr'.observed <= cr'.gen /\ Copies' /\ CRStream' /\ Held'
        /\ cr'.gen = cr.gen /\ cr'.version = cr.version
        /\ AllCurrent => AllCurrent'
        /\ (worker' = Idle /\ queued' = TRUE) \/ worker' = next
        /\ cr' = cr \/ (cr' = c /\ worker.snap = cr)
    BY <1>0, <2>1, <2>2, <2>3, StatusWritten
  <2>5. Current' /\ Verdict'
    <3>1. CASE worker' = next
      BY <2>2, <3>1 DEF Current, Straight, Verdict
    <3> QED
      BY <2>4, <3>1, IdleVerdict
  <2>6. Truthful'
    BY <1>0, <2>1, <2>2, <2>4, Busy, TruthKept, IdleFields
  <2> QED
    BY <2>4, <2>5, <2>6 DEF StatusInv
<1>2. CASE RecordSuccess
  <2> DEFINE c == [worker.snap EXCEPT !.recorded = worker.snap.version]
             next == [worker EXCEPT !.pc = "gate", !.snap = c, !.existing = NoJob]
  <2>1. /\ c \in CR /\ c.gen = worker.snap.gen /\ c.version = worker.snap.version
        /\ c.observed = worker.snap.observed /\ c.reason = worker.snap.reason
        /\ c.recorded = c.version
    BY <1>0 DEF CR
  <2>2. /\ next.pc = "gate" /\ next.snap = c /\ next.state = worker.state
        /\ next.fresh = worker.fresh
    BY <1>0 DEF Worker
  <2>3. UpdateStatus(c, next) /\ worker.pc = "record"
    BY <1>2 DEF RecordSuccess
  <2> HIDE DEF c, next
  <2>4. /\ cr'.observed <= cr'.gen /\ Copies' /\ CRStream' /\ Held'
        /\ cr'.gen = cr.gen /\ cr'.version = cr.version
        /\ AllCurrent => AllCurrent'
        /\ (worker' = Idle /\ queued' = TRUE) \/ worker' = next
        /\ cr' = cr \/ (cr' = c /\ worker.snap = cr)
    BY <1>0, <2>1, <2>2, <2>3, StatusWritten
  <2>5. Current' /\ Verdict'
    <3>1. CASE worker' = next
      <4>1. worker.state = "complete"
        BY <2>3 DEF StatusInv, Verdict
      <4>2. Current'
        BY <2>2, <2>3, <2>4, <3>1, <4>1 DEF StatusInv, Current, Straight
      <4>3. Verdict'
        BY <2>1, <2>2, <3>1, <4>1 DEF Verdict, AlreadyMigrated
      <4> QED
        BY <4>2, <4>3
    <3> QED
      BY <2>4, <3>1, IdleVerdict
  <2>6. Truthful'
    BY <1>0, <2>1, <2>2, <2>4, Busy, TruthKept, IdleFields
  <2> QED
    BY <2>4, <2>5, <2>6 DEF StatusInv
<1>3. CASE ReportFailure
  <2> DEFINE c == [worker.snap EXCEPT !.reason = "MigrationFailed", !.observed = worker.snap.gen]
  <2>1. /\ c \in CR /\ c.gen = worker.snap.gen /\ c.version = worker.snap.version
        /\ c.observed = worker.snap.gen /\ c.reason = "MigrationFailed"
    BY <1>0 DEF CR, Reasons
  <2>2. UpdateStatus(c, Idle)
    BY <1>3 DEF ReportFailure
  <2> HIDE DEF c
  <2>3. /\ cr'.observed <= cr'.gen /\ Copies' /\ CRStream' /\ worker' = Idle
        /\ AllCurrent => AllCurrent'
        /\ (cr' = cr /\ queued' = TRUE) \/ cr' = c
    BY <1>0, <2>1, <2>2, StatusWritten, IdleFields
  <2>4. Truthful'
    <3>1. CASE cr' = cr /\ queued' = TRUE
      BY <1>0, <2>3, <3>1, Busy, TruthKept, IdleFields
    <3>2. CASE cr' = c
      BY <2>1, <3>2 DEF Truthful
    <3> QED
      BY <2>3, <3>1, <3>2
  <2> QED
    BY <2>3, <2>4, IdleVerdict DEF StatusInv
<1>4. CASE FinishReconcile
  <2> DEFINE c == [worker.snap EXCEPT !.reason = ReconciledReason(worker.state, worker.snap),
                                      !.observed = worker.snap.gen]
  <2>1. /\ c \in CR /\ c.gen = worker.snap.gen /\ c.version = worker.snap.version
        /\ c.observed = worker.snap.gen /\ c.reason = ReconciledReason(worker.state, worker.snap)
    BY <1>0 DEF CR, Reasons, ReconciledReason
  <2>2. UpdateStatus(c, Idle) /\ worker.pc = "finish"
    BY <1>4 DEF FinishReconcile
  <2> HIDE DEF c
  <2>3. /\ cr'.observed <= cr'.gen /\ Copies' /\ CRStream' /\ worker' = Idle
        /\ AllCurrent => AllCurrent'
        /\ (cr' = cr /\ queued' = TRUE) \/ (cr' = c /\ worker.fresh)
        /\ queued' = TRUE \/ queued' = queued
    BY <1>0, <2>1, <2>2, StatusWritten, IdleFields
  <2>4. Truthful'
    <3>1. CASE cr' = cr /\ queued' = TRUE
      BY <1>0, <2>3, <3>1, Busy, TruthKept, IdleFields
    <3>2. CASE cr' = c /\ worker.fresh /\ c.reason = "Reconciled"
      <4>1. worker.state = "complete"
        BY <2>1, <2>2, <3>2 DEF ReconciledReason, GateOpen, StatusInv, Verdict
      <4>2. AllCurrent
        BY <2>2, <3>2, <4>1 DEF StatusInv, Current, Straight
      <4>3. worker.snap.recorded = worker.snap.version
        BY <2>2, <4>1 DEF StatusInv, Verdict, AlreadyMigrated
      <4>4. worker.snap.version # None
        BY <1>0, GateAssumption DEF CR
      <4>5. worker.snap.version \in migrated
        BY <4>3, <4>4 DEF GateInv, Justified, ConfirmedCRs
      <4>6. \A w \in Workloads : deployed[w] = worker.snap.version \/ w \in unseen \/ queued
        BY <2>2 DEF StatusInv, Verdict
      <4>7. AllReached'
        BY <1>0, <2>1, <2>3, <3>2, <4>6 DEF AllReached, RoundDue
      <4> QED
        BY <1>0, <2>1, <2>3, <3>2, <4>2, <4>5, <4>7, IdleFields DEF Truthful
    <3>3. CASE cr' = c /\ c.reason # "Reconciled"
      BY <3>3 DEF Truthful
    <3> QED
      BY <2>3, <3>1, <3>2, <3>3
  <2> QED
    BY <2>3, <2>4, IdleVerdict DEF StatusInv
<1> QED
  BY <1>1, <1>2, <1>3, <1>4

LEMMA ReconcilingStatus == ASSUME GateInv, StatusInv, Reconciling PROVE StatusInv'
<1>1. TypeOK
  BY DEF GateInv
<1> QED
  BY <1>1, LocalStatus, StartStatus, RolloutStatus, ForceStatus, UpdateStatusStatus DEF Reconciling

\* What arrives from the watch was on its way, and the rest is in order.
LEMMA DeliverCRStatus == ASSUME TypeOK, StatusInv, DeliverCR PROVE StatusInv'
<1>1. /\ crWatch # <<>> /\ crCache' = crWatch[1] /\ crWatch' = Tail(crWatch) /\ queued' = TRUE
      /\ UNCHANGED <<cr, worker, migrated>>
  BY DEF DeliverCR, dbVars
<1>2. /\ Len(crWatch) \in Nat \ {0} /\ Len(crWatch') = Len(crWatch) - 1
      /\ \A i \in 1..Len(crWatch') : crWatch'[i] = crWatch[i + 1]
      /\ crWatch' \in Seq(CR)
  BY <1>1, HeadTailProperties, EmptySeq DEF TypeOK
<1>3. crWatch' = <<>> <=> Len(crWatch) = 1
  BY <1>2, EmptySeq
<1>4. \A i \in 1..Len(crWatch') : i + 1 \in 1..Len(crWatch) /\ crWatch'[i] = crWatch[i + 1]
  BY <1>2
<1>5. 1 \in 1..Len(crWatch)
  BY <1>2
<1>6. Copies' /\ (AllCurrent => AllCurrent')
  BY <1>1, <1>4, <1>5 DEF StatusInv, Copies, AllCurrent, Copy
<1>7. CRStream'
  <2>1. crWatch' # <<>> => crWatch'[Len(crWatch')] = crWatch[Len(crWatch)]
    <3> SUFFICES ASSUME crWatch' # <<>> PROVE crWatch'[Len(crWatch')] = crWatch[Len(crWatch)]
      OBVIOUS
    <3>1. Len(crWatch') \in 1..Len(crWatch') /\ Len(crWatch') + 1 = Len(crWatch)
      BY <1>2, <1>3
    <3> QED
      BY <1>2, <3>1
  <2> QED
    BY <1>1, <1>3, <2>1 DEF StatusInv, CRStream
<1>8. Held' /\ Current'
  BY <1>1, <1>6 DEF StatusInv, Held, Current, Straight, Copy
<1>9. Verdict'
  BY <1>1 DEF StatusInv, Verdict
<1>10. Truthful'
  BY <1>1, <1>6, Busy DEF StatusInv, Truthful, AllReached
<1> QED
  BY <1>1, <1>6, <1>7, <1>8, <1>9, <1>10 DEF StatusInv

\* A step that the CR and the reconcile do not see; if the Job's copy changes or a
\* change of a workload reaches the cache, the key is queued.
LEMMA StatusQuiet ==
  ASSUME StatusInv, UNCHANGED <<cr, crCache, crWatch, worker>>,
         migrated \subseteq migrated',
         \/ queued' = TRUE
         \/ UNCHANGED <<queued, timer, jobCache, deployed>> /\ unseen \subseteq unseen'
  PROVE  StatusInv'
<1>1. /\ Copies' /\ CRStream' /\ Held' /\ Current' /\ (AllCurrent => AllCurrent')
      /\ cr'.observed <= cr'.gen
  BY DEF StatusInv, Copies, CRStream, Held, Current, Straight, AllCurrent, Copy
<1>2. Verdict'
  BY DEF StatusInv, Verdict
<1>3. AllReached => AllReached'
  BY DEF AllReached, RoundDue
<1>4. Truthful'
  BY <1>1, <1>3 DEF StatusInv, Truthful
<1> QED
  BY <1>1, <1>2, <1>4 DEF StatusInv

\* An edit makes the reconcile's copy a stale one; with a new version it also makes
\* every status one of an older generation.
LEMMA EditStatus ==
  ASSUME TypeOK, StatusInv, NEW c \in CR, Edit(c),
         c.observed = cr.observed, c.reason = cr.reason,
         c.gen = cr.gen + 1 \/ (c.gen = cr.gen /\ c.version = cr.version)
  PROVE  StatusInv'
<1>1. /\ worker \in Worker /\ cr \in CR /\ worker.snap \in CR
      /\ cr.gen \in Nat /\ cr.observed \in Nat
  BY DEF TypeOK, Worker, CR
<1>2. /\ worker'.fresh = FALSE /\ worker'.pc = worker.pc /\ worker'.snap = worker.snap
      /\ worker'.state = worker.state /\ worker'.existing = worker.existing
      /\ PublishCR(c)
      /\ UNCHANGED <<crCache, jobCache, queued, timer, deployed, unseen, migrated>>
  BY <1>1 DEF Edit, Worker, cacheVars, queueVars, dbVars, workloadVars
<1>3. /\ Copies' /\ CRStream' /\ cr' = c
      /\ \A k \in CR : Copy(k) => Copy(k)'
      /\ c.gen = cr.gen /\ AllCurrent => AllCurrent'
  BY <1>1, <1>2, PublishCRStream DEF StatusInv
<1>4. cr'.observed <= cr'.gen
  BY <1>1, <1>3 DEF StatusInv
<1>5. Held'
  <2>1. Copy(worker.snap) => Copy(worker.snap)'
    BY <1>1, <1>2, <1>3 DEF Copy
  <2> QED
    BY <1>2, <2>1 DEF StatusInv, Held
<1>6. Current'
  BY <1>2 DEF Current, Straight
<1>7. Verdict'
  BY <1>2 DEF StatusInv, Verdict
<1>8. Truthful'
  <2>1. CASE c.gen = cr.gen + 1
    <3>1. cr'.observed # cr'.gen
      BY <1>1, <1>3, <2>1 DEF StatusInv
    <3> QED
      BY <3>1 DEF Truthful
  <2>2. CASE c.gen = cr.gen /\ c.version = cr.version
    <3>1. RoundDue' = RoundDue
      BY <1>2 DEF RoundDue
    <3> QED
      BY <1>2, <1>3, <2>2, <3>1, TruthKept
  <2> QED
    BY <2>1, <2>2
<1> QED
  BY <1>3, <1>4, <1>5, <1>6, <1>7, <1>8 DEF StatusInv

LEMMA EnvironmentStatus == ASSUME TypeOK, StatusInv, Environment PROVE StatusInv'
<1> USE DEF apiVars, cacheVars, queueVars, dbVars, workloadVars
<1>1. CASE DeliverCR
  BY <1>1, DeliverCRStatus
<1>2. CASE DeliverJob \/ TimerFires \/ OwnedEvent
  BY <1>2, StatusQuiet DEF DeliverJob, TimerFires, OwnedEvent
<1>3. CASE JobSucceeds \/ JobFails \/ JobGone \/ JobExpires
  <2>1. /\ migrated \subseteq migrated'
        /\ UNCHANGED <<cr, crCache, crWatch, worker, queued, timer, jobCache, deployed, unseen>>
    BY <1>3 DEF JobSucceeds, JobFails, JobGone, JobExpires
  <2> QED
    BY <2>1, StatusQuiet
<1>4. CASE SetVersion
  <2>1. PICK v \in Versions : Edit([cr EXCEPT !.version = v, !.gen = @ + 1])
    BY <1>4 DEF SetVersion
  <2> DEFINE c == [cr EXCEPT !.version = v, !.gen = @ + 1]
  <2>2. /\ c \in CR /\ c.gen = cr.gen + 1
        /\ c.observed = cr.observed /\ c.reason = cr.reason
    <3>1. cr \in CR /\ cr.gen + 1 \in Nat
      BY DEF TypeOK, CR
    <3> QED
      BY <3>1 DEF CR
  <2>3. Edit(c)
    BY <2>1
  <2> HIDE DEF c
  <2> QED
    BY <2>2, <2>3, EditStatus
<1>5. CASE RequestForce
  <2> DEFINE c == [cr EXCEPT !.force = TRUE]
  <2>1. /\ c \in CR /\ c.gen = cr.gen /\ c.version = cr.version
        /\ c.observed = cr.observed /\ c.reason = cr.reason
    BY DEF TypeOK, CR
  <2>2. Edit(c)
    BY <1>5 DEF RequestForce
  <2> HIDE DEF c
  <2> QED
    BY <2>1, <2>2, EditStatus
<1>6. CASE ToggleSkip
  <2> DEFINE c == [cr EXCEPT !.skip = ~@]
  <2>1. /\ c \in CR /\ c.gen = cr.gen /\ c.version = cr.version
        /\ c.observed = cr.observed /\ c.reason = cr.reason
    BY DEF TypeOK, CR
  <2>2. Edit(c)
    BY <1>6 DEF ToggleSkip
  <2> HIDE DEF c
  <2> QED
    BY <2>1, <2>2, EditStatus
<1>7. CASE CallFails
  BY <1>7, LocalStatus
<1>8. CASE Crash
  <2>1. /\ worker' = Idle /\ crCache' = cr /\ crWatch' = <<>> /\ Len(crWatch') = 0
        /\ UNCHANGED <<cr, migrated>> /\ queued' = TRUE /\ cr.gen \in Nat
    BY <1>8 DEF Crash, Fail, TypeOK, CR
  <2>2. Copies' /\ CRStream' /\ AllCurrent'
    BY <2>1 DEF Copies, CRStream, AllCurrent, Copy
  <2>3. Truthful'
    BY <2>1, <2>2, Busy, TruthKept, IdleFields
  <2> QED
    BY <2>1, <2>2, <2>3, IdleVerdict DEF StatusInv
<1>9. CASE \E w \in Workloads : DeliverWorkload(w) \/ PodsChange(w)
  BY <1>9, StatusQuiet DEF DeliverWorkload, PodsChange
<1> QED
  BY <1>1, <1>2, <1>3, <1>4, <1>5, <1>6, <1>7, <1>8, <1>9 DEF Environment

LEMMA InitStatus == ASSUME Init PROVE StatusInv
<1>1. /\ cr = NewCR /\ crCache = cr /\ crWatch = <<>> /\ worker.pc = "idle" /\ Len(crWatch) = 0
      /\ cr.gen = 1 /\ cr.observed = 0 /\ cr.reason = "none"
  BY DEF Init, Idle, NewCR
<1> QED
  BY <1>1 DEF StatusInv, Copies, CRStream, Held, Current, Straight, Verdict, Truthful, Copy

\* The invariant of the status.
THEOREM StatusInvariant == Spec => []StatusInv
<1>1. Init => StatusInv
  BY InitStatus
<1>2. GateInv /\ StatusInv /\ [Next]_vars => StatusInv'
  <2> SUFFICES ASSUME GateInv, StatusInv, [Next]_vars PROVE StatusInv'
    OBVIOUS
  <2>1. TypeOK
    BY DEF GateInv
  <2>2. CASE UNCHANGED vars
    BY <2>2, StatusQuiet DEF vars
  <2> QED
    BY <2>1, <2>2, ReconcilingStatus, EnvironmentStatus DEF Next
<1> QED
  BY <1>1, <1>2, GateInvariant, PTL DEF Spec

\* A Reconciled status of the current generation speaks of a migrated image, and a
\* workload that does not run it will be looked at again.
THEOREM ReconciledIsTrue == Spec => []ReconciledTruthful
<1>1. StatusInv => ReconciledTruthful
  BY DEF StatusInv, Truthful, AllReached, ReconciledTruthful
<1> QED
  BY <1>1, StatusInvariant, PTL

-----------------------------------------------------------------------------
(* Rest                                                                    *)

\* What still wakes the worker, or keeps it going.
LEMMA NotAtRest ==
  ASSUME \/ worker'.pc # "idle" \/ queued' = TRUE \/ timer' = TRUE
         \/ crWatch' # <<>> \/ jobWatch' # <<>> \/ unseen' # {}
  PROVE  NoLostWakeup'
BY DEF NoLostWakeup, AtRest

\* A reconcile that ends with the failed status has seen the Job as it is, unless
\* the Job's event is still to come.
LEMMA FailureRests ==
  ASSUME GateInv, JobInv, StatusInv, ReportFailure
  PROVE  NoLostWakeup'
<1> DEFINE c == [worker.snap EXCEPT !.reason = "MigrationFailed", !.observed = worker.snap.gen]
<1>1. TypeOK /\ worker.snap \in CR /\ worker.pc = "failStatus"
  BY DEF GateInv, TypeOK, Worker, ReportFailure
<1>2. /\ c \in CR /\ c.gen = worker.snap.gen /\ c.version = worker.snap.version
      /\ c.observed = worker.snap.gen /\ c.reason = "MigrationFailed"
      /\ c.skip = worker.snap.skip
  BY <1>1 DEF CR, Reasons
<1>3. UpdateStatus(c, Idle) /\ crCache' = crCache /\ UNCHANGED <<job, jobWatch, jobCache>>
  BY DEF ReportFailure, cacheVars, jobVars
<1> HIDE DEF c
<1>4. \/ queued' = TRUE
      \/ queued' = queued /\ cr' = c
  BY <1>1, <1>2, <1>3, StatusWritten, IdleFields
<1>5. CASE ~queued' /\ queued' = queued /\ cr' = c /\ jobWatch' = <<>>
  <2>1. jobCache = job
    BY <1>3, <1>5 DEF JobInv, JobStream
  <2>2. job.status = "failed" /\ job.image = worker.snap.version /\ ~worker.snap.skip
    BY <1>1, <1>5, <2>1 DEF StatusInv, Verdict
  <2>3. HaltedOnFailure'
    BY <1>2, <1>3, <1>5, <2>2 DEF HaltedOnFailure
  <2> QED
    BY <2>3 DEF NoLostWakeup
<1> QED
  BY <1>4, <1>5, NotAtRest

\* A reconcile that gets through has given every workload the live CR's image, but
\* for those whose event is still to come or has already queued the key.
LEMMA SuccessRests ==
  ASSUME GateInv, StatusInv, FinishReconcile
  PROVE  NoLostWakeup'
<1> DEFINE c == [worker.snap EXCEPT !.reason = ReconciledReason(worker.state, worker.snap),
                                    !.observed = worker.snap.gen]
<1>1. TypeOK /\ worker.snap \in CR /\ worker.pc = "finish"
  BY DEF GateInv, TypeOK, Worker, FinishReconcile
<1>2. /\ c \in CR /\ c.gen = worker.snap.gen /\ c.version = worker.snap.version
      /\ c.observed = worker.snap.gen /\ c.reason = ReconciledReason(worker.state, worker.snap)
      /\ c.skip = worker.snap.skip /\ c.recorded = worker.snap.recorded
  BY <1>1 DEF CR, Reasons, ReconciledReason
<1>3. /\ UpdateStatus(c, Idle) /\ crCache' = crCache
      /\ deployed' = deployed /\ unseen' = unseen
  BY DEF FinishReconcile, cacheVars, workloadVars
<1> HIDE DEF c
<1>4. \/ queued' = TRUE
      \/ cr' = c /\ queued' = queued
  BY <1>1, <1>2, <1>3, StatusWritten, IdleFields
<1>5. CASE cr' = c /\ queued' = queued /\ ~queued' /\ unseen' = {}
  <2>1. \A w \in Workloads : deployed'[w] = c.version
    BY <1>1, <1>2, <1>3, <1>5 DEF StatusInv, Verdict
  <2>2. \/ worker.state = "complete" /\ worker.snap.recorded = worker.snap.version
        \/ worker.state # "complete" /\ worker.snap.skip
    BY <1>1 DEF StatusInv, Verdict, GateOpen, AlreadyMigrated
  <2>3. \/ c.reason = "Reconciled" /\ c.recorded = c.version
        \/ c.reason = "MigrationCheckSkipped" /\ c.skip
    BY <1>2, <2>2 DEF ReconciledReason
  <2>4. RolledOut'
    BY <1>2, <1>5, <2>1, <2>3 DEF RolledOut
  <2> QED
    BY <2>4 DEF NoLostWakeup
<1> QED
  BY <1>4, <1>5, NotAtRest

LEMMA ReconcilingRests ==
  ASSUME GateInv, JobInv, StatusInv, Reconciling
  PROVE  NoLostWakeup'
<1>0. TypeOK /\ worker \in Worker
  BY DEF GateInv, TypeOK
<1>1. CASE StartReconcile
  <2>1. worker'.pc \in {"legacy", "migrate"}
    BY <1>1, IdleType DEF StartReconcile, Worker
  <2> QED
    BY <2>1, NotAtRest
<1>2. CASE CleanUpLegacy \/ HandleForce \/ ReadJob \/ PassGate \/ HaltFailed
  <2>1. CASE CleanUpLegacy \/ PassGate \/ HaltFailed
    BY <1>0, <2>1, NotAtRest DEF CleanUpLegacy, PassGate, HaltFailed, Worker
  <2>2. CASE HandleForce
    BY <1>0, <2>2, NotAtRest DEF HandleForce, Worker
  <2>3. CASE ReadJob
    <3>1. worker'.pc = AfterReading(worker.snap, jobCache).pc
      BY <1>0, <2>3 DEF ReadJob, Worker
    <3> QED
      BY <3>1, NotAtRest DEF AfterReading
  <2> QED
    BY <1>2, <2>1, <2>2, <2>3
<1>3. CASE HaltInProgress
  BY <1>3, NotAtRest DEF HaltInProgress
<1>4. CASE ForceDeleteJob \/ DeleteStaleJob \/ CreateJob
  <2>1. worker'.pc # "idle" \/ queued' = TRUE
    BY <1>0, <1>4 DEF ForceDeleteJob, DeleteStaleJob, CreateJob, Reply, Fail, Worker
  <2> QED
    BY <2>1, NotAtRest
<1>5. CASE ClearForce
  <2>1. PICK c : \/ worker' = [worker EXCEPT !.pc = "forceReset", !.snap = c, !.fresh = TRUE]
                 \/ queued' = TRUE
    BY <1>5 DEF ClearForce, Reply, Fail
  <2> QED
    BY <1>0, <2>1, NotAtRest DEF Worker
<1>6. CASE ResetRecorded
  <2>1. PICK c : \/ worker' = [worker EXCEPT !.pc = "gate", !.state = "inProgress", !.snap = c]
                 \/ queued' = TRUE
    BY <1>6 DEF ResetRecorded, UpdateStatus, Reply, Fail
  <2> QED
    BY <1>0, <2>1, NotAtRest DEF Worker
<1>7. CASE RecordSuccess
  <2>1. PICK c : \/ worker' = [worker EXCEPT !.pc = "gate", !.snap = c, !.existing = NoJob]
                 \/ queued' = TRUE
    BY <1>7 DEF RecordSuccess, UpdateStatus, Reply, Fail
  <2> QED
    BY <1>0, <2>1, NotAtRest DEF Worker
<1>8. CASE UpdateWorkload
  <2>1. worker'.pc # "idle" \/ queued' = TRUE
    BY <1>0, <1>8 DEF UpdateWorkload, AfterWorkload, Reply, Fail, Worker
  <2> QED
    BY <2>1, NotAtRest
<1> QED
  BY <1>1, <1>2, <1>3, <1>4, <1>5, <1>6, <1>7, <1>8, FailureRests, SuccessRests DEF Reconciling

\* An object that differs from the one it replaces is sent to the watchers.
LEMMA Announced ==
  ASSUME TypeOK, NEW x,
         \/ x # cr /\ PublishCR(x)
         \/ x # job /\ PublishJob(x)
  PROVE  crWatch' # <<>> \/ jobWatch' # <<>>
<1>1. CASE x # cr /\ PublishCR(x)
  <2>1. crWatch' = Append(crWatch, x) /\ crWatch \in Seq(CR)
    BY <1>1 DEF PublishCR, TypeOK
  <2> QED
    BY <2>1
<1>2. CASE x # job /\ PublishJob(x)
  <2>1. jobWatch' = Append(jobWatch, x) /\ jobWatch \in Seq(Job)
    BY <1>2 DEF PublishJob, TypeOK
  <2> QED
    BY <2>1
<1> QED
  BY <1>1, <1>2

LEMMA EnvironmentRests ==
  ASSUME TypeOK, NoLostWakeup, Environment
  PROVE  NoLostWakeup'
<1>0. cr \in CR /\ job \in Job
  BY DEF TypeOK
<1>1. CASE \/ DeliverCR \/ DeliverJob \/ TimerFires \/ OwnedEvent \/ CallFails \/ Crash
           \/ \E w \in Workloads : DeliverWorkload(w)
  <2>1. queued' = TRUE
    BY <1>1 DEF DeliverCR, DeliverJob, TimerFires, OwnedEvent, DeliverWorkload, CallFails, Crash,
                Fail
  <2> QED
    BY <2>1, NotAtRest
<1>2. CASE JobSucceeds
  <2>1. CASE job.deleting
    BY <1>2, <2>1 DEF JobSucceeds, NoLostWakeup, AtRest, RolledOut, HaltedOnFailure,
                      apiVars, queueVars, workloadVars
  <2>2. CASE ~job.deleting
    <3> DEFINE j == [job EXCEPT !.status = "succeeded"]
    <3>1. j # job
      BY <1>0, <1>2 DEF JobSucceeds, Job, NoJob
    <3>2. PublishJob(j)
      BY <1>2, <2>2 DEF JobSucceeds
    <3> QED
      BY <3>1, <3>2, Announced, NotAtRest
  <2> QED
    BY <2>1, <2>2
<1>3. CASE JobFails
  <2> DEFINE j == [job EXCEPT !.status = "failed"]
  <2>1. j # job
    BY <1>0, <1>3 DEF JobFails, Job, NoJob
  <2>2. PublishJob(j)
    BY <1>3 DEF JobFails
  <2> QED
    BY <2>1, <2>2, Announced, NotAtRest
<1>4. CASE JobGone \/ JobExpires
  <2>1. PublishJob(NoJob) /\ NoJob # job
    BY <1>4 DEF JobGone, JobExpires, NoJob
  <2> QED
    BY <2>1, Announced, NotAtRest
<1>5. CASE SetVersion \/ RequestForce \/ ToggleSkip
  <2>1. \E c : c # cr /\ PublishCR(c)
    <3>1. CASE SetVersion
      <4>1. PICK v \in Versions \ {cr.version} : PublishCR([cr EXCEPT !.version = v, !.gen = @ + 1])
        BY <3>1 DEF SetVersion, Edit
      <4>2. [cr EXCEPT !.version = v, !.gen = @ + 1].version = v
        BY <1>0 DEF CR
      <4> QED
        BY <4>1, <4>2
    <3>2. CASE RequestForce
      <4>1. PublishCR([cr EXCEPT !.force = TRUE]) /\ ~cr.force
        BY <3>2 DEF RequestForce, Edit
      <4>2. [cr EXCEPT !.force = TRUE].force = TRUE
        BY <1>0 DEF CR
      <4> QED
        BY <4>1, <4>2
    <3>3. CASE ToggleSkip
      <4>1. PublishCR([cr EXCEPT !.skip = ~@])
        BY <3>3 DEF ToggleSkip, Edit
      <4>2. cr.skip \in BOOLEAN
        BY <1>0 DEF CR
      <4>3. [cr EXCEPT !.skip = ~@].skip = ~cr.skip
        BY <1>0 DEF CR
      <4>4. ASSUME [cr EXCEPT !.skip = ~@] = cr PROVE FALSE
        BY <4>2, <4>3, <4>4
      <4> QED
        BY <4>1, <4>4
    <3> QED
      BY <1>5, <3>1, <3>2, <3>3
  <2> QED
    BY <2>1, Announced, NotAtRest
<1>6. CASE \E w \in Workloads : PodsChange(w)
  <2>1. unseen' # {}
    BY <1>6 DEF PodsChange
  <2> QED
    BY <2>1, NotAtRest
<1> QED
  BY <1>1, <1>2, <1>3, <1>4, <1>5, <1>6 DEF Environment

\* No wake-up is lost: whenever the worker idles with nothing queued, timed or on
\* its way, the CR's image is everywhere or the status shows why it is not.
THEOREM NoWakeupIsLost == Spec => []NoLostWakeup
<1>1. Init => NoLostWakeup
  BY DEF Init, NoLostWakeup, AtRest
<1>2. GateInv /\ JobInv /\ StatusInv /\ NoLostWakeup /\ [Next]_vars => NoLostWakeup'
  <2> SUFFICES ASSUME GateInv, JobInv, StatusInv, NoLostWakeup, [Next]_vars
               PROVE  NoLostWakeup'
    OBVIOUS
  <2>1. TypeOK
    BY DEF GateInv
  <2>2. CASE UNCHANGED vars
    BY <2>2 DEF vars, NoLostWakeup, AtRest, RolledOut, HaltedOnFailure
  <2> QED
    BY <2>1, <2>2, ReconcilingRests, EnvironmentRests DEF Next
<1> QED
  BY <1>1, <1>2, GateInvariant, JobInvariant, StatusInvariant, PTL DEF Spec
=============================================================================
