--------------------------- MODULE WorkloadsProofs ---------------------------
(***************************************************************************)
(* Proofs about the long-running workloads, the autoscaler and the status, *)
(* for every choice of tracked workloads and switches and every bound.     *)
(***************************************************************************)
EXTENDS Workloads, TLAPS

-----------------------------------------------------------------------------
(* The inductive invariant                                                 *)

\* The cache is right about every object it has been told all about.
Synced == \A w \in Tracked \ changed : cache[w] = objects[w]

\* A copy of the CR is of an earlier spec, or of the same.
CopyOf(c) ==
  /\ c.gen <= cr.gen
  /\ c.gen = cr.gen => c.version = cr.version /\ c.replicas = cr.replicas /\ c.on = cr.on

Copies ==
  /\ CopyOf(crCache)
  /\ worker.pc # "idle" => CopyOf(worker.snap) /\ (worker.fresh => worker.snap = cr)

\* Workload w is there or not, and of the version and number, as c asks.
Right(w, c) ==
  /\ objects[w].there = Deployed(w, c)
  /\ objects[w].there =>
       /\ objects[w].version = c.version
       /\ Autoscaled(w, c) \/ objects[w].replicas = Desired(w, c)

\* What the reconcile in progress has not looked at, and has not counted yet.
Pending == IF worker.pc = "apply" THEN worker.todo ELSE {}
Uncounted ==
  IF worker.pc = "apply" THEN Reported ELSE IF worker.pc = "read" THEN worker.todo ELSE {}

\* With nothing in the queue, whatever has been dealt with is as the cached CR asks,
\* or a change of it is on its way.
Accounted == ~queued => \A w \in Tracked \ (changed \cup Pending) : Right(w, crCache)

\* The counts read so far are those of now, or a change of them is on its way.
Counted ==
  ~queued /\ worker.pc # "idle" =>
    /\ worker.snap = crCache
    /\ \A w \in Reported \ (changed \cup Uncounted) : worker.ready[w] = ReadyIn(objects, w)

\* The status left behind is of the counts it is made of, and they are those of now.
StatusKept ==
  ~queued /\ worker.pc = "idle" /\ crCache = cr =>
    /\ cr.observed = cr.gen
    /\ cr.phase = IF allWorkloadsReady(cr, cr.ready) THEN "Ready" ELSE "ApplyingChanges"
    /\ \A w \in Reported \ changed : cr.ready[w] = ReadyIn(objects, w)

WorkloadsInv == TypeOK /\ Synced /\ Copies /\ Accounted /\ Counted /\ StatusKept

-----------------------------------------------------------------------------
(* Objects, the worker and replies                                         *)

Busy == [pc : Points \ {"idle"}, snap : CR, fresh : BOOLEAN, todo : SUBSET Tracked,
         ready : [Reported -> Nat]]

Deployments == [there : {TRUE}, version : Versions, replicas : Nat \ {0}, ready : Nat]

LEMMA IdleType == Idle \in Worker /\ Idle.pc = "idle"
BY DEF Idle, Worker

LEMMA BusyType == ASSUME TypeOK, worker.pc # "idle" PROVE worker \in Busy
BY DEF TypeOK, Worker, Idle, Busy

LEMMA AbsentType == Absent \in Object /\ Absent.there = FALSE
BY DEF Absent, Object

LEMMA ThereType == ASSUME NEW o \in Object, o.there PROVE o \in Deployments
<1>1. o # Absent
  BY AbsentType
<1> QED
  BY <1>1 DEF Object, Deployments

LEMMA DeploymentType == ASSUME NEW o \in Deployments PROVE o \in Object /\ o.there = TRUE
BY DEF Object, Deployments

LEMMA DesiredType == ASSUME NEW c \in CR, NEW w PROVE Desired(w, c) \in Nat \ {0}
<1>1. c.replicas \in NodeReplicas
  BY DEF CR
<1>2. NodeReplicas \subseteq Nat \ {0}
  BY Zenon, WorkloadsAssumption
<1>3. c.replicas \in Nat \ {0}
  BY <1>1, <1>2, Zenon
<1>4. FixedReplicas \in Nat \ {0}
  BY DEF FixedReplicas
<1> QED
  BY <1>3, <1>4 DEF Desired

LEMMA ReadyType ==
  ASSUME NEW store \in [Tracked -> Object], NEW w \in Tracked PROVE ReadyIn(store, w) \in Nat
<1>1. CASE store[w].there
  <2>1. store[w] \in Deployments
    BY <1>1, ThereType
  <2> QED
    BY <1>1, <2>1 DEF ReadyIn, Deployments
<1>2. CASE ~store[w].there
  BY <1>2 DEF ReadyIn
<1> QED
  BY <1>1, <1>2

LEMMA FaultType == ASSUME TypeOK, faults < MaxFaults, faults' = faults + 1 PROVE faults' \in 0..MaxFaults
BY WorkloadsAssumption DEF TypeOK

LEMMA EditType == ASSUME TypeOK, edits < MaxEdits, edits' = edits + 1 PROVE edits' \in 0..MaxEdits
BY WorkloadsAssumption DEF TypeOK

LEMMA ReplyType ==
  ASSUME TypeOK, NEW next, Reply(next)
  PROVE  /\ queued' \in BOOLEAN /\ faults' \in 0..MaxFaults
         /\ \/ worker' = next /\ queued' = queued
            \/ worker' = Idle /\ queued' = TRUE
<1>1. CASE worker' = next /\ UNCHANGED <<queued, faults>>
  BY <1>1 DEF TypeOK
<1>2. CASE faults < MaxFaults /\ faults' = faults + 1 /\ Fail
  <2>1. faults' \in 0..MaxFaults
    BY <1>2, FaultType
  <2> QED
    BY <1>2, <2>1 DEF Fail
<1> QED
  BY <1>1, <1>2 DEF Reply

\* After the last workload the counts are read.
LEMMA NextCallType ==
  ASSUME TypeOK, worker.pc = "apply", NEW w \in worker.todo
  PROVE  /\ NextCall(w) \in Busy
         /\ NextCall(w).snap = worker.snap /\ NextCall(w).fresh = worker.fresh
         /\ \/ worker.todo = {w} /\ NextCall(w).pc = "read" /\ NextCall(w).todo = Reported
            \/ NextCall(w).pc = "apply" /\ NextCall(w).todo = worker.todo \ {w}
<1>1. worker \in Busy
  BY BusyType
<1>2. CASE worker.todo = {w}
  <2>1. Reported \in SUBSET Tracked /\ "read" \in Points \ {"idle"}
    BY DEF Reported, Points
  <2>2. NextCall(w) = [worker EXCEPT !.pc = "read", !.todo = Reported]
    BY <1>2 DEF NextCall
  <2> QED
    BY <1>1, <1>2, <2>1, <2>2 DEF Busy
<1>3. CASE worker.todo # {w}
  <2>1. NextCall(w) = [worker EXCEPT !.todo = worker.todo \ {w}]
    BY <1>3 DEF NextCall
  <2> QED
    BY <1>1, <2>1 DEF Busy
<1> QED
  BY <1>2, <1>3

-----------------------------------------------------------------------------
(* A decision about one workload                                           *)

\* What a call about workload w may do, when it works for c.
StepOn(w, c) ==
  /\ \/ UNCHANGED <<objects, changed>>
     \/ \E o \in Object : Write(w, o)
  /\ queued' \in BOOLEAN /\ faults' \in 0..MaxFaults
  /\ \/ worker' = Idle /\ queued' = TRUE
     \/ worker' = NextCall(w) /\ queued' = queued /\ (w \in changed' \/ Right(w, c)')

LEMMA RejectStep ==
  ASSUME TypeOK, Fail, UNCHANGED <<objects, changed, faults>>, NEW w, NEW c PROVE StepOn(w, c)
BY DEF Fail, StepOn, TypeOK

LEMMA SkipStep ==
  ASSUME TypeOK, NEW w, NEW c, worker' = NextCall(w), UNCHANGED <<objects, changed, queued, faults>>,
         w \in changed \/ Right(w, c)
  PROVE  StepOn(w, c)
<1>1. w \in changed' \/ Right(w, c)'
  BY DEF Right
<1> QED
  BY <1>1 DEF StepOn, TypeOK

LEMMA WriteStep ==
  ASSUME TypeOK, NEW w, NEW c, NEW o \in Object, Write(w, o), Reply(NextCall(w))
  PROVE  StepOn(w, c)
<1>1. w \in changed'
  BY DEF Write
<1> QED
  BY <1>1, ReplyType DEF StepOn

LEMMA WantedType ==
  ASSUME TypeOK, NEW w \in Tracked, NEW c \in CR, cache[w].there
  PROVE  /\ cache[w] \in Deployments
         /\ [cache[w] EXCEPT !.version = c.version, !.replicas = WantedReplicas(w, c)] \in Object
<1>1. cache[w] \in Deployments
  BY ThereType DEF TypeOK
<1>2. WantedReplicas(w, c) \in Nat \ {0}
  BY <1>1, DesiredType DEF WantedReplicas, Deployments
<1>3. [cache[w] EXCEPT !.version = c.version, !.replicas = WantedReplicas(w, c)] \in Deployments
  BY <1>1, <1>2 DEF Deployments, CR
<1> QED
  BY <1>1, <1>3, DeploymentType

LEMMA EnsureStep ==
  ASSUME TypeOK, Synced, NEW w \in Tracked, NEW c \in CR, Deployed(w, c), Ensure(w, c)
  PROVE  StepOn(w, c)
<1> DEFINE wanted == [cache[w] EXCEPT !.version = c.version, !.replicas = WantedReplicas(w, c)]
           created == [there |-> TRUE, version |-> c.version, ready |-> 0,
                       replicas |-> IF Autoscaled(w, c) THEN DefaultReplicas ELSE Desired(w, c)]
<1>1. CASE /\ cache[w].there /\ wanted = cache[w]
           /\ worker' = NextCall(w)
           /\ UNCHANGED <<objects, changed, queued, faults>>
  <2>1. w \in changed \/ Right(w, c)
    <3> SUFFICES ASSUME w \notin changed PROVE Right(w, c)
      OBVIOUS
    <3>1. objects[w] = cache[w] /\ cache[w] \in Deployments
      BY <1>1, WantedType DEF Synced
    <3>2. wanted.version = c.version /\ wanted.replicas = WantedReplicas(w, c)
      BY <3>1 DEF Deployments
    <3>3. objects[w].there = TRUE
      BY <3>1, DeploymentType
    <3>4. (objects[w].there = Deployed(w, c)) /\ objects[w].version = c.version
      BY <1>1, <3>1, <3>2, <3>3 DEF Deployed
    <3>5. Autoscaled(w, c) \/ objects[w].replicas = Desired(w, c)
      BY <1>1, <3>1, <3>2 DEF WantedReplicas
    <3> QED
      BY <3>4, <3>5 DEF Right
  <2> QED
    BY <1>1, <2>1, SkipStep
<1>2. CASE cache[w].there /\ Write(w, wanted) /\ Reply(NextCall(w))
  BY <1>2, WantedType, WriteStep
<1>3. CASE ~cache[w].there /\ Write(w, created) /\ Reply(NextCall(w))
  <2>1. (IF Autoscaled(w, c) THEN DefaultReplicas ELSE Desired(w, c)) \in Nat \ {0}
    BY DesiredType DEF DefaultReplicas
  <2>2. created \in Deployments
    BY <2>1 DEF Deployments, CR
  <2> QED
    BY <1>3, <2>2, DeploymentType, WriteStep
<1>4. CASE Fail /\ UNCHANGED <<objects, changed, faults>>
  BY <1>4, RejectStep
<1> QED
  BY <1>1, <1>2, <1>3, <1>4 DEF Ensure

LEMMA RemoveStep ==
  ASSUME TypeOK, Synced, NEW w \in Tracked, NEW c, ~Deployed(w, c), Remove(w)
  PROVE  StepOn(w, c)
<1>1. CASE ~MustGo(w) /\ worker' = NextCall(w) /\ UNCHANGED <<objects, changed, queued, faults>>
  <2>1. w \in changed \/ Right(w, c)
    <3> SUFFICES ASSUME w \notin changed PROVE Right(w, c)
      OBVIOUS
    <3>1. objects[w] = cache[w] /\ objects[w] \in Object
      BY DEF Synced, TypeOK
    <3>2. objects[w].there = FALSE
      BY <1>1, <3>1 DEF MustGo, Object, Absent
    <3>3. Deployed(w, c) = FALSE
      BY DEF Deployed
    <3> QED
      BY <3>2, <3>3 DEF Right
  <2> QED
    BY <1>1, <2>1, SkipStep
<1>2. CASE MustGo(w) /\ Write(w, Absent) /\ Reply(NextCall(w))
  BY <1>2, AbsentType, WriteStep
<1>3. CASE Fail /\ UNCHANGED <<objects, changed, faults>>
  BY <1>3, RejectStep
<1> QED
  BY <1>1, <1>2, <1>3 DEF Remove

LEMMA ApplyStep ==
  ASSUME TypeOK, Synced, Apply, NEW c, c = worker.snap
  PROVE  /\ worker.pc = "apply" /\ UNCHANGED <<cr, crCache, cache, edits>>
         /\ \E w \in Tracked : w \in worker.todo /\ StepOn(w, c)
<1>1. worker.pc = "apply" /\ UNCHANGED <<cr, crCache, cache, edits>>
  BY DEF Apply
<1>2. PICK w \in Tracked : Turn(w) /\ IF Deployed(w, c) THEN Ensure(w, c) ELSE Remove(w)
  BY DEF Apply
<1>3. c \in CR
  BY <1>1, BusyType DEF Busy
<1>4. StepOn(w, c)
  BY <1>2, <1>3, EnsureStep, RemoveStep
<1>5. w \in worker.todo
  BY <1>2 DEF Turn, First
<1> QED
  BY <1>1, <1>4, <1>5

-----------------------------------------------------------------------------
(* Every step keeps the invariant                                          *)

\* What a write leaves alone.
LEMMA WriteOthers ==
  ASSUME TypeOK, NEW w \in Tracked, NEW o \in Object, Write(w, o)
  PROVE  /\ objects' \in [Tracked -> Object] /\ changed' \in SUBSET Tracked /\ w \in changed'
         /\ changed' = changed \cup {w}
         /\ \A v \in Tracked \ changed' : objects'[v] = objects[v]
<1>1. changed' = changed \cup {w} /\ objects' = [objects EXCEPT ![w] = o]
  BY DEF Write
<1> QED
  BY <1>1 DEF TypeOK

\* What stays right, and counted, is what no change is on its way of.
LEMMA Standing ==
  ASSUME TypeOK, changed \subseteq changed', NEW w \in Tracked \ changed', objects'[w] = objects[w], NEW c
  PROVE  /\ Right(w, c) => Right(w, c)'
         /\ ReadyIn(objects, w)' = ReadyIn(objects, w)
BY DEF Right, ReadyIn

LEMMA ApplyKeepsInv == ASSUME WorkloadsInv, Apply PROVE WorkloadsInv'
<1> USE DEF WorkloadsInv
<1>0. PICK c : c = worker.snap
  OBVIOUS
<1>1. worker.pc = "apply" /\ UNCHANGED <<cr, crCache, cache, edits>>
  BY <1>0, ApplyStep
<1>2. PICK w \in Tracked : w \in worker.todo /\ StepOn(w, c)
  BY <1>0, ApplyStep
<1>3. /\ objects' \in [Tracked -> Object] /\ changed' \in SUBSET Tracked /\ changed \subseteq changed'
      /\ \A v \in Tracked \ changed' : objects'[v] = objects[v]
  BY <1>2, WriteOthers DEF StepOn, TypeOK
<1>4. /\ queued' \in BOOLEAN /\ faults' \in 0..MaxFaults
      /\ \/ worker' = Idle /\ queued' = TRUE
         \/ /\ worker' \in Busy /\ worker'.snap = worker.snap /\ worker'.fresh = worker.fresh
            /\ \/ worker.todo = {w} /\ worker'.pc = "read" /\ worker'.todo = Reported
               \/ worker'.pc = "apply" /\ worker'.todo = worker.todo \ {w}
            /\ queued' = queued /\ (w \in changed' \/ Right(w, c)')
  BY <1>1, <1>2, NextCallType DEF StepOn
<1>5. TypeOK'
  <2>1. worker' \in Worker
    BY <1>4, IdleType DEF Worker, Busy
  <2> QED
    BY <1>1, <1>3, <1>4, <2>1 DEF TypeOK
<1>6. Synced'
  BY <1>1, <1>3 DEF Synced
<1>7. Copies'
  BY <1>1, <1>4, IdleType DEF Copies, CopyOf
<1>8. ASSUME ~queued' PROVE Accounted' /\ Counted' /\ StatusKept'
  <2>1. ~queued
    BY <1>4, <1>8
  <2>2. /\ worker'.snap = worker.snap /\ worker.snap = crCache /\ worker'.pc \in {"apply", "read"}
        /\ Pending = worker.todo /\ Pending' = worker.todo \ {w}
        /\ w \in changed' \/ Right(w, crCache)'
        /\ Uncounted' = Reported
    BY <1>0, <1>1, <1>4, <1>8, <2>1 DEF Counted, Pending, Uncounted
  <2>3. ASSUME NEW v \in Tracked \ (changed' \cup Pending') PROVE Right(v, crCache)'
    <3>1. CASE v = w
      BY <2>2, <2>3, <3>1
    <3>2. CASE v # w
      <4>1. v \in Tracked \ (changed \cup Pending)
        BY <1>3, <2>2, <2>3, <3>2
      <4>2. Right(v, crCache)
        BY <2>1, <4>1 DEF Accounted
      <4> QED
        BY <1>1, <1>3, <2>3, <4>2 DEF Right
    <3> QED
      BY <3>1, <3>2
  <2>4. Accounted'
    BY <2>3 DEF Accounted
  <2>5. Counted'
    BY <1>1, <2>2 DEF Counted
  <2>6. StatusKept'
    BY <2>2 DEF StatusKept
  <2> QED
    BY <2>4, <2>5, <2>6
<1>9. queued' = TRUE => Accounted' /\ Counted' /\ StatusKept'
  BY DEF Accounted, Counted, StatusKept
<1> QED
  BY <1>4, <1>5, <1>6, <1>7, <1>8, <1>9

\* A step that leaves objects, copies and the CR alone, and ends the attempt or not.
LEMMA QuietStep ==
  ASSUME WorkloadsInv, UNCHANGED <<cr, crCache, storeVars>>,
         \/ worker' = Idle /\ queued' = TRUE
         \/ worker' = worker /\ queued' = queued,
         edits' \in 0..MaxEdits, faults' \in 0..MaxFaults
  PROVE  WorkloadsInv'
<1> USE DEF WorkloadsInv, storeVars
<1>1. CASE worker' = Idle /\ queued' = TRUE
  <2>1. TypeOK'
    BY <1>1, IdleType DEF TypeOK
  <2>2. Synced' /\ Copies' /\ Accounted' /\ Counted' /\ StatusKept'
    BY <1>1, IdleType DEF Synced, Copies, CopyOf, Accounted, Counted, StatusKept
  <2> QED
    BY <2>1, <2>2
<1>2. CASE worker' = worker /\ queued' = queued
  <2>1. TypeOK'
    BY <1>2 DEF TypeOK
  <2>2. Synced' /\ Copies'
    BY <1>2 DEF Synced, Copies, CopyOf
  <2>3. Accounted' /\ Counted' /\ StatusKept'
    BY <1>2 DEF Accounted, Counted, StatusKept, Pending, Uncounted, Right, ReadyIn
  <2> QED
    BY <2>1, <2>2, <2>3
<1> QED
  BY <1>1, <1>2

LEMMA StartKeepsInv == ASSUME WorkloadsInv, StartReconcile PROVE WorkloadsInv'
<1> USE DEF WorkloadsInv
<1>1. /\ worker' = [pc |-> "apply", snap |-> crCache, fresh |-> crCache = cr,
                    todo |-> Tracked, ready |-> Nothing]
      /\ queued' = FALSE /\ UNCHANGED <<cr, crCache, storeVars, edits, faults>>
  BY DEF StartReconcile
<1>2. Nothing \in [Reported -> Nat] /\ "apply" \in Points \ {"idle"}
  BY DEF Nothing, Points
<1>3. worker' \in Busy
  BY <1>1, <1>2 DEF Busy, TypeOK
<1>4. /\ worker'.pc = "apply" /\ worker'.snap = crCache /\ worker'.fresh = (crCache = cr)
      /\ worker'.todo = Tracked
  BY <1>1
<1>5. TypeOK'
  <2>1. queued' \in BOOLEAN /\ worker' \in Worker
    BY <1>1, <1>3 DEF Worker, Busy
  <2> QED
    BY <1>1, <2>1 DEF TypeOK, storeVars
<1>6. Synced' /\ Copies'
  BY <1>1, <1>4 DEF Synced, Copies, CopyOf, storeVars
<1>7. Accounted' /\ Counted' /\ StatusKept'
  BY <1>1, <1>4 DEF Accounted, Counted, StatusKept, Pending, Uncounted
<1> QED
  BY <1>5, <1>6, <1>7

LEMMA ReadKeepsInv == ASSUME WorkloadsInv, ReadReady PROVE WorkloadsInv'
<1> USE DEF WorkloadsInv
<1>1. worker.pc = "read" /\ UNCHANGED <<cr, crCache, storeVars, queued, edits, faults>>
  BY DEF ReadReady
<1>2. PICK w \in Reported :
        /\ First(w, ReadOrder)
        /\ worker' = [worker EXCEPT !.ready[w] = Count(w), !.todo = @ \ {w},
                        !.pc = IF worker.todo = {w} THEN "status" ELSE "read"]
  BY DEF ReadReady
<1>3. w \in worker.todo /\ w \in Tracked /\ worker \in Busy
  BY <1>1, <1>2, BusyType DEF First, Reported
<1>4. Count(w) \in Nat
  BY <1>3, ReadyType DEF Count, TypeOK
<1>5. /\ worker' \in Busy /\ worker'.snap = worker.snap /\ worker'.fresh = worker.fresh
      /\ worker'.todo = worker.todo \ {w}
      /\ (worker'.pc = "status" /\ worker.todo = {w}) \/ worker'.pc = "read"
      /\ worker'.ready = [worker.ready EXCEPT ![w] = Count(w)]
  BY <1>2, <1>3, <1>4 DEF Busy, Points
<1>6. TypeOK'
  <2>1. worker' \in Worker
    BY <1>5 DEF Worker, Busy
  <2> QED
    BY <1>1, <2>1 DEF TypeOK, storeVars
<1>7. Synced' /\ Copies'
  BY <1>1, <1>5 DEF Synced, Copies, CopyOf, storeVars
<1>8. Accounted'
  BY <1>1, <1>5 DEF Accounted, Pending, Right, storeVars
<1>9. StatusKept'
  BY <1>5 DEF StatusKept
<1>10. Counted'
  <2> SUFFICES ASSUME ~queued' PROVE Counted'
    BY DEF Counted
  <2>1. ~queued /\ worker.snap = crCache
    BY <1>1 DEF Counted
  <2>2. ASSUME NEW v \in Reported \ (changed' \cup Uncounted') PROVE worker'.ready[v] = ReadyIn(objects, v)'
    <3>1. v \notin changed /\ v \in Tracked /\ v \notin worker.todo \ {w} /\ ReadyIn(objects, v)' = ReadyIn(objects, v)
      BY <1>1, <1>5, <2>2 DEF Uncounted, storeVars, Reported, ReadyIn
    <3>2. CASE v = w
      <4>1. cache[w] = objects[w] /\ Right(w, worker.snap)
        BY <1>1, <2>1, <3>1, <3>2 DEF Synced, Accounted, Pending
      <4>2. Count(w) = ReadyIn(objects, w)
        BY <4>1 DEF Count, Right, ReadyIn
      <4>3. worker'.ready[w] = Count(w)
        BY <1>2, <1>3, <1>5 DEF Busy
      <4> QED
        BY <3>1, <3>2, <4>2, <4>3
    <3>3. CASE v # w
      <4>1. v \in Reported \ (changed \cup Uncounted)
        BY <1>1, <2>2, <3>1, <3>3 DEF Uncounted
      <4>2. worker.ready[v] = ReadyIn(objects, v)
        BY <1>1, <2>1, <4>1 DEF Counted
      <4> QED
        BY <1>3, <1>5, <3>1, <3>3, <4>1, <4>2 DEF Busy
    <3> QED
      BY <3>2, <3>3
  <2> QED
    BY <1>1, <1>5, <2>1, <2>2 DEF Counted
<1> QED
  BY <1>6, <1>7, <1>8, <1>9, <1>10

LEMMA StatusKeepsInv == ASSUME WorkloadsInv, WriteStatus PROVE WorkloadsInv'
<1> USE DEF WorkloadsInv
<1>1. worker.pc = "status" /\ UNCHANGED <<crCache, storeVars, edits>> /\ worker \in Busy
  BY BusyType DEF WriteStatus
<1>2. CASE ~worker.fresh /\ Fail /\ UNCHANGED <<cr, faults>>
  BY <1>1, <1>2, QuietStep DEF Fail, TypeOK
<1>3. CASE /\ worker.fresh
           /\ cr' = [cr EXCEPT !.ready = worker.ready, !.observed = worker.snap.gen,
                       !.phase = IF allWorkloadsReady(worker.snap, worker.ready) THEN "Ready"
                                 ELSE "ApplyingChanges"]
           /\ Reply(Idle)
  <2>1. worker.snap = cr /\ cr.gen \in Nat /\ worker.ready \in [Reported -> Nat] /\ cr \in CR
    BY <1>1, <1>3 DEF Copies, Busy, TypeOK, CR
  <2> DEFINE phase == IF allWorkloadsReady(cr, worker.ready) THEN "Ready" ELSE "ApplyingChanges"
  <2>2. cr' = [cr EXCEPT !.ready = worker.ready, !.observed = cr.gen, !.phase = phase]
    BY <1>3, <2>1
  <2>3. phase \in {"Pending", "ApplyingChanges", "Ready"}
    OBVIOUS
  <2> HIDE DEF phase
  <2>4. cr' \in CR
    BY <2>1, <2>2, <2>3 DEF CR
  <2>5. /\ cr'.version = cr.version /\ cr'.replicas = cr.replicas /\ cr'.on = cr.on /\ cr'.gen = cr.gen
        /\ cr'.observed = cr.gen /\ cr'.ready = worker.ready /\ cr'.phase = phase
    BY <2>1, <2>2 DEF CR
  <2>6. worker' = Idle /\ queued' \in BOOLEAN /\ faults' \in 0..MaxFaults
        /\ (queued' = queued \/ queued' = TRUE)
    BY <1>3, ReplyType
  <2>7. TypeOK'
    BY <1>1, <2>4, <2>6, IdleType DEF TypeOK, storeVars
  <2>8. Synced' /\ Copies'
    BY <1>1, <2>5, <2>6, IdleType DEF Synced, Copies, CopyOf, storeVars
  <2>9. Accounted' /\ Counted'
    BY <1>1, <2>6, IdleType DEF Accounted, Counted, Pending, Right, storeVars
  <2>10. ASSUME ~queued' PROVE StatusKept'
    <3>1. ~queued
      BY <2>6, <2>10
    <3>2. \A w \in Reported \ changed : worker.ready[w] = ReadyIn(objects, w)
      BY <1>1, <3>1 DEF Counted, Uncounted
    <3>3. \A w \in Reported \ changed' : cr'.ready[w] = ReadyIn(objects, w)'
      BY <1>1, <2>5, <3>2 DEF ReadyIn, storeVars
    <3>4. allWorkloadsReady(cr, cr.ready)' = allWorkloadsReady(cr, worker.ready)
      BY <2>5 DEF allWorkloadsReady, Deployed, Desired
    <3>5. cr'.phase = IF allWorkloadsReady(cr, cr.ready)' THEN "Ready" ELSE "ApplyingChanges"
      BY <2>5, <3>4 DEF phase
    <3> QED
      BY <2>5, <3>3, <3>5 DEF StatusKept
  <2> QED
    BY <2>7, <2>8, <2>9, <2>10 DEF StatusKept
<1> QED
  BY <1>2, <1>3 DEF WriteStatus

LEMMA FailuresKeepInv == ASSUME WorkloadsInv, CallFails \/ Restart PROVE WorkloadsInv'
<1> USE DEF WorkloadsInv
<1>1. CASE CallFails
  <2>1. faults' \in 0..MaxFaults
    BY <1>1, FaultType DEF CallFails
  <2> QED
    BY <1>1, <2>1, QuietStep DEF CallFails, Fail, TypeOK
<1>2. CASE Restart
  <2>1. faults' \in 0..MaxFaults
    BY <1>2, FaultType DEF Restart
  <2>2. /\ worker' = Idle /\ queued' = TRUE /\ crCache' = cr /\ cache' = objects /\ changed' = {}
        /\ UNCHANGED <<cr, objects, edits>>
    BY <1>2 DEF Restart, Fail
  <2>3. TypeOK'
    BY <2>1, <2>2, IdleType DEF TypeOK
  <2>4. Synced' /\ Copies'
    <3>1. cr.gen \in Nat
      BY DEF TypeOK, CR
    <3> QED
      BY <2>2, <3>1, IdleType DEF Synced, Copies, CopyOf
  <2>5. Accounted' /\ Counted' /\ StatusKept'
    BY <2>2 DEF Accounted, Counted, StatusKept
  <2> QED
    BY <2>3, <2>4, <2>5
<1> QED
  BY <1>1, <1>2

LEMMA InformersKeepInv ==
  ASSUME WorkloadsInv, DeliverCR \/ \E w \in Tracked : Deliver(w)
  PROVE  WorkloadsInv'
<1> USE DEF WorkloadsInv
<1>1. CASE DeliverCR
  <2>1. crCache' = cr /\ queued' = TRUE /\ UNCHANGED <<cr, storeVars, worker, edits, faults>>
    BY <1>1 DEF DeliverCR
  <2>2. TypeOK' /\ Synced'
    BY <2>1 DEF TypeOK, Synced, storeVars
  <2>3. Copies'
    <3>1. cr.gen \in Nat
      BY DEF TypeOK, CR
    <3> QED
      BY <2>1, <3>1 DEF Copies, CopyOf
  <2>4. Accounted' /\ Counted' /\ StatusKept'
    BY <2>1 DEF Accounted, Counted, StatusKept
  <2> QED
    BY <2>2, <2>3, <2>4
<1>2. ASSUME NEW w \in Tracked, Deliver(w) PROVE WorkloadsInv'
  <2>1. /\ changed' = changed \ {w} /\ cache' = [cache EXCEPT ![w] = objects[w]] /\ queued' = TRUE
        /\ UNCHANGED <<cr, crCache, objects, worker, edits, faults>>
    BY <1>2 DEF Deliver, Watched
  <2>2. TypeOK' /\ Synced' /\ Copies'
    BY <2>1 DEF TypeOK, Synced, Copies, CopyOf
  <2>3. Accounted' /\ Counted' /\ StatusKept'
    BY <2>1 DEF Accounted, Counted, StatusKept
  <2> QED
    BY <2>2, <2>3
<1> QED
  BY <1>1, <1>2

\* A change of a workload from outside will be told.
LEMMA ClusterStep ==
  ASSUME WorkloadsInv, NEW w \in Tracked, NEW o \in Object, Write(w, o),
         UNCHANGED <<cr, crCache, cache, queued, worker>>,
         edits' \in 0..MaxEdits, faults' \in 0..MaxFaults
  PROVE  WorkloadsInv'
<1> USE DEF WorkloadsInv
<1>1. /\ objects' \in [Tracked -> Object] /\ changed' \in SUBSET Tracked /\ changed \subseteq changed'
      /\ \A v \in Tracked \ changed' : objects'[v] = objects[v]
  BY WriteOthers
<1>2. TypeOK' /\ Synced' /\ Copies'
  BY <1>1 DEF TypeOK, Synced, Copies, CopyOf
<1>3. \A v \in Tracked \ changed' : /\ \A c : Right(v, c) => Right(v, c)'
                                    /\ ReadyIn(objects, v)' = ReadyIn(objects, v)
  BY <1>1, Standing
<1>4. ASSUME ~queued' PROVE Accounted' /\ Counted' /\ StatusKept'
  <2>1. ~queued
    BY <1>4
  <2>2. Pending' = Pending /\ Uncounted' = Uncounted
    BY DEF Pending, Uncounted
  <2>3. Accounted'
    <3> SUFFICES ASSUME NEW v \in Tracked \ (changed' \cup Pending') PROVE Right(v, crCache)'
      BY DEF Accounted
    <3>1. Right(v, crCache)
      BY <1>1, <2>1, <2>2 DEF Accounted
    <3> QED
      BY <1>1, <3>1 DEF Right
  <2>4. Reported \subseteq Tracked
    BY DEF Reported
  <2>5. Counted'
    BY <1>1, <1>3, <2>1, <2>2, <2>4 DEF Counted
  <2>6. StatusKept'
    BY <1>1, <1>3, <2>1, <2>4 DEF StatusKept, allWorkloadsReady
  <2> QED
    BY <2>3, <2>5, <2>6
<1> QED
  BY <1>2, <1>4 DEF Accounted, Counted, StatusKept

LEMMA ClusterKeepsInv ==
  ASSUME WorkloadsInv, NEW w \in Tracked, PodReady(w) \/ PodStopped(w) \/ PodLost(w) \/ Scale(w)
  PROVE  WorkloadsInv'
<1> USE DEF WorkloadsInv
<1>1. objects[w].there
  BY DEF PodReady, PodStopped, PodLost, Scale
<1>2. objects[w] \in Deployments
  BY <1>1, ThereType DEF TypeOK
<1>3. \A n \in Nat : [objects[w] EXCEPT !.ready = n] \in Object
  <2>1. \A n \in Nat : [objects[w] EXCEPT !.ready = n] \in Deployments
    BY <1>2 DEF Deployments
  <2> QED
    BY <2>1, DeploymentType
<1>4. ASSUME NEW n \in Nat, PodsChange(w, n), faults' \in 0..MaxFaults PROVE WorkloadsInv'
  BY <1>3, <1>4, ClusterStep DEF PodsChange, TypeOK
<1>5. objects[w].ready \in Nat /\ objects[w].replicas \in Nat
  BY <1>2 DEF Deployments
<1>6. CASE PodReady(w)
  <2>1. objects[w].ready + 1 \in Nat
    BY <1>5
  <2> QED
    BY <1>4, <1>6, <2>1 DEF PodReady, TypeOK
<1>7. CASE PodStopped(w)
  <2>1. objects[w].ready - 1 \in Nat
    BY <1>5, <1>7 DEF PodStopped
  <2> QED
    BY <1>4, <1>7, <2>1 DEF PodStopped, TypeOK
<1>8. CASE PodLost(w)
  <2>1. objects[w].ready - 1 \in Nat
    BY <1>5, <1>8 DEF PodLost
  <2>2. faults' \in 0..MaxFaults
    BY <1>8, FaultType DEF PodLost
  <2> QED
    BY <1>4, <1>8, <2>1, <2>2 DEF PodLost
<1>9. CASE Scale(w)
  <2>1. PICK n \in HPAReplicas : Write(w, [objects[w] EXCEPT !.replicas = n])
    BY <1>9 DEF Scale
  <2>2. n \in Nat \ {0}
    BY <2>1, WorkloadsAssumption, Zenon
  <2>3. [objects[w] EXCEPT !.replicas = n] \in Deployments
    BY <1>2, <2>2 DEF Deployments
  <2>4. edits' \in 0..MaxEdits
    BY <1>9, EditType DEF Scale
  <2>5. UNCHANGED <<cr, crCache, cache, queued, worker, faults>>
    BY <1>9 DEF Scale
  <2> QED
    BY <2>1, <2>3, <2>4, <2>5, DeploymentType, ClusterStep DEF TypeOK
<1> QED
  BY <1>6, <1>7, <1>8, <1>9

LEMMA EditKeepsInv == ASSUME WorkloadsInv, NEW c \in CR, c.gen = cr.gen, Edit(c) PROVE WorkloadsInv'
<1> USE DEF WorkloadsInv
<1>1. /\ cr' = [c EXCEPT !.gen = c.gen + 1]
      /\ worker' = IF worker.pc = "idle" THEN Idle ELSE [worker EXCEPT !.fresh = FALSE]
      /\ UNCHANGED <<crCache, storeVars, queued, faults>>
  BY DEF Edit
<1>2. cr' \in CR /\ cr'.gen = cr.gen + 1 /\ cr.gen \in Nat
  BY <1>1 DEF CR
<1>3. edits' \in 0..MaxEdits
  BY EditType DEF Edit
<1>4. CASE worker.pc = "idle"
  <2>1. worker' = Idle
    BY <1>1, <1>4
  <2>2. TypeOK'
    BY <1>1, <1>2, <1>3, <2>1, IdleType DEF TypeOK, storeVars
  <2>3. Synced' /\ Copies'
    <3>1. crCache.gen \in Nat /\ crCache.gen <= cr.gen
      BY DEF Copies, CopyOf, TypeOK, CR
    <3>2. crCache.gen <= cr'.gen /\ crCache.gen # cr'.gen
      BY <1>2, <3>1
    <3> QED
      BY <1>1, <2>1, <3>2, IdleType DEF Synced, Copies, CopyOf, storeVars
  <2>4. Accounted' /\ Counted'
    BY <1>1, <1>4, <2>1, IdleType DEF Accounted, Counted, Pending, Right, storeVars
  <2>5. StatusKept'
    <3>1. crCache' # cr'
      BY <2>3, <1>1, <1>2 DEF Copies, CopyOf, TypeOK, CR
    <3> QED
      BY <3>1 DEF StatusKept
  <2> QED
    BY <2>2, <2>3, <2>4, <2>5
<1>5. CASE worker.pc # "idle"
  <2>1. worker \in Busy /\ worker' = [worker EXCEPT !.fresh = FALSE]
    BY <1>1, <1>5, BusyType
  <2>2. /\ worker' \in Busy /\ worker'.pc = worker.pc /\ worker'.snap = worker.snap
        /\ worker'.todo = worker.todo /\ worker'.ready = worker.ready /\ worker'.fresh = FALSE
    BY <2>1 DEF Busy
  <2>3. TypeOK'
    <3>1. worker' \in Worker
      BY <2>2 DEF Busy, Worker
    <3> QED
      BY <1>1, <1>2, <1>3, <3>1 DEF TypeOK, storeVars
  <2>4. Synced' /\ Copies'
    <3>1. /\ crCache.gen \in Nat /\ crCache.gen <= cr.gen
          /\ worker.snap.gen \in Nat /\ worker.snap.gen <= cr.gen
      BY <1>5, <2>1 DEF Copies, CopyOf, TypeOK, CR, Busy
    <3>2. /\ crCache.gen <= cr'.gen /\ crCache.gen # cr'.gen
          /\ worker.snap.gen <= cr'.gen /\ worker.snap.gen # cr'.gen
      BY <1>2, <3>1
    <3> QED
      BY <1>1, <2>2, <3>2 DEF Synced, Copies, CopyOf, storeVars
  <2>5. Pending' = Pending /\ Uncounted' = Uncounted
    BY <2>2 DEF Pending, Uncounted
  <2>6. Accounted' /\ Counted' /\ StatusKept'
    BY <1>1, <1>5, <2>2, <2>5 DEF Accounted, Counted, StatusKept, Right, ReadyIn, storeVars
  <2> QED
    BY <2>3, <2>4, <2>6
<1> QED
  BY <1>4, <1>5

LEMMA UserKeepsInv ==
  ASSUME WorkloadsInv, SetVersion \/ SetReplicas \/ Switch
  PROVE  WorkloadsInv'
<1>0. cr \in CR
  BY DEF WorkloadsInv, TypeOK
<1>1. ASSUME NEW v \in Versions, Edit([cr EXCEPT !.version = v]) PROVE WorkloadsInv'
  <2>1. [cr EXCEPT !.version = v] \in CR /\ [cr EXCEPT !.version = v].gen = cr.gen
    BY <1>0 DEF CR
  <2> QED
    BY <1>1, <2>1, EditKeepsInv
<1>2. ASSUME NEW n \in NodeReplicas, Edit([cr EXCEPT !.replicas = n]) PROVE WorkloadsInv'
  <2>1. [cr EXCEPT !.replicas = n] \in CR /\ [cr EXCEPT !.replicas = n].gen = cr.gen
    BY <1>0 DEF CR
  <2> QED
    BY <1>2, <2>1, EditKeepsInv
<1>3. ASSUME NEW s \in Switches,
             Edit([cr EXCEPT !.on = IF s \in cr.on THEN cr.on \ {s} ELSE cr.on \cup {s}])
      PROVE  WorkloadsInv'
  <2>1. PICK on : on = IF s \in cr.on THEN cr.on \ {s} ELSE cr.on \cup {s}
    OBVIOUS
  <2>2. on \in SUBSET Switches
    BY <1>0, <2>1 DEF CR
  <2>3. [cr EXCEPT !.on = on] \in CR /\ [cr EXCEPT !.on = on].gen = cr.gen
    BY <1>0, <2>2 DEF CR
  <2>4. Edit([cr EXCEPT !.on = on])
    BY <1>3, <2>1
  <2> QED
    BY <2>3, <2>4, EditKeepsInv
<1> QED
  BY <1>1, <1>2, <1>3 DEF SetVersion, SetReplicas, Switch

-----------------------------------------------------------------------------
(* Theorems                                                                *)

LEMMA InitOK == Init => WorkloadsInv
<1> SUFFICES ASSUME Init PROVE WorkloadsInv
  OBVIOUS
<1>1. /\ cr \in [version : {FirstVersion}, replicas : {FirstReplicas}, on : FirstOn, gen : {1},
                 phase : {"Pending"}, ready : {Nothing}, observed : {0}]
      /\ crCache = cr /\ objects = [w \in Tracked |-> Absent] /\ cache = objects /\ changed = {}
      /\ queued = TRUE /\ worker = Idle /\ edits = 0 /\ faults = 0
  BY DEF Init
<1>2. Nothing \in [Reported -> Nat]
  BY DEF Nothing
<1>3. FirstVersion \in Versions /\ FirstReplicas \in NodeReplicas /\ FirstOn \subseteq SUBSET Switches
  BY WorkloadsAssumption, Zenon
<1>4. cr \in CR /\ cr.gen = 1
  BY <1>1, <1>2, <1>3 DEF CR
<1>5. edits \in 0..MaxEdits /\ faults \in 0..MaxFaults
  BY <1>1, WorkloadsAssumption
<1>6. TypeOK
  BY <1>1, <1>4, <1>5, IdleType, AbsentType DEF TypeOK
<1>7. Synced /\ Copies
  BY <1>1, <1>4, IdleType DEF Synced, Copies, CopyOf
<1>8. Accounted /\ Counted /\ StatusKept
  BY <1>1 DEF Accounted, Counted, StatusKept
<1> QED
  BY <1>6, <1>7, <1>8 DEF WorkloadsInv

\* With nothing in the queue, what the reconcile is done with is as the cached CR
\* asks and counted as it is, or a change of it is on its way.
THEOREM WorkloadsInvariant == Spec => []WorkloadsInv
<1>1. WorkloadsInv /\ [Next]_vars => WorkloadsInv'
  <2> SUFFICES ASSUME WorkloadsInv, [Next]_vars PROVE WorkloadsInv'
    OBVIOUS
  <2>1. CASE Reconciling
    BY <2>1, StartKeepsInv, ApplyKeepsInv, ReadKeepsInv, StatusKeepsInv DEF Reconciling
  <2>2. CASE CallFails \/ Restart
    BY <2>2, FailuresKeepInv
  <2>3. CASE DeliverCR \/ \E w \in Tracked : Deliver(w)
    BY <2>3, InformersKeepInv
  <2>4. CASE \E w \in Tracked : PodReady(w) \/ PodStopped(w) \/ PodLost(w) \/ Scale(w)
    BY <2>4, ClusterKeepsInv
  <2>5. CASE SetVersion \/ SetReplicas \/ Switch
    BY <2>5, UserKeepsInv
  <2>6. CASE UNCHANGED vars
    BY <2>6, QuietStep DEF vars, storeVars, WorkloadsInv, TypeOK
  <2> QED
    BY <2>1, <2>2, <2>3, <2>4, <2>5, <2>6 DEF Next
<1> QED
  BY <1>1, InitOK, PTL DEF Spec

\* Every variable keeps its type: whatever the autoscaler decided and however old
\* the copy, no workload is ever written without replicas.
THEOREM TypeCorrect == Spec => []TypeOK
<1>1. WorkloadsInv => TypeOK
  BY DEF WorkloadsInv
<1> QED
  BY <1>1, WorkloadsInvariant, PTL

\* For a Node component that is a Deployment of fixed size, Ready is what the counts
\* amount to.
LEMMA ReadyMeansReady ==
  ASSUME TypeOK, InPlace, cr.on \cap {"rollout", "autoscaling", "opamp"} = {},
         \A w \in Reported : cr.ready[w] = ReadyIn(objects, w)
  PROVE  allWorkloadsReady(cr, cr.ready) <=> \A w \in Tracked : Deployed(w, cr) => FullyReady(w)
<1>1. \A w \in Tracked : ~Autoscaled(w, cr)
  BY DEF Autoscaled
<1>2. ~Deployed("rollout", cr) /\ ~Deployed("opamp", cr)
  BY DEF Deployed
<1>3. ASSUME NEW w \in Tracked, Deployed(w, cr)
      PROVE  /\ w \in Reported \ {"opamp"}
             /\ FullyReady(w) <=> cr.ready[w] >= Desired(w, cr)
  <2>1. w \in Reported \ {"opamp"}
    BY <1>2, <1>3 DEF Reported
  <2>2. objects[w].there /\ objects[w].replicas = Desired(w, cr)
    BY <1>1, <1>3 DEF InPlace
  <2>3. cr.ready[w] = objects[w].ready
    BY <2>1, <2>2 DEF ReadyIn
  <2> QED
    BY <2>1, <2>2, <2>3 DEF FullyReady
<1>4. ASSUME NEW w \in Reported \ {"opamp"}, ~Deployed(w, cr) PROVE w = "tsdb" /\ cr.ready[w] >= 0
  <2>1. w \in Tracked /\ w # "rollout" /\ "rollout" \notin cr.on
    BY <1>4 DEF Reported
  <2>2. w = "tsdb"
    BY <1>4, <2>1 DEF Deployed
  <2>3. cr.ready[w] \in Nat
    BY <2>1, <1>4, ReadyType DEF TypeOK
  <2> QED
    BY <2>2, <2>3
<1>5. ASSUME allWorkloadsReady(cr, cr.ready), NEW w \in Tracked, Deployed(w, cr) PROVE FullyReady(w)
  BY <1>3, <1>5 DEF allWorkloadsReady, Enough
<1>6. ASSUME \A w \in Tracked : Deployed(w, cr) => FullyReady(w)
      PROVE  allWorkloadsReady(cr, cr.ready)
  <2> SUFFICES ASSUME NEW w \in Reported \ {"opamp"}
               PROVE  cr.ready[w] >= IF w = "tsdb" /\ ~Deployed(w, cr) THEN 0 ELSE Desired(w, cr)
    BY DEF allWorkloadsReady, Enough
  <2>1. CASE Deployed(w, cr)
    BY <1>3, <1>6, <2>1 DEF Reported
  <2>2. CASE ~Deployed(w, cr)
    BY <1>4, <2>2
  <2> QED
    BY <2>1, <2>2
<1> QED
  BY <1>5, <1>6

\* No wake-up is lost: at rest at most one kind of Node workload is left, everything
\* is in place, and the status is that of the workloads now.
THEOREM NoWakeupIsLost == Spec => []NoLostWakeup
<1>1. WorkloadsInv => NoLostWakeup
  <2> SUFFICES ASSUME WorkloadsInv, AtRest
               PROVE  InPlace /\ StatusTrue /\ cr.observed = cr.gen
    BY DEF NoLostWakeup
  <2>1. worker.pc = "idle" /\ ~queued /\ crCache = cr /\ changed = {} /\ Pending = {}
    BY DEF AtRest, Pending
  <2>2. \A w \in Tracked : Right(w, cr)
    BY <2>1 DEF WorkloadsInv, Accounted
  <2>3. InPlace
    BY <2>2 DEF InPlace, Right
  <2>4. /\ cr.observed = cr.gen
        /\ cr.phase = IF allWorkloadsReady(cr, cr.ready) THEN "Ready" ELSE "ApplyingChanges"
        /\ \A w \in Reported : cr.ready[w] = ReadyIn(objects, w)
    BY <2>1 DEF WorkloadsInv, StatusKept
  <2>5. StatusTrue
    BY <2>3, <2>4, ReadyMeansReady DEF StatusTrue, WorkloadsInv
  <2> QED
    BY <2>3, <2>4, <2>5
<1> QED
  BY <1>1, WorkloadsInvariant, PTL

\* The operator never undoes the autoscaler: the copy whose replicas it keeps is the
\* live one, or too old to be written.
THEOREM ScaleIsKept == Spec => ScaleKept
<1> DEFINE Step ==
      \A w \in Tracked :
        /\ worker.pc = "apply" /\ Turn(w) /\ Autoscaled(w, worker.snap)
        /\ worker'.pc # "apply" \/ worker'.todo # worker.todo
        /\ objects[w].there /\ objects'[w].there
        => objects'[w].replicas = objects[w].replicas
<1>1. WorkloadsInv /\ [Next]_vars => [Step]_vars
  <2> SUFFICES ASSUME WorkloadsInv, Next, NEW w \in Tracked,
                      worker.pc = "apply", Turn(w), Autoscaled(w, worker.snap),
                      worker'.pc # "apply" \/ worker'.todo # worker.todo,
                      objects[w].there, objects'[w].there
               PROVE  objects'[w].replicas = objects[w].replicas
    OBVIOUS
  <2>1. CASE Apply
    <3>1. PICK v \in Tracked :
            /\ Turn(v)
            /\ IF Deployed(v, worker.snap) THEN Ensure(v, worker.snap) ELSE Remove(v)
      BY <2>1 DEF Apply
    <3>2. CASE UNCHANGED objects
      BY <3>2
    <3>3. CASE v # w
      BY <3>1, <3>3 DEF Ensure, Remove, Write, WorkloadsInv, TypeOK
    <3>4. CASE v = w /\ Remove(w)
      BY <3>4, AbsentType DEF Remove, Write, WorkloadsInv, TypeOK
    <3>5. CASE v = w /\ Ensure(w, worker.snap)
      <4> DEFINE wanted == [cache[w] EXCEPT !.version = worker.snap.version,
                                            !.replicas = WantedReplicas(w, worker.snap)]
      <4>1. CASE cache[w].there /\ NoConflict(w) /\ Write(w, wanted)
        <5>1. cache[w] = objects[w] /\ cache[w] \in Deployments
          BY <4>1, ThereType DEF NoConflict, WorkloadsInv, Synced, TypeOK
        <5>2. objects'[w] = wanted
          BY <4>1 DEF Write, WorkloadsInv, TypeOK
        <5>3. WantedReplicas(w, worker.snap) = objects[w].replicas
          BY <5>1 DEF WantedReplicas
        <5> QED
          BY <5>1, <5>2, <5>3 DEF Deployments
      <4> QED
        BY <3>2, <3>5, <4>1 DEF Ensure
    <3> QED
      BY <3>1, <3>3, <3>4, <3>5
  <2>2. CASE StartReconcile \/ ReadReady \/ WriteStatus \/ CallFails \/ Restart
    BY <2>2 DEF StartReconcile, ReadReady, WriteStatus, CallFails, Restart, storeVars
  <2>3. CASE DeliverCR \/ \E v \in Tracked : Deliver(v) \/ PodReady(v) \/ PodStopped(v) \/ PodLost(v) \/ Scale(v)
    BY <2>3 DEF DeliverCR, Deliver, PodReady, PodStopped, PodLost, PodsChange, Scale
  <2>4. CASE SetVersion \/ SetReplicas \/ Switch
    BY <2>4 DEF SetVersion, SetReplicas, Switch, Edit, storeVars
  <2> QED
    BY <2>1, <2>2, <2>3, <2>4 DEF Next, Reconciling
<1>2. ScaleKept <=> [][Step]_vars
  BY PTL DEF ScaleKept
<1> QED
  BY <1>1, <1>2, WorkloadsInvariant, PTL DEF Spec

-----------------------------------------------------------------------------
(* The documented contract                                                 *)

\* A spec calls for the same as the CR it is part of, and what Reconcile deploys is
\* what the documentation says runs.
LEMMA SpecAsks ==
  ASSUME NEW c, NEW w \in Tracked
  PROVE  /\ Deployed(w, c) <=> w \in Documented(SpecOf(c))
         /\ Autoscaled(w, SpecOf(c)) = Autoscaled(w, c)
         /\ Desired(w, SpecOf(c)) = Desired(w, c)
         /\ SpecOf(c).version = c.version
<1>1. SpecOf(c).on = c.on /\ SpecOf(c).replicas = c.replicas /\ SpecOf(c).version = c.version
  BY DEF SpecOf
<1>2. Deployed(w, c) <=> w \in Documented(SpecOf(c))
  BY <1>1 DEF Deployed, Documented
<1> QED
  BY <1>1, <1>2 DEF Autoscaled, Desired

LEMMA SpecType ==
  ASSUME NEW c \in CR
  PROVE  SpecOf(c) \in [version : Versions, replicas : NodeReplicas, on : SUBSET Switches]
BY DEF CR, SpecOf

\* A write shows in the workload it is about.
LEMMA RunningAfter ==
  ASSUME TypeOK, NEW w \in Tracked, NEW o, Write(w, o)
  PROVE  Running' = [Running EXCEPT ![w] = Shown(o)]
<1>1. objects' = [objects EXCEPT ![w] = o]
  BY DEF Write
<1> QED
  BY <1>1 DEF Running, TypeOK

\* One write of a reconcile that works for c.
Creates(w, c) ==
  \E n \in Sizes :
    /\ Autoscaled(w, c) \/ n = Desired(w, c)
    /\ Running' = [Running EXCEPT ![w] = Contract!Made(c.version, n)]

Updates(w, c) ==
  Running' = [Running EXCEPT ![w] =
    Contract!Made(c.version, IF Autoscaled(w, c) THEN Running[w].replicas ELSE Desired(w, c))]

LEMMA EnsureContract ==
  ASSUME WorkloadsInv, NEW w \in Tracked, NEW c \in CR, Ensure(w, c)
  PROVE  \/ UNCHANGED objects
         \/ ~Running[w].there /\ Creates(w, c)
         \/ Running[w].there /\ Updates(w, c)
<1> DEFINE wanted == [cache[w] EXCEPT !.version = c.version, !.replicas = WantedReplicas(w, c)]
           created == [there |-> TRUE, version |-> c.version, ready |-> 0,
                       replicas |-> IF Autoscaled(w, c) THEN DefaultReplicas ELSE Desired(w, c)]
<1>1. CASE cache[w].there /\ NoConflict(w) /\ Write(w, wanted)
  <2>1. cache[w] = objects[w] /\ cache[w] \in Deployments
    BY <1>1, ThereType DEF NoConflict, WorkloadsInv, Synced, TypeOK
  <2>2. Running[w] = Shown(objects[w]) /\ objects[w].there
    BY <1>1, <2>1 DEF Running
  <2>3. Running[w].there /\ Running[w].replicas = objects[w].replicas
    BY <2>2 DEF Shown
  <2>4. /\ wanted.there /\ wanted.version = c.version
        /\ wanted.replicas = IF Autoscaled(w, c) THEN Running[w].replicas ELSE Desired(w, c)
    BY <2>1, <2>3, DeploymentType DEF Deployments, WantedReplicas
  <2>5. Shown(wanted) =
          Contract!Made(c.version, IF Autoscaled(w, c) THEN Running[w].replicas ELSE Desired(w, c))
    BY <2>4 DEF Shown, Contract!Made
  <2>6. Updates(w, c)
    BY <1>1, <2>5, RunningAfter DEF Updates, WorkloadsInv
  <2> QED
    BY <2>3, <2>6
<1>2. CASE ~objects[w].there /\ Write(w, created)
  <2>1. ~Running[w].there
    BY <1>2, AbsentType DEF Running, Shown
  <2>2. created.replicas \in Sizes /\ (Autoscaled(w, c) \/ created.replicas = Desired(w, c))
    BY DEF Sizes, Desired, CR, FixedReplicas, DefaultReplicas
  <2>3. Shown(created) = Contract!Made(c.version, created.replicas)
    BY DEF Shown, Contract!Made
  <2>4. Running' = [Running EXCEPT ![w] = Contract!Made(c.version, created.replicas)]
    BY <1>2, <2>3, RunningAfter DEF WorkloadsInv
  <2>5. Creates(w, c)
    BY <2>2, <2>4 DEF Creates
  <2> QED
    BY <2>1, <2>5
<1>3. CASE UNCHANGED objects
  BY <1>3
<1> QED
  BY <1>1, <1>2, <1>3 DEF Ensure

LEMMA RemoveContract ==
  ASSUME WorkloadsInv, NEW w \in Tracked, Remove(w)
  PROVE  UNCHANGED objects \/ Running' = [Running EXCEPT ![w] = Contract!Gone]
<1>1. CASE Write(w, Absent)
  <2>1. Shown(Absent) = Contract!Gone
    BY AbsentType DEF Shown, Absent, Contract!Gone
  <2> QED
    BY <1>1, <2>1, RunningAfter DEF WorkloadsInv
<1>2. CASE UNCHANGED objects
  BY <1>2
<1> QED
  BY <1>1, <1>2 DEF Remove

\* A reconcile goes on with the CR it has, or with the one in the cache when it ends.
LEMMA AdvanceStep ==
  ASSUME UNCHANGED <<cr>>, crCache' = crCache \/ crCache' = cr,
         \/ worker' = Idle
         \/ worker' = worker
         \/ worker.pc # "idle" /\ worker'.pc # "idle" /\ worker'.snap = worker.snap
         \/ worker'.pc # "idle" /\ worker'.snap = crCache'
  PROVE  Contract!Advance
<1>1. SpecOf(cr)' = SpecOf(cr) /\ (SpecOf(crCache)' = SpecOf(crCache) \/ SpecOf(crCache)' = SpecOf(cr))
  BY DEF SpecOf
<1>2. Serving' = Serving \/ Serving' = SpecOf(crCache)'
  BY IdleType DEF Serving, SpecOf
<1> QED
  BY <1>1, <1>2 DEF Contract!Advance

LEMMA ApplyRefines == ASSUME WorkloadsInv, Apply PROVE Contract!Next
<1>1. PICK w \in Tracked :
        Turn(w) /\ IF Deployed(w, worker.snap) THEN Ensure(w, worker.snap) ELSE Remove(w)
  BY DEF Apply
<1>2. worker.pc = "apply" /\ UNCHANGED <<cr, crCache, cache, edits>> /\ w \in worker.todo
  BY <1>1 DEF Apply, Turn, First
<1>3. worker.snap \in CR
  BY <1>2, BusyType DEF Busy, WorkloadsInv
<1>4. Serving = SpecOf(worker.snap)
  BY <1>2 DEF Serving
<1>5. Contract!Advance
  <2>1. worker' = Idle \/ worker' = NextCall(w)
    BY <1>1 DEF Ensure, Remove, Reply, Fail
  <2>2. worker' = Idle \/ (worker'.pc # "idle" /\ worker'.snap = worker.snap)
    BY <1>2, <2>1, NextCallType DEF WorkloadsInv, Busy
  <2> QED
    BY <1>2, <2>2, AdvanceStep
<1>6. CASE UNCHANGED objects
  <2>1. Running' = Running
    BY <1>6 DEF Running
  <2>2. Contract!Move
    BY <1>5, <2>1 DEF Contract!Move
  <2> QED
    BY <2>2 DEF Contract!Next
<1>7. CASE Deployed(w, worker.snap) /\ ~Running[w].there /\ Creates(w, worker.snap)
  <2>1. PICK n \in Sizes :
          /\ Autoscaled(w, worker.snap) \/ n = Desired(w, worker.snap)
          /\ Running' = [Running EXCEPT ![w] = Contract!Made(worker.snap.version, n)]
    BY <1>7 DEF Creates
  <2>2. Contract!Create(w, n)
    BY <1>4, <1>5, <1>7, <2>1, SpecAsks DEF Contract!Create, Contract!Replace
  <2> QED
    BY <2>2 DEF Contract!Next
<1>8. CASE Deployed(w, worker.snap) /\ Running[w].there /\ Updates(w, worker.snap)
  <2>1. Contract!Update(w)
    BY <1>4, <1>5, <1>8, SpecAsks DEF Updates, Contract!Update, Contract!Replace
  <2> QED
    BY <2>1 DEF Contract!Next
<1>9. CASE ~Deployed(w, worker.snap) /\ Running' = [Running EXCEPT ![w] = Contract!Gone]
  <2>1. Contract!Delete(w)
    BY <1>4, <1>5, <1>9, SpecAsks DEF Contract!Delete, Contract!Replace
  <2> QED
    BY <2>1 DEF Contract!Next
<1> QED
  BY <1>1, <1>3, <1>6, <1>7, <1>8, <1>9, EnsureContract, RemoveContract

\* The pods are not the contract's business, and the autoscaler scales.
LEMMA PodsRefine ==
  ASSUME WorkloadsInv, NEW w \in Tracked, PodReady(w) \/ PodStopped(w) \/ PodLost(w)
  PROVE  UNCHANGED Contract!contractVars
<1>1. PICK n : PodsChange(w, n)
  BY DEF PodReady, PodStopped, PodLost
<1>2. objects[w].there
  BY DEF PodReady, PodStopped, PodLost
<1>3. objects[w] \in Deployments
  BY <1>2, ThereType DEF WorkloadsInv, TypeOK
<1>4. Shown([objects[w] EXCEPT !.ready = n]) = Shown(objects[w])
  BY <1>3 DEF Shown, Deployments
<1>5. Running' = [Running EXCEPT ![w] = Running[w]]
  BY <1>1, <1>4, RunningAfter DEF PodsChange, WorkloadsInv, Running
<1>6. Running' = Running
  BY <1>5 DEF Running
<1> QED
  BY <1>1, <1>6 DEF PodsChange, Contract!contractVars, Serving, SpecOf

LEMMA ScaleRefines ==
  ASSUME WorkloadsInv, NEW w \in Tracked, Scale(w) PROVE Contract!Next
<1>1. PICK n \in HPAReplicas : Write(w, [objects[w] EXCEPT !.replicas = n])
  BY DEF Scale
<1>2. objects[w] \in Deployments /\ n \in Sizes
  BY ThereType DEF Scale, WorkloadsInv, TypeOK, Sizes
<1>3. Running[w] = Shown(objects[w]) /\ Running[w].there
  BY <1>2 DEF Running, Shown, Scale
<1> DEFINE scaled == [objects[w] EXCEPT !.replicas = n]
<1>4. Shown(scaled) = Contract!Made(Running[w].version, n)
  <2>1. scaled.there = TRUE /\ scaled.version = objects[w].version /\ scaled.replicas = n
    BY <1>2 DEF Deployments
  <2>2. Running[w] = [there |-> TRUE, version |-> objects[w].version, replicas |-> objects[w].replicas]
    BY <1>2, <1>3, DeploymentType DEF Shown
  <2> HIDE DEF scaled
  <2> QED
    BY <2>1, <2>2 DEF Shown, Contract!Made
<1>5. Running' = [Running EXCEPT ![w] = Contract!Made(Running[w].version, n)]
  BY <1>1, <1>4, RunningAfter DEF WorkloadsInv
<1>6. Autoscaled(w, SpecOf(cr))
  BY SpecAsks DEF Scale
<1>7. Contract!Scale(w, n)
  BY <1>3, <1>5, <1>6 DEF Contract!Scale, Contract!Replace, Scale, Serving, SpecOf
<1> QED
  BY <1>2, <1>7 DEF Contract!Next

\* Every step is one of the contract.
LEMMA StepRefines ==
  ASSUME WorkloadsInv, WorkloadsInv', Next
  PROVE  Contract!Next \/ UNCHANGED Contract!contractVars
<1>1. ASSUME UNCHANGED objects, Contract!Advance PROVE Contract!Next
  BY <1>1 DEF Contract!Next, Contract!Move, Running
<1>2. CASE Apply
  BY <1>2, ApplyRefines
<1>3. CASE StartReconcile \/ CallFails \/ Restart \/ DeliverCR
  <2>1. UNCHANGED <<cr, objects>> /\ (crCache' = crCache \/ crCache' = cr)
    BY <1>3 DEF StartReconcile, CallFails, Restart, DeliverCR, storeVars
  <2>2. worker' = Idle \/ worker' = worker \/ (worker'.pc # "idle" /\ worker'.snap = crCache')
    BY <1>3 DEF StartReconcile, CallFails, Restart, DeliverCR, Fail
  <2> QED
    BY <1>1, <2>1, <2>2, AdvanceStep
<1>4. CASE ReadReady
  <2>1. PICK w \in Reported :
          /\ First(w, ReadOrder)
          /\ worker' = [worker EXCEPT !.ready[w] = Count(w), !.todo = @ \ {w},
                          !.pc = IF worker.todo = {w} THEN "status" ELSE "read"]
    BY <1>4 DEF ReadReady
  <2>2. worker.pc = "read" /\ worker \in Busy /\ UNCHANGED <<cr, crCache, objects>>
    BY <1>4, BusyType DEF ReadReady, WorkloadsInv, storeVars
  <2> DEFINE count == Count(w)
             pc == IF worker.todo = {w} THEN "status" ELSE "read"
  <2>3. worker' = [worker EXCEPT !.ready[w] = count, !.todo = worker.todo \ {w}, !.pc = pc] /\ pc # "idle"
    BY <2>1
  <2> HIDE DEF count, pc
  <2>4. worker'.pc # "idle" /\ worker'.snap = worker.snap
    BY <2>2, <2>3 DEF Busy
  <2> QED
    BY <1>1, <2>2, <2>4, AdvanceStep
<1>5. CASE WriteStatus
  <2>1. UNCHANGED <<crCache, objects>> /\ worker' = Idle
    BY <1>5 DEF WriteStatus, storeVars, Reply, Fail
  <2>2. SpecOf(cr)' = SpecOf(cr)
    <3> DEFINE phase == IF allWorkloadsReady(worker.snap, worker.ready) THEN "Ready"
                        ELSE "ApplyingChanges"
    <3>1. cr \in CR
      BY DEF WorkloadsInv, TypeOK
    <3>2. \/ cr' = cr
          \/ cr' = [cr EXCEPT !.ready = worker.ready, !.observed = worker.snap.gen, !.phase = phase]
      BY <1>5 DEF WriteStatus
    <3> HIDE DEF phase
    <3> QED
      BY <3>1, <3>2 DEF SpecOf, CR
  <2>3. Contract!Advance
    BY <2>1, <2>2, IdleType DEF Contract!Advance, Serving, SpecOf
  <2> QED
    BY <1>1, <2>1, <2>3
<1>6. ASSUME NEW w \in Tracked, Deliver(w) PROVE UNCHANGED Contract!contractVars
  BY <1>6 DEF Deliver, Contract!contractVars, Serving, SpecOf, Running
<1>7. ASSUME NEW c \in CR, Edit(c) PROVE Contract!Next
  <2>1. SpecOf(cr)' = SpecOf(c)
    BY <1>7 DEF Edit, SpecOf, CR
  <2>2. UNCHANGED <<Serving, SpecOf(crCache), Running>>
    <3>1. UNCHANGED <<crCache, objects>> /\ worker'.pc = worker.pc
      BY <1>7, BusyType, IdleType DEF Edit, storeVars, WorkloadsInv, Busy
    <3>2. worker.pc # "idle" => worker'.snap = worker.snap
      BY <1>7, BusyType DEF Edit, WorkloadsInv, Busy
    <3> QED
      BY <3>1, <3>2 DEF Serving, SpecOf, Running
  <2>3. Contract!Ask(SpecOf(c))
    BY <2>1, <2>2 DEF Contract!Ask
  <2> QED
    BY <2>3, SpecType DEF Contract!Next
<1>8. CASE SetVersion \/ SetReplicas \/ Switch
  <2>1. cr \in CR
    BY DEF WorkloadsInv, TypeOK
  <2>2. PICK c \in CR : Edit(c)
    <3>1. CASE SetVersion
      BY <2>1, <3>1 DEF SetVersion, CR
    <3>2. CASE SetReplicas
      BY <2>1, <3>2 DEF SetReplicas, CR
    <3>3. CASE Switch
      <4>1. PICK s \in Switches : Edit([cr EXCEPT !.on = IF s \in cr.on THEN cr.on \ {s} ELSE cr.on \cup {s}])
        BY <3>3 DEF Switch
      <4> QED
        BY <2>1, <4>1 DEF CR
    <3> QED
      BY <1>8, <3>1, <3>2, <3>3
  <2> QED
    BY <1>7, <2>2
<1> QED
  BY <1>2, <1>3, <1>4, <1>5, <1>6, <1>8, PodsRefine, ScaleRefines DEF Next, Reconciling

\* The workloads follow the specs as documented: the operator implements the contract.
THEOREM WorkloadsImplementContract == Spec => KeepsContract
<1>1. Init => Contract!Init
  <2> SUFFICES ASSUME Init PROVE Contract!Init
    OBVIOUS
  <2>1. SpecOf(cr) \in [version : Versions, replicas : NodeReplicas, on : SUBSET Switches]
    BY WorkloadsAssumption DEF Init, SpecOf
  <2>2. Serving = SpecOf(cr) /\ SpecOf(crCache) = SpecOf(cr)
    BY IdleType DEF Init, Serving
  <2>3. Running = [w \in Tracked |-> Contract!Gone]
    BY AbsentType DEF Init, Running, Shown, Absent, Contract!Gone
  <2> QED
    BY <2>1, <2>2, <2>3 DEF Contract!Init
<1>2. WorkloadsInv /\ WorkloadsInv' /\ [Next]_vars => [Contract!Next]_(Contract!contractVars)
  <2> SUFFICES ASSUME WorkloadsInv, WorkloadsInv', [Next]_vars
               PROVE  [Contract!Next]_(Contract!contractVars)
    OBVIOUS
  <2>1. CASE Next
    BY <2>1, StepRefines
  <2>2. CASE UNCHANGED vars
    BY <2>2 DEF vars, storeVars, Contract!contractVars, Serving, SpecOf, Running
  <2> QED
    BY <2>1, <2>2
<1> QED
  BY <1>1, <1>2, WorkloadsInvariant, PTL DEF Spec, KeepsContract, Contract!Spec
=============================================================================
