---------------------------- MODULE BackingProofs ----------------------------
(***************************************************************************)
(* Proofs about the Certificates, the generated Secrets and the TSDB's     *)
(* objects, for every choice of tracked objects and options and every      *)
(* bound.                                                                  *)
(***************************************************************************)
EXTENDS Backing, SequenceTheorems, TLAPS

-----------------------------------------------------------------------------
(* The inductive invariant                                                 *)

\* An object has data if and only if it is there.
Formed(o) == o = Absent \/ o = Object(o.data)

Shapes == \A i \in Tracked : Formed(objects[i]) /\ Formed(cache[i])

\* The cache is right about every object it has been told all about.
Synced == \A i \in Tracked \ changed : cache[i] = objects[i]

\* Without a remote TSDB the Secret comes before the ConfigMap computed from it.
SecretFirst ==
  worker.pc = "apply" /\ ~Remote(Snap) /\ "webConfig" \in Tracked /\ "basicAuth" \in worker.todo
    => "webConfig" \in worker.todo

\* Those the reconcile in progress, or else the last one, is done with.
Done == IF worker.pc = "idle" THEN Tracked ELSE Tracked \ worker.todo

\* Object i is right for c, or it has been looked at through an outdated copy and,
\* where it is watched, will wake the operator for that.
Settled(i, c) ==
  /\ ~(Wants(i, c) /\ Refused(i, c))
  /\ i \in changed \cap Watched \/ i \in blind \/ AsAskedBy(i, c)

\* With nothing in the queue the reconcile is about the cached CR.
Accounted ==
  ~queued =>
    /\ worker.pc = "apply" => worker.snap = crCache
    /\ \A i \in Done : Settled(i, specs[crCache])

BackingInv == TypeOK /\ Shapes /\ Synced /\ SecretFirst /\ Accounted

-----------------------------------------------------------------------------
(* Objects, the worker and replies                                         *)

LEMMA ObjectFields ==
  /\ Formed(Absent) /\ Absent.there = FALSE
  /\ \A d : Formed(Object(d)) /\ Object(d).there = TRUE /\ Object(d).data = d
BY DEF Formed, Absent, Object

LEMMA WorkerTypes ==
  ASSUME BackingInv, worker.pc = "apply"
  PROVE  /\ worker \in [pc : {"apply"}, snap : Nat \ {0}, todo : (SUBSET Tracked) \ {{}}]
         /\ worker.snap \in 1..crCache /\ worker.todo \subseteq Tracked
         /\ Snap \in CR
<1>1. worker \in [pc : {"apply"}, snap : Nat \ {0}, todo : (SUBSET Tracked) \ {{}}]
  BY DEF BackingInv, TypeOK, Worker, Idle
<1>2. worker.snap \in 1..crCache /\ crCache \in 1..Len(specs) /\ specs \in Seq(CR)
  BY <1>1 DEF BackingInv, TypeOK
<1>3. worker.snap \in 1..Len(specs)
  BY <1>2
<1>4. Snap \in CR
  BY <1>2, <1>3 DEF Snap
<1> QED
  BY <1>1, <1>2, <1>4

LEMMA IdleType == Idle \in Worker /\ Idle.pc = "idle"
BY DEF Idle, Worker

\* The worker goes on with what is left of this reconcile, or is done.
LEMMA NextStepType ==
  ASSUME BackingInv, worker.pc = "apply", NEW i \in worker.todo
  PROVE  /\ NextStep(i) \in Worker
         /\ \/ worker.todo = {i} /\ NextStep(i) = Idle
            \/ /\ NextStep(i).pc = "apply" /\ NextStep(i).snap = worker.snap
               /\ NextStep(i).todo = worker.todo \ {i}
<1>1. worker \in [pc : {"apply"}, snap : Nat \ {0}, todo : (SUBSET Tracked) \ {{}}]
  BY WorkerTypes
<1>2. CASE worker.todo = {i}
  BY <1>2, IdleType DEF NextStep
<1>3. CASE worker.todo # {i}
  <2>1. worker.todo \ {i} \in (SUBSET Tracked) \ {{}}
    BY <1>1, <1>3
  <2>2. NextStep(i) = [worker EXCEPT !.todo = worker.todo \ {i}]
    BY <1>3 DEF NextStep
  <2>3. /\ NextStep(i) \in [pc : {"apply"}, snap : Nat \ {0}, todo : (SUBSET Tracked) \ {{}}]
        /\ NextStep(i).snap = worker.snap /\ NextStep(i).todo = worker.todo \ {i}
    BY <1>1, <2>1, <2>2
  <2> QED
    BY <2>3 DEF Worker
<1> QED
  BY <1>2, <1>3

LEMMA ReplyType ==
  ASSUME TypeOK, NEW next, Reply(next)
  PROVE  /\ queued' \in BOOLEAN /\ faults' \in 0..MaxFaults
         /\ \/ worker' = next /\ queued' = queued
            \/ worker' = Idle /\ queued' = TRUE
<1>1. CASE worker' = next /\ UNCHANGED <<queued, faults>>
  BY <1>1 DEF TypeOK
<1>2. CASE faults < MaxFaults /\ faults' = faults + 1 /\ Fail
  <2>1. faults' \in 0..MaxFaults
    BY <1>2, BackingAssumption DEF TypeOK
  <2> QED
    BY <1>2, <2>1 DEF Fail
<1> QED
  BY <1>1, <1>2 DEF Reply

\* In every order the Secret comes before the ConfigMap, or the TSDB is remote.
LEMMA OrderOK ==
  ASSUME Turn("webConfig"), ~Remote(Snap)
  PROVE  "basicAuth" \notin worker.todo
<1>1. Order(Snap) = <<"serverCert", "probeCert", "clientCert", "natsCert", "agentCert",
                      "sessionSecret", "statusSecret", "basicAuth", "webConfig", "tsdbAccount",
                      "tsdb", "tsdbService", "node">>
  BY DEF Order
<1>2. DOMAIN Order(Snap) = 1..13 /\ Order(Snap)[8] = "basicAuth"
  BY <1>1
<1>3. \A p \in 1..13 : Order(Snap)[p] = "webConfig" => p = 9
  BY <1>1
<1>4. PICK p \in 1..13 : /\ Order(Snap)[p] = "webConfig"
                         /\ \A q \in 1..(p - 1) : Order(Snap)[q] \notin worker.todo
  BY <1>2 DEF Turn
<1>5. p = 9 /\ 8 \in 1..(p - 1)
  BY <1>3, <1>4
<1> QED
  BY <1>2, <1>4, <1>5

-----------------------------------------------------------------------------
(* A decision about one object                                             *)

\* What a step on object i may do, when it works for c.
StepOn(i, c) ==
  /\ \/ UNCHANGED <<objects, changed>>
     \/ /\ changed' = changed \cup {i}
        /\ \E o : Formed(o) /\ objects' = [objects EXCEPT ![i] = o]
  /\ blind' \cup {i} = blind \cup {i}
  /\ drawn' \in Nat /\ queued' \in BOOLEAN /\ faults' \in 0..MaxFaults
  /\ \/ worker' = Idle /\ queued' = TRUE
     \/ worker' = NextStep(i) /\ queued' = queued /\ Settled(i, c)'

\* What is looked at through copies that are not outdated is not noted.
LEMMA NotBlind ==
  ASSUME NEW i, Note(i)
  PROVE  /\ blind' \cup {i} = blind \cup {i}
         /\ i \in Unwatched /\ i \notin blind' => \A j \in Reads(i) : cache[j] = objects[j]
BY DEF Note

LEMMA RejectStep ==
  ASSUME TypeOK, Reject, NEW i, NEW c PROVE StepOn(i, c)
BY DEF Reject, Fail, StepOn, TypeOK

\* A step that changes nothing but the note, with a decision that stands.
LEMMA SkipStep ==
  ASSUME BackingInv, NEW i \in Tracked, NEW c, Skip(i), ~(Wants(i, c) /\ Refused(i, c)),
         i \in changed \cap Watched \/ i \in blind' \/ AsAskedBy(i, c)
  PROVE  StepOn(i, c)
<1>1. i \in changed' \cap Watched \/ i \in blind' \/ AsAskedBy(i, c)'
  BY DEF Skip, AsAskedBy
<1> QED
  BY <1>1, NotBlind DEF Skip, StepOn, Settled, BackingInv, TypeOK

\* A step that writes an object as it should be.
LEMMA WriteStep ==
  ASSUME BackingInv, NEW i \in Tracked, NEW c, NEW o, Formed(o), Write(i, o), Note(i),
         Reply(NextStep(i)), drawn' \in Nat, ~(Wants(i, c) /\ Refused(i, c)),
         i \in Watched \/ i \in blind' \/ AsAskedBy(i, c)'
  PROVE  StepOn(i, c)
<1>1. i \in changed' /\ changed' = changed \cup {i} /\ objects' = [objects EXCEPT ![i] = o]
  BY DEF Write
<1>2. /\ queued' \in BOOLEAN /\ faults' \in 0..MaxFaults
      /\ \/ worker' = NextStep(i) /\ queued' = queued
         \/ worker' = Idle /\ queued' = TRUE
  BY ReplyType DEF BackingInv
<1>3. Settled(i, c)'
  BY <1>1 DEF Settled
<1> QED
  BY <1>1, <1>2, <1>3, NotBlind DEF StepOn

\* What is there after a write.
LEMMA WrittenObject ==
  ASSUME BackingInv, NEW i \in Tracked, NEW o, Write(i, o)
  PROVE  /\ objects'[i] = o
         /\ \A j \in Tracked \ {i} : objects'[j] = objects[j]
BY DEF Write, BackingInv, TypeOK

LEMMA SecretStep ==
  ASSUME BackingInv, NEW i \in Tracked, NEW c, Wants(i, c), ~Refused(i, c),
         i \in GeneratedSecrets, EnsureSecret(i)
  PROVE  StepOn(i, c)
<1>0. i \in Unwatched /\ i \notin Certificates /\ i # "webConfig" /\ i \notin Workloads /\ i \in Reads(i)
  BY DEF GeneratedSecrets, Unwatched, Certificates, Workloads, Reads
<1>1. CASE cache[i].there /\ Skip(i)
  <2>1. i \notin blind' => cache[i] = objects[i]
    BY <1>0, <1>1, NotBlind DEF Skip
  <2>2. i \in blind' \/ AsAskedBy(i, c)
    BY <1>0, <1>1, <2>1 DEF AsAskedBy
  <2> QED
    BY <1>1, <2>2, SkipStep
<1>2. CASE Write(i, Object(drawn + 1)) /\ Note(i) /\ drawn' = drawn + 1 /\ Reply(NextStep(i))
  <2>1. objects'[i].there
    BY <1>2, WrittenObject, ObjectFields
  <2>2. AsAskedBy(i, c)'
    BY <1>0, <2>1 DEF AsAskedBy
  <2>3. drawn' \in Nat
    BY <1>2 DEF BackingInv, TypeOK
  <2> QED
    BY <1>2, <2>2, <2>3, ObjectFields, WriteStep
<1>3. CASE Reject
  BY <1>3, RejectStep DEF BackingInv
<1> QED
  BY <1>1, <1>2, <1>3 DEF EnsureSecret

\* The data a step writes are what c asks for, if they come from a current copy.
LEMMA DataOK ==
  ASSUME BackingInv, NEW i \in Tracked, NEW c, Wants(i, c), objects'[i] = Object(Data(i, c)),
         i = "webConfig" => cache["basicAuth"] = objects'["basicAuth"]
  PROVE  AsAskedBy(i, c)'
<1>1. objects'[i].there /\ objects'[i].data = Data(i, c)
  BY ObjectFields
<1> QED
  BY <1>1 DEF AsAskedBy, Data, Certificates, Workloads

LEMMA EnsureStep ==
  ASSUME BackingInv, NEW i \in Tracked, NEW c, Wants(i, c), ~Refused(i, c), Ensure(i, c)
  PROVE  StepOn(i, c)
<1>0. /\ i \in Unwatched \/ i \in Watched
      /\ i \in Reads(i)
      /\ i = "webConfig" => "basicAuth" \in Reads(i) /\ "basicAuth" \in Tracked /\ i \in Unwatched
  BY BackingAssumption DEF Unwatched, Reads
<1> DEFINE o == Object(Data(i, c))
<1>1. CASE Write(i, o) /\ Note(i) /\ UNCHANGED drawn /\ Reply(NextStep(i))
  <2>1. objects'[i] = o /\ \A j \in Tracked \ {i} : objects'[j] = objects[j]
    BY <1>1, WrittenObject
  <2>2. i \in Watched \/ i \in blind' \/ AsAskedBy(i, c)'
    <3> SUFFICES ASSUME i \notin Watched, i \notin blind' PROVE AsAskedBy(i, c)'
      OBVIOUS
    <3>1. i = "webConfig" => cache["basicAuth"] = objects'["basicAuth"]
      BY <1>0, <1>1, <2>1, NotBlind
    <3> QED
      BY <2>1, <3>1, DataOK
  <2>3. drawn' \in Nat
    BY <1>1 DEF BackingInv, TypeOK
  <2> QED
    BY <1>1, <2>2, <2>3, ObjectFields, WriteStep
<1>2. CASE cache[i].there /\ UpToDate(i, cache[i].data, Data(i, c)) /\ Skip(i)
  <2>1. i \in changed \cap Watched \/ i \in blind' \/ AsAskedBy(i, c)
    <3> SUFFICES ASSUME i \notin changed \cap Watched, i \notin blind' PROVE AsAskedBy(i, c)
      OBVIOUS
    <3>1. cache[i] = objects[i]
      BY <1>0, <1>2, NotBlind DEF Skip, BackingInv, Synced
    <3>2. i = "webConfig" => cache["basicAuth"] = objects["basicAuth"]
      BY <1>0, <1>2, NotBlind DEF Skip
    <3>3. objects[i].there /\ objects[i].data = Data(i, c)
      BY <1>2, <3>1 DEF UpToDate
    <3> QED
      BY <3>2, <3>3 DEF AsAskedBy, Data, Certificates, Workloads
  <2> QED
    BY <1>2, <2>1, SkipStep
<1>3. CASE Reject
  BY <1>3, RejectStep DEF BackingInv
<1> QED
  BY <1>1, <1>2, <1>3 DEF Ensure

LEMMA RemoveStep ==
  ASSUME BackingInv, NEW i \in Tracked, NEW c, ~Wants(i, c), Remove(i)
  PROVE  StepOn(i, c)
<1>1. CASE ~MustGo(i) /\ Skip(i)
  <2>1. i \in changed \cap Watched \/ i \in blind' \/ AsAskedBy(i, c)
    <3> SUFFICES ASSUME i \notin changed \cap Watched, i \notin blind' PROVE AsAskedBy(i, c)
      OBVIOUS
    <3>1. cache[i] = objects[i]
      BY <1>1, NotBlind, BackingAssumption DEF Skip, BackingInv, Synced, Reads
    <3> QED
      BY <1>1, <3>1 DEF MustGo, AsAskedBy
  <2> QED
    BY <1>1, <2>1, SkipStep
<1>2. CASE Write(i, Absent) /\ Note(i) /\ UNCHANGED drawn /\ Reply(NextStep(i))
  <2>1. objects'[i] = Absent
    BY <1>2, WrittenObject
  <2>2. AsAskedBy(i, c)'
    BY <2>1, ObjectFields DEF AsAskedBy
  <2>3. drawn' \in Nat
    BY <1>2 DEF BackingInv, TypeOK
  <2> QED
    BY <1>2, <2>2, <2>3, ObjectFields, WriteStep
<1>3. CASE Reject
  BY <1>3, RejectStep DEF BackingInv
<1> QED
  BY <1>1, <1>2, <1>3 DEF Remove

\* An object that is left alone when it is not wanted.
LEMMA LeaveStep ==
  ASSUME BackingInv, NEW i \in Tracked, NEW c, ~Wants(i, c), i \notin Deletable, Skip(i)
  PROVE  StepOn(i, c)
<1>1. i \notin Certificates /\ i # "webConfig" /\ i \notin Workloads
  BY DEF Deletable, LocalTSDB, Workloads, Wants, Certificates
<1> QED
  BY <1>1, SkipStep DEF AsAskedBy

LEMMA ApplyStep ==
  ASSUME BackingInv, Apply, NEW c, c = Snap
  PROVE  /\ worker.pc = "apply" /\ UNCHANGED <<crVars, cache, podVars>>
         /\ \E i \in Tracked : Turn(i) /\ StepOn(i, c)
<1>1. PICK i \in Tracked :
        /\ Turn(i)
        /\ IF Wants(i, c)
           THEN IF Refused(i, c) \/ NoSource(i) THEN Reject
                ELSE IF i \in GeneratedSecrets THEN EnsureSecret(i) ELSE Ensure(i, c)
           ELSE IF i \in Deletable THEN Remove(i) ELSE Skip(i)
  BY DEF Apply
<1>2. StepOn(i, c)
  BY <1>1, RejectStep, SecretStep, EnsureStep, RemoveStep, LeaveStep DEF BackingInv
<1> QED
  BY <1>1, <1>2 DEF Apply

-----------------------------------------------------------------------------
(* Every step keeps the invariant                                          *)

\* What a decision about i leaves standing of one about j.
LEMMA OthersStand ==
  ASSUME BackingInv, worker.pc = "apply", NEW c, c = Snap, NEW i \in Tracked, Turn(i), StepOn(i, c),
         NEW j \in Tracked \ worker.todo, Settled(j, c)
  PROVE  Settled(j, c)'
<1>1. i \in worker.todo /\ i # j
  BY DEF Turn
<1>2. /\ objects'[j] = objects[j]
      /\ j \in changed => j \in changed'
      /\ j \in blind => j \in blind'
  BY <1>1 DEF StepOn, BackingInv, TypeOK
<1>3. ASSUME AsAskedBy(j, c) PROVE AsAskedBy(j, c)'
  <2>1. CASE j # "webConfig" \/ objects'["basicAuth"] = objects["basicAuth"]
    BY <1>2, <1>3, <2>1 DEF AsAskedBy
  <2>2. CASE j = "webConfig" /\ objects'["basicAuth"] # objects["basicAuth"]
    <3>1. i = "basicAuth"
      BY <2>2, BackingAssumption DEF StepOn, BackingInv, TypeOK
    <3>2. Remote(c)
      BY <1>1, <2>2, <3>1 DEF BackingInv, SecretFirst
    <3>3. ~Wants(j, c) /\ j \in Deletable
      BY <2>2, <3>2 DEF Wants, Deletable, LocalTSDB
    <3>4. ~objects'[j].there
      BY <1>2, <1>3, <3>3 DEF AsAskedBy
    <3> QED
      BY <3>3, <3>4 DEF AsAskedBy
  <2> QED
    BY <2>1, <2>2
<1> QED
  BY <1>2, <1>3 DEF Settled

LEMMA ApplyKeepsInv == ASSUME BackingInv, Apply PROVE BackingInv'
<1> USE DEF BackingInv
<1>0. PICK c : c = Snap
  OBVIOUS
<1>1. worker.pc = "apply" /\ UNCHANGED <<crVars, cache, podVars>>
  BY <1>0, ApplyStep
<1>2. PICK i \in Tracked : Turn(i) /\ StepOn(i, c)
  BY <1>0, ApplyStep
<1>3. /\ i \in worker.todo /\ worker.todo \subseteq Tracked
      /\ worker.snap \in 1..crCache /\ worker.snap \in Nat \ {0}
  BY <1>1, <1>2, WorkerTypes DEF Turn
<1>4. /\ worker' \in Worker
      /\ \/ worker' = Idle
         \/ /\ worker'.pc = "apply" /\ worker'.snap = worker.snap
            /\ worker'.todo = worker.todo \ {i}
  BY <1>1, <1>2, <1>3, NextStepType, IdleType DEF StepOn
<1>5. /\ DOMAIN objects' = Tracked /\ changed' \subseteq Tracked /\ blind' \subseteq Tracked
      /\ \A j \in Tracked : j # i => objects'[j] = objects[j]
      /\ Formed(objects'[i])
      /\ changed' \cup {i} = changed \cup {i}
      /\ i \in changed' \/ (objects'[i] = objects[i] /\ changed' = changed)
  BY <1>2, <1>3 DEF StepOn, TypeOK, Shapes
<1>6. TypeOK'
  <2>1. worker'.pc = "apply" => worker'.snap <= crCache
    BY <1>3, <1>4, IdleType DEF TypeOK
  <2>2. drawn' \in Nat /\ queued' \in BOOLEAN /\ faults' \in 0..MaxFaults
    BY <1>2 DEF StepOn
  <2> QED
    BY <1>1, <1>4, <1>5, <2>1, <2>2 DEF TypeOK, crVars, podVars
<1>7. Shapes' /\ Synced'
  BY <1>1, <1>5 DEF Shapes, Synced
<1>8. SecretFirst'
  <2> SUFFICES ASSUME worker'.pc = "apply", ~Remote(Snap'), "webConfig" \in Tracked,
                      "basicAuth" \in worker'.todo
               PROVE  "webConfig" \in worker'.todo
    BY DEF SecretFirst
  <2>1. worker'.snap = worker.snap /\ worker'.todo = worker.todo \ {i}
    BY <1>4, IdleType
  <2>2. Snap' = Snap
    BY <1>1, <2>1 DEF Snap, crVars
  <2>3. "webConfig" \in worker.todo
    BY <1>1, <2>1, <2>2 DEF SecretFirst
  <2>4. i # "webConfig"
    BY <1>2, <2>1, <2>2, OrderOK
  <2> QED
    BY <2>1, <2>3, <2>4
<1>9. ASSUME ~queued' PROVE Accounted'
  <2>1. worker' = NextStep(i) /\ queued' = queued /\ Settled(i, c)'
    BY <1>2, <1>9 DEF StepOn
  <2>2. ~queued /\ worker.snap = crCache
    BY <1>1, <1>9, <2>1 DEF Accounted
  <2>3. c = specs[crCache] /\ specs' = specs /\ crCache' = crCache
    BY <1>0, <1>1, <2>2 DEF Snap, crVars
  <2>4. \A j \in Tracked \ worker.todo : Settled(j, c)
    BY <1>1, <2>2, <2>3 DEF Accounted, Done
  <2>5. \A j \in Tracked \ worker.todo : Settled(j, c)'
    BY <1>0, <1>1, <1>2, <2>4, OthersStand
  <2>6. Done' = (Tracked \ worker.todo) \cup {i} /\ (worker'.pc = "apply" => worker'.snap = worker.snap)
    BY <1>1, <1>3, <2>1, NextStepType, IdleType DEF Done
  <2>7. \A j \in Done' : Settled(j, c)'
    BY <2>1, <2>5, <2>6
  <2> QED
    BY <2>2, <2>3, <2>6, <2>7 DEF Accounted
<1> QED
  BY <1>6, <1>7, <1>8, <1>9 DEF Accounted

\* A step that leaves objects, copies and the CR alone, and ends the attempt or not.
LEMMA QuietStep ==
  ASSUME BackingInv, UNCHANGED <<crVars, storeVars, blind, drawn>>,
         \/ worker' = Idle /\ queued' = TRUE
         \/ worker' = worker /\ queued' = queued
         \/ worker' = worker /\ queued' = TRUE,
         issued' \subseteq Certificates, DOMAIN pods' = Workloads \cap Tracked,
         faults' \in 0..MaxFaults
  PROVE  BackingInv'
<1> USE DEF BackingInv, crVars, storeVars
<1>1. TypeOK'
  <2>1. CASE worker' = Idle /\ queued' = TRUE
    BY <2>1, IdleType DEF TypeOK
  <2>2. CASE worker' = worker /\ queued' = queued
    BY <2>2 DEF TypeOK
  <2>3. CASE worker' = worker /\ queued' = TRUE
    BY <2>3 DEF TypeOK
  <2> QED
    BY <2>1, <2>2, <2>3
<1>2. Shapes' /\ Synced' /\ SecretFirst'
  BY IdleType DEF Shapes, Synced, SecretFirst, Snap
<1>3. ASSUME ~queued' PROVE Accounted'
  <2>1. worker' = worker /\ queued' = queued
    BY <1>3
  <2>2. ~queued
    BY <1>3, <2>1
  <2> QED
    BY <2>1, <2>2 DEF Accounted, Done, Settled, AsAskedBy
<1> QED
  BY <1>1, <1>2, <1>3 DEF Accounted

LEMMA FaultType == ASSUME TypeOK, faults < MaxFaults, faults' = faults + 1 PROVE faults' \in 0..MaxFaults
BY BackingAssumption DEF TypeOK

LEMMA WorkerKeepsInv ==
  ASSUME BackingInv, StartReconcile \/ CallFails \/ Restart
  PROVE  BackingInv'
<1> USE DEF BackingInv
<1>1. CASE StartReconcile
  <2>1. /\ worker' = [pc |-> "apply", snap |-> crCache, todo |-> Tracked] /\ queued' = FALSE
        /\ UNCHANGED <<crVars, storeVars, blind, podVars, drawn, faults>>
    BY <1>1 DEF StartReconcile
  <2>2. crCache \in Nat \ {0} /\ Tracked \in (SUBSET Tracked) \ {{}}
    BY BackingAssumption DEF TypeOK
  <2>3. worker' \in Worker /\ worker'.pc = "apply" /\ worker'.snap = crCache /\ worker'.todo = Tracked
    BY <2>1, <2>2 DEF Worker
  <2>4. TypeOK'
    <3>1. queued' \in BOOLEAN
      BY <2>1
    <3>2. worker'.snap <= crCache'
      BY <2>1, <2>2, <2>3 DEF crVars
    <3> QED
      BY <2>1, <2>3, <3>1, <3>2 DEF TypeOK, crVars, storeVars, podVars
  <2>5. Shapes' /\ Synced' /\ SecretFirst'
    BY <2>1, <2>3 DEF Shapes, Synced, SecretFirst, storeVars
  <2>6. Accounted'
    BY <2>1, <2>3 DEF Accounted, Done, crVars
  <2> QED
    BY <2>4, <2>5, <2>6
<1>2. CASE CallFails
  <2>1. faults' \in 0..MaxFaults
    BY <1>2, FaultType DEF CallFails
  <2> QED
    BY <1>2, <2>1, QuietStep DEF CallFails, Fail, TypeOK, podVars
<1>3. CASE Restart
  <2>1. faults' \in 0..MaxFaults
    BY <1>3, FaultType DEF Restart
  <2>2. worker' = Idle /\ queued' = TRUE /\ specs' = specs /\ crCache' = Len(specs)
    BY <1>3 DEF Restart, Fail
  <2>3. TypeOK'
    BY <1>3, <2>1, <2>2, IdleType DEF Restart, TypeOK, podVars
  <2>4. Shapes' /\ Synced' /\ SecretFirst' /\ Accounted'
    BY <1>3, <2>2, IdleType DEF Restart, Shapes, Synced, SecretFirst, Accounted
  <2> QED
    BY <2>3, <2>4
<1> QED
  BY <1>1, <1>2, <1>3

\* The informers, the cluster and the user.
LEMMA EnvironmentKeepsInv ==
  ASSUME BackingInv,
         \/ DeliverCR \/ Resync
         \/ \E i \in Tracked : Deliver(i) \/ Issue(i)
         \/ \E w \in Workloads \cap Tracked : PodStarts(w) \/ PodStops(w) \/ PodLost(w)
         \/ \E s \in Switches : Switch(s)
  PROVE  BackingInv'
<1> USE DEF BackingInv
<1>1. CASE DeliverCR
  <2>1. crCache' = Len(specs) /\ queued' = TRUE /\ crCache < crCache'
        /\ UNCHANGED <<specs, storeVars, blind, podVars, drawn, worker, faults>>
    BY <1>1 DEF DeliverCR
  <2>2. TypeOK'
    <3>1. specs \in Seq(CR) /\ crCache \in 1..Len(specs) /\ crCache' \in 1..Len(specs)
      BY <2>1 DEF TypeOK
    <3>2. worker'.pc = "apply" => worker'.snap <= crCache'
      <4> SUFFICES ASSUME worker.pc = "apply" PROVE worker.snap <= crCache'
        BY <2>1
      <4>1. worker.snap \in Nat /\ worker.snap <= crCache
        BY WorkerTypes
      <4> QED
        BY <2>1, <3>1, <4>1
    <3> QED
      BY <2>1, <3>1, <3>2 DEF TypeOK, storeVars, podVars
  <2>3. Shapes' /\ Synced' /\ SecretFirst' /\ Accounted'
    BY <2>1 DEF Shapes, Synced, SecretFirst, Snap, Accounted, storeVars
  <2> QED
    BY <2>2, <2>3
<1>2. CASE Resync
  BY <1>2, QuietStep DEF Resync, TypeOK, podVars
<1>3. ASSUME NEW i \in Tracked, Deliver(i) PROVE BackingInv'
  <2>1. /\ i \in changed /\ changed' = changed \ {i} /\ cache' = [cache EXCEPT ![i] = objects[i]]
        /\ queued' = (queued \/ i \in Watched)
        /\ UNCHANGED <<crVars, objects, blind, podVars, drawn, worker, faults>>
    BY <1>3 DEF Deliver, Wakes
  <2>2. TypeOK'
    <3>1. queued' \in BOOLEAN
      BY <2>1
    <3> QED
      BY <2>1, <3>1 DEF TypeOK, crVars, podVars
  <2>3. Shapes' /\ Synced' /\ SecretFirst'
    BY <2>1 DEF TypeOK, Shapes, Synced, SecretFirst, Snap, crVars
  <2>4. ASSUME ~queued' PROVE Accounted'
    <3>1. ~queued /\ i \notin Watched
      BY <2>1, <2>4
    <3>2. ASSUME NEW j \in Done PROVE Settled(j, specs[crCache])'
      <4>1. Settled(j, specs[crCache])
        BY <3>1, <3>2 DEF Accounted
      <4> QED
        BY <2>1, <3>1, <4>1 DEF Settled, AsAskedBy, crVars
    <3> QED
      BY <2>1, <3>1, <3>2 DEF Accounted, Done, crVars
  <2> QED
    BY <2>2, <2>3, <2>4 DEF Accounted
<1>4. ASSUME NEW i \in Tracked, Issue(i) PROVE BackingInv'
  BY <1>4, QuietStep DEF Issue, TypeOK
<1>5. ASSUME NEW w \in Workloads \cap Tracked, PodStarts(w) \/ PodStops(w) \/ PodLost(w)
      PROVE  BackingInv'
  <2>1. faults' \in 0..MaxFaults
    BY <1>5, FaultType DEF PodStarts, PodStops, PodLost, TypeOK
  <2>2. DOMAIN pods' = Workloads \cap Tracked
    BY <1>5 DEF PodStarts, PodStops, PodLost, TypeOK
  <2>3. /\ UNCHANGED <<crVars, storeVars, blind, drawn>> /\ worker' = worker /\ queued' = queued
        /\ issued' \subseteq Certificates
    BY <1>5 DEF PodStarts, PodStops, PodLost, TypeOK
  <2> QED
    BY <2>1, <2>2, <2>3, QuietStep
<1>6. ASSUME NEW s \in Switches, Switch(s) PROVE BackingInv'
  <2>0. Live \in CR
    BY DEF TypeOK, Live
  <2>1. PICK c \in CR : Edit(c)
    BY <1>6, <2>0 DEF Switch, CR
  <2>2. /\ Len(specs) <= MaxEdits /\ specs' = Append(specs, c)
        /\ UNCHANGED <<crCache, storeVars, blind, podVars, drawn, queued, worker, faults>>
    BY <2>1 DEF Edit
  <2>3. /\ specs' \in Seq(CR) /\ Len(specs') = Len(specs) + 1
        /\ \A g \in 1..Len(specs) : specs'[g] = specs[g]
        /\ Len(specs) \in Nat /\ crCache \in 1..Len(specs)
    BY <2>2, AppendProperties DEF TypeOK
  <2>4. Len(specs') \in 1..(MaxEdits + 1) /\ crCache' \in 1..Len(specs')
    BY <2>2, <2>3, BackingAssumption
  <2>5. TypeOK'
    BY <2>2, <2>3, <2>4 DEF TypeOK, storeVars, podVars
  <2>6. specs'[crCache'] = specs[crCache] /\ (worker.pc = "apply" => Snap' = Snap)
    <3>1. worker.pc = "apply" => worker.snap \in 1..Len(specs)
      BY <2>3, WorkerTypes
    <3> QED
      BY <2>2, <2>3, <3>1 DEF Snap
  <2>7. Shapes' /\ Synced' /\ SecretFirst'
    BY <2>2, <2>6 DEF Shapes, Synced, SecretFirst, storeVars
  <2>8. Accounted'
    BY <2>2, <2>6 DEF Accounted, Done, Settled, AsAskedBy, storeVars
  <2> QED
    BY <2>5, <2>7, <2>8
<1> QED
  BY <1>1, <1>2, <1>3, <1>4, <1>5, <1>6

-----------------------------------------------------------------------------
(* Theorems                                                                *)

LEMMA InitOK == Init => BackingInv
<1> SUFFICES ASSUME Init PROVE BackingInv
  OBVIOUS
<1>1. PICK c \in FirstOn : specs = <<c>>
  BY DEF Init
<1>2. /\ c \in CR /\ specs \in Seq(CR) /\ Len(specs) = 1 /\ crCache = 1
  BY <1>1, BackingAssumption DEF Init, CR
<1>3. Len(specs) \in 1..(MaxEdits + 1) /\ crCache \in 1..Len(specs) /\ faults \in 0..MaxFaults
  BY <1>2, BackingAssumption DEF Init
<1>4. TypeOK
  BY <1>2, <1>3, IdleType DEF Init, TypeOK
<1>5. Shapes /\ Synced /\ SecretFirst /\ Accounted
  BY IdleType, ObjectFields DEF Init, Shapes, Synced, SecretFirst, Accounted
<1> QED
  BY <1>4, <1>5 DEF BackingInv

\* With nothing in the queue, every object the reconcile is done with is as the
\* cached CR asks, or was looked at through an outdated copy.
THEOREM BackingInvariant == Spec => []BackingInv
<1>1. BackingInv /\ [Next]_vars => BackingInv'
  <2> SUFFICES ASSUME BackingInv, [Next]_vars PROVE BackingInv'
    OBVIOUS
  <2>1. CASE Next
    BY <2>1, ApplyKeepsInv, WorkerKeepsInv, EnvironmentKeepsInv DEF Next, Reconciling
  <2>2. CASE UNCHANGED vars
    BY <2>2, QuietStep DEF vars, crVars, storeVars, podVars, BackingInv, TypeOK
  <2> QED
    BY <2>1, <2>2
<1> QED
  BY <1>1, InitOK, PTL DEF Spec

\* Every variable keeps its type.
THEOREM TypeCorrect == Spec => []TypeOK
<1>1. BackingInv => TypeOK
  BY DEF BackingInv
<1> QED
  BY <1>1, BackingInvariant, PTL

\* At rest every object is as the CR asks, unless it is one nobody watches that was
\* last looked at through an outdated copy: web.yml holds the hash of the password
\* the Secret holds, whatever was interrupted or switched back and forth before.
THEOREM ObjectsRestAsAsked == Spec => []RestsAsAsked
<1>1. BackingInv => RestsAsAsked
  <2> SUFFICES ASSUME BackingInv, AtRest
               PROVE  Accepted(Live) /\ \A i \in Tracked : i \in blind \/ AsAsked(i)
    BY DEF RestsAsAsked
  <2>1. Live = specs[crCache] /\ Done = Tracked /\ changed = {}
    BY DEF AtRest, Live, Done
  <2>2. \A i \in Tracked : Settled(i, Live)
    BY <2>1 DEF BackingInv, Accounted, AtRest
  <2> QED
    BY <2>1, <2>2 DEF Settled, Accepted, AsAsked
<1> QED
  BY <1>1, BackingInvariant, PTL

\* A generated Secret never gets another value, and only the switch to a remote
\* TSDB takes one away.
THEOREM SecretsAreKept == Spec => SecretsKept
<1> DEFINE Step ==
      \A i \in GeneratedSecrets \cap Tracked :
        objects[i].there /\ objects'[i] # objects[i] =>
          ~objects'[i].there /\ i = "basicAuth" /\ Remote(Snap)
<1>1. BackingInv /\ [Next]_vars => [Step]_vars
  <2> SUFFICES ASSUME BackingInv, Next, NEW i \in GeneratedSecrets \cap Tracked,
                      objects[i].there, objects'[i] # objects[i]
               PROVE  ~objects'[i].there /\ i = "basicAuth" /\ Remote(Snap)
    OBVIOUS
  <2>1. CASE Apply
    <3>1. PICK j \in Tracked :
            IF Wants(j, Snap)
            THEN IF Refused(j, Snap) \/ NoSource(j) THEN Reject
                 ELSE IF j \in GeneratedSecrets THEN EnsureSecret(j) ELSE Ensure(j, Snap)
            ELSE IF j \in Deletable THEN Remove(j) ELSE Skip(j)
      BY <2>1 DEF Apply
    <3>2. ASSUME NEW o, Write(j, o) PROVE j = i /\ objects'[i] = o
      BY <3>2 DEF Write, BackingInv, TypeOK
    <3>3. CASE Wants(j, Snap)
      BY <3>1, <3>2, <3>3 DEF Reject, EnsureSecret, Ensure, Skip
    <3>4. CASE ~Wants(j, Snap)
      <4>1. Write(j, Absent) /\ j \in Deletable
        BY <3>1, <3>4 DEF Remove, Skip, Reject
      <4>2. j = i /\ ~objects'[i].there
        BY <3>2, <4>1, ObjectFields
      <4>3. i = "basicAuth"
        BY <4>1, <4>2 DEF Deletable, GeneratedSecrets, Certificates, LocalTSDB
      <4>4. Remote(Snap)
        BY <3>4, <4>2, <4>3 DEF Wants, LocalTSDB
      <4> QED
        BY <4>2, <4>3, <4>4
    <3> QED
      BY <3>3, <3>4
  <2>2. CASE StartReconcile \/ CallFails \/ Restart \/ DeliverCR \/ Resync
    BY <2>2 DEF StartReconcile, CallFails, Restart, DeliverCR, Resync, storeVars
  <2>3. ASSUME NEW j \in Tracked, Deliver(j) \/ Issue(j) PROVE FALSE
    BY <2>3 DEF Deliver, Issue, storeVars
  <2>4. ASSUME NEW w \in Workloads \cap Tracked, PodStarts(w) \/ PodStops(w) \/ PodLost(w) PROVE FALSE
    BY <2>4 DEF PodStarts, PodStops, PodLost, storeVars
  <2>5. ASSUME NEW s \in Switches, Switch(s) PROVE FALSE
    BY <2>5 DEF Switch, Edit, storeVars
  <2> QED
    BY <2>1, <2>2, <2>3, <2>4, <2>5 DEF Next, Reconciling
<1>2. SecretsKept <=> [][Step]_vars
  BY PTL DEF SecretsKept
<1> QED
  BY <1>1, <1>2, BackingInvariant, PTL DEF Spec

-----------------------------------------------------------------------------
(* The documented contract                                                 *)

\* What Reconcile makes is what the documentation lists, object by object.
LEMMA WantsDocumented ==
  ASSUME NEW i \in Tracked, NEW c
  PROVE  /\ Wants(i, c) => i \in Documented(c)
         /\ ~Wants(i, c) => i \notin Documented(c)
BY DEF Wants, Documented, OwnStatusKeys, LocalTSDB, Remote

LEMMA PresentStep ==
  ASSUME BackingInv, NEW i \in Tracked, NEW o, Write(i, o)
  PROVE  IF o.there THEN Present' = Present \cup {i} ELSE Present' = Present \ {i}
<1>1. objects'[i] = o /\ \A j \in Tracked \ {i} : objects'[j] = objects[j]
  BY WrittenObject
<1> QED
  BY <1>1 DEF Present

\* A decision of Reconcile creates what the documentation lists for the spec it is
\* working on, removes what it does not list, or changes nothing.
LEMMA ApplyContract ==
  ASSUME BackingInv, Apply
  PROVE  \/ Present' = Present
         \/ \E i \in Tracked \cap Documented(Snap) : Present' = Present \cup {i}
         \/ \E i \in Tracked \ Documented(Snap) : Present' = Present \ {i}
<1>1. PICK i \in Tracked :
        IF Wants(i, Snap)
        THEN IF Refused(i, Snap) \/ NoSource(i) THEN Reject
             ELSE IF i \in GeneratedSecrets THEN EnsureSecret(i) ELSE Ensure(i, Snap)
        ELSE IF i \in Deletable THEN Remove(i) ELSE Skip(i)
  BY DEF Apply
<1>2. CASE UNCHANGED objects
  BY <1>2 DEF Present
<1>3. CASE Wants(i, Snap) /\ objects' # objects
  <2>1. \E d : Write(i, Object(d))
    BY <1>1, <1>3 DEF Reject, EnsureSecret, Ensure, Skip
  <2>2. Present' = Present \cup {i}
    BY <2>1, PresentStep, ObjectFields
  <2> QED
    BY <1>3, <2>2, WantsDocumented
<1>4. CASE ~Wants(i, Snap) /\ objects' # objects
  <2>1. Write(i, Absent)
    BY <1>1, <1>4 DEF Remove, Reject, Skip
  <2>2. Present' = Present \ {i}
    BY <2>1, PresentStep, ObjectFields
  <2> QED
    BY <1>4, <2>2, WantsDocumented
<1> QED
  BY <1>2, <1>3, <1>4

\* It turns to a newer spec, never back to an older one.
LEMMA ServingType ==
  ASSUME BackingInv
  PROVE  /\ Serving \in 1..crCache /\ crCache \in 1..Len(specs) /\ Len(specs) \in Nat
         /\ worker.pc = "idle" \/ worker.pc = "apply"
BY WorkerTypes DEF Serving, BackingInv, TypeOK, Worker, Idle

LEMMA AdvanceStep ==
  ASSUME BackingInv, BackingInv', UNCHANGED specs, crCache <= crCache',
         \/ worker' = Idle
         \/ worker'.pc = "apply" /\ worker.pc = "apply" /\ worker'.snap = worker.snap
         \/ worker'.snap = crCache
         \/ worker' = worker
  PROVE  Serving' \in Serving..Len(specs)
<1>1. Serving \in 1..crCache /\ crCache \in 1..Len(specs) /\ Len(specs) \in Nat
  BY ServingType
<1>2. Serving' \in 1..crCache' /\ crCache' \in 1..Len(specs)
  <2>1. /\ worker' \in Worker /\ crCache' \in 1..Len(specs)
        /\ worker'.pc = "apply" => worker'.snap <= crCache'
    BY DEF BackingInv, TypeOK
  <2> QED
    BY <1>1, <2>1 DEF Serving, Worker, Idle
<1> QED
  BY <1>1, <1>2, IdleType DEF Serving

\* Every step is one of the contract.
LEMMA StepRefines ==
  ASSUME BackingInv, BackingInv', Next
  PROVE  Contract!Next \/ UNCHANGED Contract!contractVars
<1>1. ASSUME UNCHANGED <<specs, objects>>, Serving' \in Serving..Len(specs)
      PROVE  Contract!Next
  BY <1>1 DEF Contract!Next, Contract!Move, Contract!Advance, Present
<1>2. CASE Apply
  <2>1. Serving' \in Serving..Len(specs) /\ UNCHANGED specs
    <3>1. PICK c : c = Snap
      OBVIOUS
    <3>2. PICK i \in Tracked : Turn(i) /\ StepOn(i, c)
      BY <1>2, <3>1, ApplyStep
    <3>3. worker.pc = "apply" /\ UNCHANGED crVars /\ i \in worker.todo
      BY <1>2, <3>1, <3>2, ApplyStep DEF Turn
    <3>4. \/ worker' = Idle
          \/ worker'.pc = "apply" /\ worker'.snap = worker.snap
      BY <3>2, <3>3, NextStepType DEF StepOn
    <3>5. crCache' = crCache /\ crCache <= crCache' /\ specs' = specs
      BY <3>3 DEF crVars, BackingInv, TypeOK
    <3> QED
      BY <3>3, <3>4, <3>5, AdvanceStep
  <2>2. Contract!Advance
    BY <2>1 DEF Contract!Advance
  <2>3. Serving \in 1..Len(specs) /\ specs[Serving] = Snap
    <3>1. Serving \in 1..crCache /\ crCache \in 1..Len(specs) /\ Len(specs) \in Nat
      BY ServingType
    <3> QED
      BY <1>2, <3>1 DEF Apply, Serving, Snap
  <2>4. CASE Present' = Present
    BY <2>1, <2>2, <2>4 DEF Contract!Next, Contract!Move
  <2>5. ASSUME NEW i \in Tracked \cap Documented(Snap), Present' = Present \cup {i}
        PROVE  Contract!Next
    <3>1. Contract!Create(i)
      BY <2>1, <2>2, <2>3, <2>5 DEF Contract!Create
    <3> QED
      BY <3>1 DEF Contract!Next
  <2>6. ASSUME NEW i \in Tracked \ Documented(Snap), Present' = Present \ {i}
        PROVE  Contract!Next
    <3>1. Contract!Remove(i)
      BY <2>1, <2>2, <2>3, <2>6 DEF Contract!Remove
    <3> QED
      BY <3>1 DEF Contract!Next
  <2> QED
    BY <1>2, <2>4, <2>5, <2>6, ApplyContract
<1>3. CASE StartReconcile \/ CallFails \/ Restart \/ DeliverCR
  <2>1. UNCHANGED <<specs, objects>>
    BY <1>3 DEF StartReconcile, CallFails, Restart, DeliverCR, crVars, storeVars
  <2>2. crCache <= crCache'
    BY <1>3 DEF StartReconcile, CallFails, Restart, DeliverCR, crVars, BackingInv, TypeOK
  <2>3. worker' = Idle \/ worker'.snap = crCache \/ worker' = worker
    BY <1>3 DEF StartReconcile, CallFails, Restart, DeliverCR, Fail
  <2> QED
    BY <1>1, <2>1, <2>2, <2>3, AdvanceStep
<1>4. ASSUME UNCHANGED <<crVars, objects, worker>> PROVE UNCHANGED Contract!contractVars
  BY <1>4 DEF Contract!contractVars, crVars, Serving, Present
<1>5. CASE Resync
  BY <1>4, <1>5 DEF Resync, storeVars
<1>6. ASSUME NEW i \in Tracked, Deliver(i) \/ Issue(i) PROVE UNCHANGED Contract!contractVars
  BY <1>4, <1>6 DEF Deliver, Issue, storeVars
<1>7. ASSUME NEW w \in Workloads \cap Tracked, PodStarts(w) \/ PodStops(w) \/ PodLost(w)
      PROVE  UNCHANGED Contract!contractVars
  BY <1>4, <1>7 DEF PodStarts, PodStops, PodLost, storeVars
<1>8. ASSUME NEW s \in Switches, Switch(s) PROVE Contract!Next
  <2>1. Live \in CR
    BY DEF BackingInv, TypeOK, Live
  <2>2. PICK c \in CR : Edit(c)
    BY <1>8, <2>1 DEF Switch, CR
  <2>3. Contract!Ask(c)
    BY <2>2 DEF Edit, Contract!Ask, Serving, Present, storeVars
  <2> QED
    BY <2>3 DEF Contract!Next
<1> QED
  BY <1>2, <1>3, <1>5, <1>6, <1>7, <1>8 DEF Next, Reconciling

\* The objects come and go as the documentation promises: the operator implements
\* the contract.
THEOREM BackingImplementsContract == Spec => KeepsContract
<1>1. Init => Contract!Init
  <2> SUFFICES ASSUME Init PROVE Contract!Init
    OBVIOUS
  <2>1. \A i \in Tracked : ~objects[i].there
    BY ObjectFields DEF Init
  <2>2. Present = {}
    BY <2>1 DEF Present
  <2>3. Serving = 1
    BY IdleType DEF Init, Serving
  <2>4. specs \in {<<c>> : c \in CR}
    BY BackingAssumption DEF Init, CR
  <2> QED
    BY <2>2, <2>3, <2>4 DEF Contract!Init
<1>2. BackingInv /\ BackingInv' /\ [Next]_vars => [Contract!Next]_(Contract!contractVars)
  <2> SUFFICES ASSUME BackingInv, BackingInv', [Next]_vars
               PROVE  [Contract!Next]_(Contract!contractVars)
    OBVIOUS
  <2>1. CASE Next
    BY <2>1, StepRefines
  <2>2. CASE UNCHANGED vars
    BY <2>2 DEF vars, crVars, storeVars, Contract!contractVars, Serving, Present
  <2> QED
    BY <2>1, <2>2
<1> QED
  BY <1>1, <1>2, BackingInvariant, PTL DEF Spec, KeepsContract, Contract!Spec
=============================================================================
