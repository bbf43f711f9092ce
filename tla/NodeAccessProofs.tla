--------------------------- MODULE NodeAccessProofs ---------------------------
(***************************************************************************)
(* Proofs about the Node Service, PodDisruptionBudget and autoscaler, for  *)
(* every set of pod template hashes and every bound.                       *)
(***************************************************************************)
EXTENDS NodeAccess, TLAPS

-----------------------------------------------------------------------------
(* The inductive invariant                                                 *)

\* The cache is right about every object it has been told all about.
Synced == \A n \in Names \ changed : cache[n] = objects[n]

\* The copy of the Service's selector is one.
SelectorOK == cache["service"].there => cache["service"].spec \in Hashes \cup {NoHash}

\* Those the reconcile in progress is done with.
Finished ==
  CASE worker.pc = "idle" -> Names
    [] worker.pc = "hpa"  -> {"service", "pdb"}
    [] worker.pc = "pdb"  -> {"service"}
    [] OTHER              -> {}

\* o is what c asks of object n.
Right(n, o, c) ==
  CASE n = "service" -> /\ o.there /\ ~o.drifted
                        /\ ~c.rollout => o.spec = NoHash
    [] n = "pdb"     -> o = IF c.pdb THEN Built("minAvailable") ELSE Absent
    [] n = "hpa"     -> o = IF c.hpa THEN Built(KindOf(c)) ELSE Absent

\* With nothing in the queue the reconcile in progress, or else the last one, is
\* about the cached CR, and what it is done with is right or has changed since.
Accounted ==
  ~queued =>
    /\ worker.pc # "idle" => worker.snap = crCache
    /\ worker.pc # "workload" => kind = KindOf(crCache)
    /\ \A n \in Finished \ changed : Right(n, objects[n], crCache)

AccessInv == TypeOK /\ Synced /\ SelectorOK /\ Accounted

-----------------------------------------------------------------------------
(* Objects and the worker                                                  *)

SpecsOf == Hashes \cup {NoHash} \cup Kinds \cup {"minAvailable"}
Real == [there : {TRUE}, spec : SpecsOf, drifted : BOOLEAN]

\* An object is there, with its fields, or it is absent.
LEMMA ObjectCases ==
  ASSUME NEW o \in Object
  PROVE  /\ o.there => o \in Real
         /\ ~o.there => o = Absent
<1>1. CASE o = Absent
  BY <1>1 DEF Absent
<1>2. CASE o \in Real
  BY <1>2 DEF Real
<1> QED
  BY <1>1, <1>2 DEF Object, Real, SpecsOf

LEMMA RealIsObject == Real \subseteq Object /\ Absent \in Object
BY DEF Object, Real, SpecsOf, Absent

\* What the operator builds is an object.
LEMMA BuiltType ==
  ASSUME NEW s \in SpecsOf
  PROVE  /\ Built(s) \in Real
         /\ Built(s).there /\ Built(s).spec = s /\ ~Built(s).drifted
BY DEF Built, Real

\* A worker that is not idle has a copy of the CR, and keeps it from step to step.
LEMMA BusyWorker ==
  ASSUME worker \in Worker, worker.pc # "idle"
  PROVE  /\ worker.snap \in CR /\ worker.pc \in {"workload"} \cup Names
         /\ \A p \in Names : /\ Goto(p) \in Worker /\ Goto(p).pc = p
                             /\ Goto(p).snap = worker.snap
<1>1. worker \in [pc : {"workload"} \cup Names, snap : CR]
  BY DEF Worker, Idle
<1> QED
  BY <1>1 DEF Worker, Goto

LEMMA IdleWorker == Idle \in Worker /\ Idle.pc = "idle"
BY DEF Idle, Worker

LEMMA KindType == ASSUME NEW c PROVE KindOf(c) \in Kinds
BY DEF KindOf, Kinds

\* A failed attempt leaves the key in the queue, and a reply does so when it is lost.
LEMMA FailType == Fail => worker' = Idle /\ worker' \in Worker /\ queued' = TRUE
BY IdleWorker DEF Fail

LEMMA ReplyType ==
  ASSUME NEW next \in Worker, Reply(next), TypeOK
  PROVE  /\ worker' \in Worker /\ queued' \in BOOLEAN /\ faults' \in 0..MaxFaults
         /\ \/ worker' = next /\ queued' = queued
            \/ worker' = Idle /\ queued' = TRUE
<1>1. CASE worker' = next /\ UNCHANGED <<queued, faults>>
  BY <1>1 DEF TypeOK
<1>2. CASE faults < MaxFaults /\ faults' = faults + 1 /\ Fail
  <2>1. faults' \in 0..MaxFaults
    BY <1>2, NodeAccessAssumption DEF TypeOK
  <2> QED
    BY <1>2, <2>1, IdleWorker DEF Fail
<1> QED
  BY <1>1, <1>2 DEF Reply

-----------------------------------------------------------------------------
(* The two kinds of step on an object                                      *)

\* What a step on object n may do to the store, when it ends in objects[n] = wanted.
Outcome(n, wanted, next) ==
  /\ objects' \in [Names -> Object] /\ changed' \in SUBSET Names
  /\ \A m \in Names \ {n} : objects'[m] = objects[m]
  /\ changed' \ {n} = changed \ {n}
  /\ objects'[n] \in {objects[n], wanted}
  /\ n \notin changed' => cache[n] = objects'[n]
  /\ worker' \in Worker /\ queued' \in BOOLEAN /\ faults' \in 0..MaxFaults
  /\ \/ worker' = Idle /\ queued' = TRUE
     \/ /\ worker' = next /\ queued' = queued
        /\ n \notin changed' => objects'[n] = wanted

LEMMA WriteStep ==
  ASSUME TypeOK, NEW n \in Names, NEW o \in Object, Write(n, o)
  PROVE  /\ objects' \in [Names -> Object] /\ changed' \in SUBSET Names
         /\ \A m \in Names \ {n} : objects'[m] = objects[m]
         /\ changed' = changed \cup {n}
         /\ objects'[n] = o
BY DEF Write, TypeOK

LEMMA EnsureStep ==
  ASSUME AccessInv, NEW n \in Names, NEW s \in SpecsOf, NEW next \in Worker, Ensure(n, s, next)
  PROVE  Outcome(n, Built(s), next)
<1> USE DEF AccessInv
<1> DEFINE o == Built(s)
<1>0. o \in Object
  BY BuiltType, RealIsObject
<1>1. TypeOK /\ (n \notin changed => cache[n] = objects[n])
  BY DEF Synced
<1>2. CASE Skipped(n, o) /\ worker' = next /\ UNCHANGED <<objects, changed, queued, faults>>
  BY <1>1, <1>2 DEF Outcome, Skipped, TypeOK
<1>3. CASE cache[n] = o /\ NoConflict(n) /\ UNCHANGED <<objects, changed>> /\ Reply(next)
  BY <1>1, <1>3, ReplyType DEF Outcome, NoConflict, TypeOK
<1>4. CASE Write(n, o) /\ Reply(next)
  BY <1>0, <1>1, <1>4, ReplyType, WriteStep DEF Outcome
<1>5. CASE Fail /\ UNCHANGED <<objects, changed, faults>>
  BY <1>1, <1>5, FailType DEF Outcome, TypeOK
<1>6. cache[n] = o => cache[n].there
  BY BuiltType
<1> QED
  BY <1>2, <1>3, <1>4, <1>5, <1>6 DEF Ensure

LEMMA RemoveStep ==
  ASSUME AccessInv, NEW n \in Names, NEW next \in Worker, Remove(n, next)
  PROVE  Outcome(n, Absent, next)
<1> USE DEF AccessInv
<1>1. TypeOK /\ (n \notin changed => cache[n] = objects[n])
  BY DEF Synced
<1>2. CASE ~cache[n].there /\ worker' = next /\ UNCHANGED <<objects, changed, queued, faults>>
  <2>1. cache[n] = Absent
    BY <1>1, <1>2, ObjectCases DEF TypeOK
  <2> QED
    BY <1>1, <1>2, <2>1 DEF Outcome, TypeOK
<1>3. CASE Write(n, Absent) /\ Reply(next)
  BY <1>1, <1>3, ReplyType, WriteStep, RealIsObject DEF Outcome
<1>4. CASE Fail /\ UNCHANGED <<objects, changed, faults>>
  BY <1>1, <1>4, FailType DEF Outcome, TypeOK
<1> QED
  BY <1>2, <1>3, <1>4 DEF Remove

-----------------------------------------------------------------------------
(* Every step keeps the invariant                                          *)

\* The worker's step on object n, from point n to the next.
LEMMA ObjectStep ==
  ASSUME AccessInv, NEW n \in Names, NEW wanted, NEW next \in Worker, Outcome(n, wanted, next),
         worker.pc = n,
         next = (CASE n = "service" -> Goto("pdb") [] n = "pdb" -> Goto("hpa") [] n = "hpa" -> Idle),
         UNCHANGED <<cr, crCache, kind, cache, argo, edits, cutovers>>,
         objects'["hpa"].there => objects'["hpa"].spec \in Kinds,
         objects'["service"].there => objects'["service"].spec \in Hashes \cup {NoHash},
         Right(n, wanted, worker.snap)
  PROVE  AccessInv'
<1> USE DEF AccessInv, Outcome
<1>1. TypeOK'
  BY DEF TypeOK
<1>2. Synced' /\ SelectorOK'
  BY DEF Synced, SelectorOK
<1>3. ASSUME ~queued' PROVE Accounted'
  <2>0. worker' = next /\ queued' = queued /\ (n \notin changed' => objects'[n] = wanted)
    BY <1>3
  <2>1. worker' = next /\ ~queued /\ (n \notin changed' => objects'[n] = wanted)
    BY <1>3, <2>0
  <2>2. worker.snap = crCache /\ kind = KindOf(crCache) /\ worker.pc # "idle" /\ worker \in Worker
    BY <2>1 DEF Accounted, TypeOK, Names
  <2>3. /\ worker'.pc # "idle" => worker'.snap = crCache'
        /\ Finished' = Finished \cup {n}
    BY <2>1, <2>2, BusyWorker, IdleWorker DEF Finished, Names
  <2>4. ASSUME NEW m \in Names \ {n}, m \in Finished, m \notin changed' PROVE Right(m, objects'[m], crCache')
    BY <2>1, <2>4 DEF Accounted
  <2>5. n \notin changed' => Right(n, objects'[n], crCache')
    BY <2>1, <2>2
  <2>6. Finished \subseteq Names
    BY DEF Finished, Names
  <2> QED
    BY <2>2, <2>3, <2>4, <2>5, <2>6 DEF Accounted
<1> QED
  BY <1>1, <1>2, <1>3 DEF Accounted

\* The three calls of reconcileNode that follow the workload's.
LEMMA CallsKeepInv ==
  ASSUME AccessInv, EnsureService \/ ReconcilePDB \/ ReconcileHPA
  PROVE  AccessInv'
<1> USE DEF AccessInv
<1>0. worker \in Worker
  BY DEF TypeOK
<1>1. CASE EnsureService
  <2>1. worker.pc = "service" /\ "service" \in Names
    BY <1>1 DEF EnsureService, Names
  <2>2. Goto("pdb") \in Worker
    BY <1>0, <2>1, BusyWorker DEF Names
  <2> DEFINE hash == SelectorHash(worker.snap)
  <2>3. hash \in Hashes \cup {NoHash} /\ (~worker.snap.rollout => hash = NoHash)
    BY DEF SelectorHash, SelectorOK
  <2>4. hash \in SpecsOf
    BY <2>3 DEF SpecsOf
  <2>5. Outcome("service", Built(hash), Goto("pdb"))
    BY <1>1, <2>1, <2>2, <2>4, EnsureStep DEF EnsureService
  <2>6. Right("service", Built(hash), worker.snap)
    BY <2>3, <2>4, BuiltType DEF Right
  <2>7. objects'["service"] \in {objects["service"], Built(hash)} /\ objects'["hpa"] = objects["hpa"]
    BY <2>5 DEF Outcome, Names
  <2>8. /\ objects'["hpa"].there => objects'["hpa"].spec \in Kinds
        /\ objects'["service"].there => objects'["service"].spec \in Hashes \cup {NoHash}
    BY <2>3, <2>4, <2>7, BuiltType DEF TypeOK
  <2>9. UNCHANGED <<cr, crCache, kind, cache, argo, edits, cutovers>>
    BY <1>1 DEF EnsureService
  <2> HIDE DEF hash
  <2> QED
    BY <2>1, <2>2, <2>5, <2>6, <2>8, <2>9, ObjectStep
<1>2. CASE ReconcilePDB
  <2>1. worker.pc = "pdb" /\ "pdb" \in Names
    BY <1>2 DEF ReconcilePDB, Names
  <2>2. Goto("hpa") \in Worker
    BY <1>0, <2>1, BusyWorker DEF Names
  <2> DEFINE wanted == IF worker.snap.pdb THEN Built("minAvailable") ELSE Absent
  <2>3. Outcome("pdb", wanted, Goto("hpa"))
    BY <1>2, <2>1, <2>2, EnsureStep, RemoveStep DEF ReconcilePDB, SpecsOf
  <2>4. Right("pdb", wanted, worker.snap)
    BY DEF Right
  <2>5. UNCHANGED <<cr, crCache, kind, cache, argo, edits, cutovers>>
    BY <1>2 DEF ReconcilePDB
  <2>6. objects'["service"] = objects["service"] /\ objects'["hpa"] = objects["hpa"]
    BY <2>3 DEF Outcome, Names
  <2> HIDE DEF wanted
  <2> QED
    BY <2>1, <2>2, <2>3, <2>4, <2>5, <2>6, ObjectStep DEF TypeOK
<1>3. CASE ReconcileHPA
  <2>1. worker.pc = "hpa" /\ "hpa" \in Names
    BY <1>3 DEF ReconcileHPA, Names
  <2> DEFINE target == ScaleTarget(worker.snap)
             wanted == IF worker.snap.hpa THEN Built(target) ELSE Absent
  <2>2. target \in Kinds /\ target \in SpecsOf
    BY KindType DEF ScaleTarget, SpecsOf
  <2>3. Outcome("hpa", wanted, Idle)
    BY <1>3, <2>1, <2>2, IdleWorker, EnsureStep, RemoveStep DEF ReconcileHPA
  <2>4. Right("hpa", wanted, worker.snap)
    BY DEF Right, ScaleTarget
  <2>5. UNCHANGED <<cr, crCache, kind, cache, argo, edits, cutovers>>
    BY <1>3 DEF ReconcileHPA
  <2>6. objects'["service"] = objects["service"] /\ objects'["hpa"] \in {objects["hpa"], wanted}
    BY <2>3 DEF Outcome, Names
  <2>7. objects'["hpa"].there => objects'["hpa"].spec \in Kinds
    BY <2>2, <2>6, BuiltType DEF TypeOK, Absent
  <2> HIDE DEF wanted
  <2> QED
    BY <2>1, <2>3, <2>4, <2>5, <2>6, <2>7, IdleWorker, ObjectStep DEF TypeOK
<1> QED
  BY <1>1, <1>2, <1>3

\* The steps of the worker that touch no object.
LEMMA WorkerKeepsInv ==
  ASSUME AccessInv, StartReconcile \/ SwitchWorkload \/ CallFails \/ Restart
  PROVE  AccessInv'
<1> USE DEF AccessInv, storeVars
<1>1. CASE StartReconcile
  <2>1. worker' \in Worker /\ worker'.pc = "workload" /\ worker'.snap = crCache
    BY <1>1 DEF StartReconcile, TypeOK, Worker
  <2>2. TypeOK' /\ Synced' /\ SelectorOK'
    BY <1>1, <2>1 DEF StartReconcile, TypeOK, Synced, SelectorOK
  <2>3. Accounted'
    BY <1>1, <2>1 DEF StartReconcile, Accounted, Finished
  <2> QED
    BY <2>2, <2>3
<1>2. CASE SwitchWorkload
  <2>1. worker.pc = "workload" /\ worker \in Worker /\ "service" \in Names
    BY <1>2 DEF SwitchWorkload, TypeOK, Names
  <2>2. Goto("service") \in Worker /\ Goto("service").pc = "service" /\ Goto("service").snap = worker.snap
    BY <2>1, BusyWorker
  <2>3. /\ worker' \in Worker /\ queued' \in BOOLEAN /\ faults' \in 0..MaxFaults
        /\ \/ worker' = Goto("service") /\ queued' = queued
           \/ worker' = Idle /\ queued' = TRUE
    BY <1>2, <2>2, ReplyType DEF SwitchWorkload
  <2>4. TypeOK' /\ Synced' /\ SelectorOK'
    BY <1>2, <2>3, KindType DEF SwitchWorkload, TypeOK, Synced, SelectorOK
  <2>5. ASSUME ~queued' PROVE Accounted'
    <3>1. worker' = Goto("service") /\ queued' = queued
      BY <2>3, <2>5
    <3>2. worker.snap = crCache
      BY <2>1, <2>5, <3>1 DEF Accounted
    <3> QED
      BY <1>2, <2>2, <3>1, <3>2 DEF SwitchWorkload, Accounted, Finished
  <2> QED
    BY <2>4, <2>5 DEF Accounted
<1>3. CASE CallFails \/ Restart
  <2>1. worker' = Idle /\ worker' \in Worker /\ queued' = TRUE
    BY <1>3, FailType DEF CallFails, Restart
  <2>2. faults' \in 0..MaxFaults
    BY <1>3, NodeAccessAssumption DEF CallFails, Restart, TypeOK
  <2>3. TypeOK' /\ Synced' /\ SelectorOK'
    BY <1>3, <2>1, <2>2 DEF CallFails, Restart, TypeOK, Synced, SelectorOK
  <2> QED
    BY <2>1, <2>3 DEF Accounted
<1> QED
  BY <1>1, <1>2, <1>3

\* A change of object n that the cache is still to be told of.
LEMMA ChangeKeepsInv ==
  ASSUME AccessInv, NEW n \in Names, NEW o \in Object, Write(n, o),
         n = "hpa" /\ o.there => o.spec \in Kinds,
         n = "service" /\ o.there => o.spec \in Hashes \cup {NoHash},
         UNCHANGED <<cr, crCache, kind, cache, argo, queued, worker, faults>>,
         edits' \in 0..MaxEdits, cutovers' \in 0..MaxCutovers
  PROVE  AccessInv'
<1> USE DEF AccessInv
<1>1. /\ objects' \in [Names -> Object] /\ changed' \in SUBSET Names
      /\ \A m \in Names \ {n} : objects'[m] = objects[m]
      /\ changed' = changed \cup {n}
      /\ objects'[n] = o
  BY WriteStep
<1>2. TypeOK'
  BY <1>1 DEF TypeOK, Names
<1>3. Synced' /\ SelectorOK'
  BY <1>1 DEF Synced, SelectorOK
<1>4. Finished' = Finished /\ Finished \subseteq Names
  BY DEF Finished, Names
<1>5. Accounted'
  BY <1>1, <1>4 DEF Accounted
<1> QED
  BY <1>2, <1>3, <1>5

\* Informers, the Argo controller and the user.
LEMMA EnvironmentKeepsInv ==
  ASSUME AccessInv,
         DeliverCR \/ ArgoNotices \/ Cutover \/ Switch \/ \E n \in Names : Deliver(n) \/ Drift(n)
  PROVE  AccessInv'
<1> USE DEF AccessInv, storeVars
<1>1. CASE DeliverCR
  BY <1>1 DEF DeliverCR, TypeOK, Synced, SelectorOK, Accounted
<1>2. CASE ArgoNotices
  BY <1>2 DEF ArgoNotices, TypeOK, Synced, SelectorOK, Accounted, Finished
<1>3. CASE Cutover
  <2>1. PICK h \in Hashes : Write("service", [objects["service"] EXCEPT !.spec = h])
    BY <1>3 DEF Cutover
  <2> DEFINE o == [objects["service"] EXCEPT !.spec = h]
  <2>2. objects["service"] \in Real
    BY <1>3, ObjectCases DEF Cutover, TypeOK, Names
  <2>3. o \in Real /\ o.spec = h
    BY <2>2 DEF Real, SpecsOf
  <2>4. "service" \in Names /\ o \in Object
    BY <2>3, RealIsObject DEF Names
  <2>5. cutovers' \in 0..MaxCutovers /\ edits' \in 0..MaxEdits
    BY <1>3, NodeAccessAssumption DEF Cutover, TypeOK
  <2>6. UNCHANGED <<cr, crCache, kind, cache, argo, queued, worker, faults>>
    BY <1>3 DEF Cutover
  <2> HIDE DEF o
  <2> QED
    BY <2>1, <2>3, <2>4, <2>5, <2>6, ChangeKeepsInv DEF o
<1>4. CASE Switch
  <2>1. PICK s \in {"rollout", "hpa", "pdb"} : cr' = [cr EXCEPT ![s] = ~@, !.gen = @ + 1]
    BY <1>4 DEF Switch
  <2>2. cr' \in CR
    <3>1. cr \in CR /\ cr.gen + 1 \in Nat /\ (~cr[s]) \in BOOLEAN
      BY DEF TypeOK, CR
    <3>2. cr' = [[cr EXCEPT ![s] = ~cr[s]] EXCEPT !.gen = cr.gen + 1]
      BY <2>1, <3>1 DEF CR
    <3>3. [cr EXCEPT ![s] = ~cr[s]] \in CR
      BY <3>1 DEF CR
    <3> QED
      BY <3>1, <3>2, <3>3 DEF CR
  <2>3. edits' \in 0..MaxEdits
    <3>1. edits < MaxEdits /\ edits' = edits + 1
      BY <1>4 DEF Switch
    <3> QED
      BY <3>1, NodeAccessAssumption DEF TypeOK
  <2>4. TypeOK' /\ Synced' /\ SelectorOK' /\ Accounted'
    BY <1>4, <2>2, <2>3 DEF Switch, TypeOK, Synced, SelectorOK, Accounted, Finished
  <2> QED
    BY <2>4
<1>5. ASSUME NEW n \in Names, Deliver(n) PROVE AccessInv'
  <2>1. cache' = [cache EXCEPT ![n] = objects[n]] /\ changed' = changed \ {n} /\ queued' = TRUE
    BY <1>5 DEF Deliver, Watched
  <2>2. TypeOK' /\ Synced' /\ SelectorOK'
    BY <1>5, <2>1 DEF Deliver, TypeOK, Synced, SelectorOK
  <2> QED
    BY <2>1, <2>2 DEF Accounted
<1>6. ASSUME NEW n \in Names, Drift(n) PROVE AccessInv'
  <2> DEFINE o == [objects[n] EXCEPT !.drifted = TRUE]
  <2>1. objects[n] \in Real
    BY <1>6, ObjectCases DEF Drift, TypeOK
  <2>2. o \in Real /\ o.spec = objects[n].spec
    BY <2>1 DEF Real
  <2>3. o \in Object
    BY <2>2, RealIsObject
  <2>4. /\ n = "hpa" => o.spec \in Kinds
        /\ n = "service" => o.spec \in Hashes \cup {NoHash}
    BY <1>6, <2>2 DEF Drift, TypeOK
  <2>5. cutovers' \in 0..MaxCutovers /\ edits' \in 0..MaxEdits
    BY <1>6, NodeAccessAssumption DEF Drift, TypeOK
  <2>6. Write(n, o) /\ UNCHANGED <<cr, crCache, kind, cache, argo, queued, worker, faults>>
    BY <1>6 DEF Drift
  <2> HIDE DEF o
  <2> QED
    BY <2>3, <2>4, <2>5, <2>6, ChangeKeepsInv
<1> QED
  BY <1>1, <1>2, <1>3, <1>4, <1>5, <1>6

-----------------------------------------------------------------------------
(* Theorems                                                                *)

LEMMA InitOK == Init => AccessInv
<1> SUFFICES ASSUME Init PROVE AccessInv
  OBVIOUS
<1>1. cr \in CR /\ crCache \in CR
  BY DEF Init, CR
<1>2. TypeOK
  <2>1. objects \in [Names -> Object] /\ cache \in [Names -> Object]
    BY RealIsObject DEF Init
  <2>2. ~objects["hpa"].there /\ ~objects["service"].there
    BY DEF Init, Names, Absent
  <2> QED
    <3>1. changed \in SUBSET Names /\ kind \in Kinds /\ argo \in BOOLEAN /\ queued \in BOOLEAN
      BY DEF Init, Kinds
    <3>2. edits \in 0..MaxEdits /\ cutovers \in 0..MaxCutovers /\ faults \in 0..MaxFaults
      BY NodeAccessAssumption DEF Init
    <3>3. worker \in Worker
      BY IdleWorker DEF Init
    <3> QED
      BY <1>1, <2>1, <2>2, <3>1, <3>2, <3>3 DEF TypeOK
<1>3. Synced /\ SelectorOK /\ Accounted
  BY DEF Init, Synced, SelectorOK, Accounted, Names, Absent
<1> QED
  BY <1>2, <1>3 DEF AccessInv

\* Between reconciles with an empty queue everything but what is still to be told
\* is as the cached CR asks, whatever was interrupted, lost or outdated before.
THEOREM AccessInvariant == Spec => []AccessInv
<1>1. AccessInv /\ [Next]_vars => AccessInv'
  <2> SUFFICES ASSUME AccessInv, [Next]_vars PROVE AccessInv'
    OBVIOUS
  <2>1. CASE Next
    BY <2>1, CallsKeepInv, WorkerKeepsInv, EnvironmentKeepsInv DEF Next, Reconciling
  <2>2. CASE UNCHANGED vars
    BY <2>2 DEF vars, storeVars, AccessInv, TypeOK, Synced, SelectorOK, Accounted, Finished
  <2> QED
    BY <2>1, <2>2
<1> QED
  BY <1>1, InitOK, PTL DEF Spec

\* Every variable keeps its type.
THEOREM TypeCorrect == Spec => []TypeOK
<1>1. AccessInv => TypeOK
  BY DEF AccessInv
<1> QED
  BY <1>1, AccessInvariant, PTL

\* No wake-up is lost: a reconcile at rest leaves everything as the CR asks, even
\* when the Argo controller writes to the Service after the Rollout is gone.
THEOREM NoWakeupIsLost == Spec => []NoLostWakeup
<1>1. AccessInv => NoLostWakeup
  <2> SUFFICES ASSUME AccessInv, AtRest PROVE InPlace
    BY DEF NoLostWakeup
  <2>1. kind = KindOf(cr) /\ \A n \in Names : Right(n, objects[n], cr)
    BY DEF AccessInv, Accounted, AtRest, Finished
  <2>2. /\ Right("service", objects["service"], cr)
        /\ Right("pdb", objects["pdb"], cr)
        /\ Right("hpa", objects["hpa"], cr)
    BY <2>1 DEF Names
  <2>3. /\ objects["service"].there /\ ~objects["service"].drifted
        /\ ~cr.rollout => objects["service"].spec = NoHash
    BY <2>2 DEF Right
  <2>4. objects["pdb"] = IF cr.pdb THEN Built("minAvailable") ELSE Absent
    BY <2>2 DEF Right
  <2>5. objects["hpa"] = IF cr.hpa THEN Built(kind) ELSE Absent
    BY <2>1, <2>2 DEF Right
  <2>6. objects["pdb"].there = cr.pdb
    <3>1. cr.pdb \in BOOLEAN
      BY DEF AccessInv, TypeOK, CR
    <3>2. CASE cr.pdb
      <4>1. objects["pdb"].there = TRUE
        BY <2>4, <3>2 DEF Built
      <4> QED
        BY <3>1, <3>2, <4>1
    <3>3. CASE ~cr.pdb
      <4>1. objects["pdb"].there = FALSE
        BY <2>4, <3>3 DEF Absent
      <4> QED
        BY <3>1, <3>3, <4>1
    <3> QED
      BY <3>1, <3>2, <3>3
  <2>7. ASSUME NEW n \in Names, objects[n].there PROVE ~objects[n].drifted
    BY <2>3, <2>4, <2>5, <2>7 DEF Built, Absent, Names
  <2> QED
    BY <2>1, <2>3, <2>5, <2>6, <2>7 DEF InPlace
<1> QED
  BY <1>1, AccessInvariant, PTL

\* While the Rollout is wanted the operator never takes traffic back from the pods
\* the Argo controller has switched it to: a copy that is too old to know the
\* cutover is also too old to be written.
THEOREM CutoverIsKept == Spec => CutoverKept
<1> DEFINE Step ==
      worker.pc = "service" /\ worker'.pc # "service" /\ worker.snap.rollout /\ objects["service"].there
        => objects'["service"].spec = objects["service"].spec
<1>1. AccessInv /\ [Next]_vars => [Step]_vars
  <2> SUFFICES ASSUME AccessInv, Next, worker.pc = "service", worker'.pc # "service",
                      worker.snap.rollout, objects["service"].there
               PROVE  objects'["service"].spec = objects["service"].spec
    OBVIOUS
  <2>1. CASE EnsureService
    <3>1. "service" \in Names /\ ("service" \notin changed => cache["service"] = objects["service"])
      BY DEF AccessInv, Synced, Names
    <3> DEFINE hash == SelectorHash(worker.snap)
    <3>2. Ensure("service", hash, Goto("pdb"))
      BY <2>1 DEF EnsureService
    <3>3. CASE UNCHANGED objects
      BY <3>3
    <3>4. CASE /\ Write("service", Built(hash))
               /\ cache["service"].there /\ NoConflict("service")
      <4>1. cache["service"] = objects["service"]
        BY <3>1, <3>4 DEF NoConflict
      <4>2. hash = objects["service"].spec
        BY <4>1 DEF SelectorHash
      <4>3. objects'["service"] = Built(hash)
        BY <3>1, <3>4 DEF Write, AccessInv, TypeOK
      <4> QED
        BY <4>2, <4>3 DEF Built
    <3> QED
      BY <3>2, <3>3, <3>4 DEF Ensure
  <2>2. CASE StartReconcile \/ SwitchWorkload \/ ReconcilePDB \/ ReconcileHPA
    BY <2>2 DEF StartReconcile, SwitchWorkload, ReconcilePDB, ReconcileHPA
  <2>3. CASE CallFails \/ Restart
    BY <2>3 DEF CallFails, Restart, storeVars
  <2>4. CASE DeliverCR \/ ArgoNotices \/ Cutover \/ Switch \/ \E n \in Names : Deliver(n) \/ Drift(n)
    BY <2>4 DEF DeliverCR, ArgoNotices, Cutover, Switch, Deliver, Drift
  <2> QED
    BY <2>1, <2>2, <2>3, <2>4 DEF Next, Reconciling
<1>2. CutoverKept <=> [][Step]_vars
  BY PTL DEF CutoverKept
<1> QED
  BY <1>1, <1>2, AccessInvariant, PTL DEF Spec
=============================================================================
