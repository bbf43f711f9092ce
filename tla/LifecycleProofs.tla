--------------------------- MODULE LifecycleProofs ---------------------------
(***************************************************************************)
(* Proofs about the life of a custom resource, for every set of specs,     *)
(* every choice of flags and every bound.                                  *)
(***************************************************************************)
EXTENDS Lifecycle, SequenceTheorems, TLAPS

-----------------------------------------------------------------------------
(* The inductive invariant                                                 *)

Values(watch) == {watch[i] : i \in 1..Len(watch)}

\* The versions of the CR that Reconcile may still fetch.
Seen == {crCache} \cup Values(crWatch)

\* The last version on its way to a cache is the live object.
Latest(live, cache, watch) ==
  IF watch = <<>> THEN cache = live ELSE watch[Len(watch)] = live

Streams ==
  /\ Latest(cr, crCache, crWatch)
  /\ Latest(workload, workloadCache, workloadWatch)

\* A copy with the finalizer of a CR that is still there: it has the finalizer yet.
Kept(c) == Exists(c) => /\ c.uid <= lastUid
                        /\ c.uid = cr.uid /\ c.finalizer => cr.finalizer

CopiesKept == \A c \in Seen \cup {worker.snap} \cup {cr} : Kept(c)

\* What Reconcile has seen in its copy by the time it is at a point.
Established ==
  /\ worker.pc # "idle" => Exists(worker.snap)
  /\ worker.pc \in {"secret", "workload", "finish"} => worker.snap.finalizer
  /\ worker.pc \in {"deletingStatus", "removeFinalizer"} => worker.snap.deleting
  /\ worker.pc = "pauseStatus" => ~worker.snap.deleting

\* What the operator does not write.
SameIntent(c, d) ==
  /\ c.uid = d.uid /\ c.spec = d.spec /\ c.gen = d.gen
  /\ c.paused = d.paused /\ c.deleting = d.deleting

\* A copy that is not outdated differs in the status at most, and no version from
\* before the last change of the annotation is left.
FreshCopy ==
  worker.fresh =>
    /\ Exists(cr) /\ SameIntent(worker.snap, cr) /\ worker.snap.finalizer = cr.finalizer
    /\ \A c \in Seen : Exists(c) /\ c.paused = cr.paused

\* Once the pause is reported there is no unpaused version left to reconcile.
Quiet ==
  acked =>
    /\ Exists(cr) /\ cr.paused /\ ~cr.deleting
    /\ \A c \in Seen : Exists(c) /\ c.paused
    /\ worker.pc \notin {"secret", "workload", "finish"}

\* An object is owned by a CR that there was; if that is the live one, it has
\* the finalizer.
Owned(obj) == obj.owner <= lastUid /\ (obj.owner # 0 /\ obj.owner = cr.uid => cr.finalizer)

LifeInv ==
  /\ TypeOK /\ Streams /\ CopiesKept /\ Established /\ FreshCopy /\ Quiet
  /\ Owned(workload) /\ Owned(secret)

-----------------------------------------------------------------------------
(* Copies, objects and watches                                             *)

LEMMA Fields ==
  ASSUME NEW c \in CR, Exists(c)
  PROVE  /\ c \in LiveCR
         /\ c.uid \in Nat /\ c.uid # 0 /\ c.spec \in Specs /\ c.gen \in Nat /\ c.paused \in BOOLEAN
         /\ c.finalizer \in BOOLEAN /\ c.deleting \in BOOLEAN
BY DEF CR, LiveCR, NoCR, Exists

LEMMA UidType == ASSUME NEW c \in CR PROVE c.uid \in Nat
BY DEF CR, LiveCR, NoCR

LEMMA NoCRType == NoCR \in CR /\ ~Exists(NoCR)
BY DEF CR, NoCR, Exists

\* A status write changes the status alone.
LEMMA WithStatusType ==
  ASSUME NEW c \in LiveCR, NEW d \in LiveCR
  PROVE  /\ WithStatusOf(c, d) \in LiveCR
         /\ SameIntent(WithStatusOf(c, d), c)
         /\ WithStatusOf(c, d).finalizer = c.finalizer
         /\ Exists(WithStatusOf(c, d))
BY DEF LiveCR, WithStatusOf, SameIntent, Exists

LEMMA IdleType == Idle \in Worker /\ Idle.pc = "idle" /\ Idle.snap = NoCR /\ Idle.fresh = FALSE
BY NoCRType DEF Idle, Worker, Points

LEMMA WorkerType ==
  ASSUME NEW w \in Worker
  PROVE  w.pc \in Points /\ w.snap \in CR /\ w.fresh \in BOOLEAN
BY DEF Worker

LEMMA DeliverLatest ==
  ASSUME NEW S, NEW watch \in Seq(S), NEW live, NEW cache, watch # <<>>, Latest(live, cache, watch)
  PROVE  /\ Head(watch) \in S /\ Tail(watch) \in Seq(S)
         /\ {Head(watch)} \cup Values(Tail(watch)) \subseteq Values(watch)
         /\ Latest(live, Head(watch), Tail(watch))
<1>1. /\ Head(watch) \in S /\ Tail(watch) \in Seq(S)
      /\ Head(watch) = watch[1]
      /\ Len(Tail(watch)) = Len(watch) - 1 /\ Len(watch) > 0
      /\ \A i \in 1..Len(Tail(watch)) : Tail(watch)[i] = watch[i + 1]
  OBVIOUS
<1>0. {Head(watch)} \cup Values(Tail(watch)) \subseteq Values(watch)
  BY <1>1 DEF Values
<1>2. CASE Len(watch) = 1
  <2>1. Len(Tail(watch)) = 0
    BY <1>1, <1>2
  <2>2. Tail(watch) = <<>>
    BY <1>1, <2>1, EmptySeq
  <2>3. watch[Len(watch)] = live
    BY DEF Latest
  <2> QED
    BY <1>0, <1>1, <1>2, <2>2, <2>3 DEF Latest
<1>3. CASE Len(watch) # 1
  <2>1. Len(Tail(watch)) \in 1..Len(Tail(watch)) /\ Len(Tail(watch)) + 1 = Len(watch)
    BY <1>1, <1>3
  <2>2. Tail(watch)[Len(Tail(watch))] = watch[Len(watch)]
    BY <1>1, <2>1
  <2>3. Tail(watch) # <<>>
    BY <1>1, <2>1, EmptySeq
  <2>4. watch[Len(watch)] = live
    BY DEF Latest
  <2> QED
    BY <1>0, <1>1, <2>2, <2>3, <2>4 DEF Latest
<1> QED
  BY <1>1, <1>2, <1>3

\* The watch after x is published in place of live.
Sent(x, live, watch) == IF x = live THEN watch ELSE Append(watch, x)

\* A published object is the latest, whatever is still on its way.
LEMMA PublishLatest ==
  ASSUME NEW S, NEW watch \in Seq(S), NEW x \in S, NEW live, NEW cache, Latest(live, cache, watch)
  PROVE  /\ Sent(x, live, watch) \in Seq(S)
         /\ Latest(x, cache, Sent(x, live, watch))
         /\ Values(Sent(x, live, watch)) \subseteq Values(watch) \cup {x}
<1> DEFINE next == Sent(x, live, watch)
<1>1. CASE x = live
  BY <1>1 DEF Sent
<1>2. CASE x # live
  <2>1. /\ next \in Seq(S) /\ Len(next) = Len(watch) + 1 /\ next # <<>>
        /\ \A i \in 1..Len(watch) : next[i] = watch[i]
        /\ next[Len(watch) + 1] = x
    BY <1>2, AppendProperties DEF Sent
  <2>2. Len(watch) \in Nat
    OBVIOUS
  <2> HIDE DEF next
  <2>3. Latest(x, cache, next)
    BY <2>1, <2>2 DEF Latest
  <2>4. Values(next) \subseteq Values(watch) \cup {x}
    BY <2>1, <2>2 DEF Values
  <2> QED
    BY <2>1, <2>3, <2>4 DEF next
<1> QED
  BY <1>1, <1>2

LEMMA PublishCRStep ==
  ASSUME TypeOK, Streams, NEW c \in CR, PublishCR(c), UNCHANGED crCache
  PROVE  /\ cr' = c /\ crWatch' \in Seq(CR)
         /\ Latest(cr', crCache', crWatch')
         /\ Seen' \subseteq Seen \cup {c}
<1>1. crWatch \in Seq(CR) /\ Latest(cr, crCache, crWatch) /\ crWatch' = Sent(c, cr, crWatch)
  BY DEF TypeOK, Streams, PublishCR, Sent
<1>2. /\ crWatch' \in Seq(CR) /\ Latest(c, crCache, crWatch')
      /\ Values(crWatch') \subseteq Values(crWatch) \cup {c}
  BY <1>1, PublishLatest
<1>3. cr' = c /\ crCache' = crCache
  BY DEF PublishCR
<1> QED
  BY <1>2, <1>3 DEF Seen

\* The live CR is among the versions that Reconcile will still see.
LEMMA LiveIsSeen == ASSUME TypeOK, Streams PROVE cr \in Seen /\ crCache \in Seen /\ Seen \subseteq CR
<1>1. Seen \subseteq CR
  BY DEF Seen, Values, TypeOK
<1>2. CASE crWatch = <<>>
  BY <1>1, <1>2 DEF Streams, Latest, Seen
<1>3. CASE crWatch # <<>>
  <2>1. Len(crWatch) \in 1..Len(crWatch)
    BY <1>3 DEF TypeOK
  <2> QED
    BY <1>1, <1>3, <2>1 DEF Streams, Latest, Seen, Values
<1> QED
  BY <1>2, <1>3

-----------------------------------------------------------------------------
(* The parts of the invariant under a change of the CR or of an object     *)

\* What any step does to the identity and to the finalizer of the CR.
CRMoves ==
  /\ lastUid <= lastUid'
  /\ Exists(cr') => cr'.uid <= lastUid'
  /\ Exists(cr) /\ Exists(cr') => cr'.uid = cr.uid /\ (cr.finalizer => cr'.finalizer)
  /\ ~Exists(cr) /\ Exists(cr') => cr'.uid > lastUid

LEMMA SameCRMoves == ASSUME LifeInv, UNCHANGED <<cr, lastUid>> PROVE CRMoves
BY DEF LifeInv, CopiesKept, Kept, CRMoves, TypeOK

\* The copy in hand is none, or has the identity and finalizer of one there was.
CopyMoves ==
  \/ ~Exists(worker'.snap)
  \/ \E c \in Seen \cup {worker.snap} : worker'.snap.uid = c.uid /\ worker'.snap.finalizer = c.finalizer

LEMMA CopiesStep ==
  ASSUME LifeInv, TypeOK', CRMoves, CopyMoves, Seen' \subseteq Seen \cup {cr'}
  PROVE  CopiesKept'
<1> USE DEF LifeInv
<1>0. /\ Seen \subseteq CR /\ worker.snap \in CR /\ worker'.snap \in CR
      /\ cr' \in CR /\ cr \in CR /\ lastUid \in Nat /\ lastUid' \in Nat
  BY LiveIsSeen, WorkerType DEF TypeOK
<1>1. ASSUME NEW c \in CR, Exists(c), c.uid <= lastUid, c.uid = cr.uid /\ c.finalizer => cr.finalizer
      PROVE  c.uid <= lastUid' /\ (c.uid = cr'.uid /\ c.finalizer => cr'.finalizer)
  <2>1. c.uid \in Nat /\ c.uid <= lastUid'
    BY <1>0, <1>1, UidType DEF CRMoves
  <2>2. ASSUME c.uid = cr'.uid, c.finalizer PROVE cr'.finalizer
    <3>1. Exists(cr')
      BY <1>1, <2>2 DEF Exists
    <3>2. Exists(cr) /\ cr'.uid = cr.uid
      BY <1>0, <1>1, <2>1, <2>2, <3>1 DEF CRMoves
    <3> QED
      BY <1>1, <2>2, <3>1, <3>2 DEF CRMoves
  <2> QED
    BY <2>1, <2>2
<1>2. \A c \in Seen \cup {worker.snap} : Kept(c)
  BY DEF CopiesKept
<1>3. ASSUME NEW c \in Seen' \cup {cr'} PROVE Kept(c)'
  <2>1. CASE c = cr'
    BY <2>1 DEF Kept, CRMoves
  <2>2. CASE c \in Seen
    BY <1>0, <1>1, <1>2, <2>2 DEF Kept
  <2> QED
    BY <1>3, <2>1, <2>2
<1>4. Kept(worker.snap)'
  <2>1. CASE ~Exists(worker'.snap)
    BY <2>1 DEF Kept
  <2>2. CASE /\ Exists(worker'.snap)
             /\ \E c \in Seen \cup {worker.snap} :
                  worker'.snap.uid = c.uid /\ worker'.snap.finalizer = c.finalizer
    <3>1. PICK c \in Seen \cup {worker.snap} :
                 worker'.snap.uid = c.uid /\ worker'.snap.finalizer = c.finalizer
      BY <2>2
    <3>2. Exists(c) /\ Kept(c)
      BY <1>2, <2>2, <3>1 DEF Exists
    <3> QED
      BY <1>0, <1>1, <2>2, <3>1, <3>2 DEF Kept
  <2> QED
    BY <2>1, <2>2 DEF CopyMoves
<1> QED
  BY <1>3, <1>4 DEF CopiesKept

\* An object keeps its owner, has none, or was made for a copy with the finalizer.
LEMMA OwnedStep ==
  ASSUME LifeInv, TypeOK', CRMoves, NEW o, NEW p, o.owner \in Nat, Owned(o),
         \/ p.owner = o.owner
         \/ p.owner = 0
         \/ p.owner = worker.snap.uid /\ Exists(worker.snap) /\ worker.snap.finalizer
  PROVE  p.owner <= lastUid' /\ (p.owner # 0 /\ p.owner = cr'.uid => cr'.finalizer)
<1> USE DEF LifeInv
<1>0. lastUid \in Nat /\ lastUid' \in Nat /\ worker.snap \in CR /\ cr \in CR /\ cr' \in CR
  BY WorkerType DEF TypeOK
<1>1. p.owner \in Nat /\ p.owner <= lastUid
  BY <1>0, UidType DEF CopiesKept, Kept, Owned
<1>2. p.owner # 0 /\ p.owner = cr.uid => cr.finalizer
  BY DEF Owned, CopiesKept, Kept
<1>3. ASSUME p.owner # 0, p.owner = cr'.uid PROVE cr'.finalizer
  <2>1. Exists(cr')
    BY <1>3 DEF Exists
  <2>2. Exists(cr) /\ cr'.uid = cr.uid
    BY <1>0, <1>1, <1>3, <2>1, UidType DEF CRMoves
  <2> QED
    BY <1>2, <1>3, <2>1, <2>2 DEF CRMoves
<1> QED
  BY <1>0, <1>1, <1>3 DEF CRMoves

LEMMA OwnerType ==
  ASSUME TypeOK PROVE workload.owner \in Nat /\ secret.owner \in Nat
<1>1. Absent.owner \in Nat
  BY DEF Absent
<1>2. ASSUME NEW w \in [there : {TRUE}, owner : Nat \ {0}, spec : Specs] PROVE w.owner \in Nat
  BY <1>2
<1>3. ASSUME NEW s \in [there : {TRUE}, owner : Nat \ {0}] PROVE s.owner \in Nat
  BY <1>3
<1> QED
  BY <1>1, <1>2, <1>3 DEF TypeOK, Workload, Secret

\* A step that leaves the objects alone.
LEMMA SameObjectsOwned ==
  ASSUME LifeInv, TypeOK', CRMoves, UNCHANGED <<workload, secret>>
  PROVE  Owned(workload)' /\ Owned(secret)'
BY OwnerType, OwnedStep DEF LifeInv, Owned

\* What the work at its end, or interrupted, owes to nothing.
LEMMA IdleEstablished ==
  ASSUME worker' = Idle PROVE Established' /\ FreshCopy' /\ CopyMoves
BY IdleType, NoCRType DEF Established, FreshCopy, CopyMoves

-----------------------------------------------------------------------------
(* Every step keeps the invariant                                          *)

LEMMA ReplyType ==
  ASSUME TypeOK, NEW next \in Worker, Reply(next)
  PROVE  /\ worker' \in {next, Idle} /\ worker' \in Worker
         /\ queued' \in BOOLEAN /\ faults' \in 0..MaxFaults
<1>1. CASE worker' = next /\ UNCHANGED <<queued, faults>>
  BY <1>1 DEF TypeOK
<1>2. CASE faults < MaxFaults /\ faults' = faults + 1 /\ Fail
  <2>1. faults' \in 0..MaxFaults
    BY <1>2, LifecycleAssumption DEF TypeOK
  <2> QED
    BY <1>2, <2>1, IdleType DEF Fail
<1> QED
  BY <1>1, <1>2 DEF Reply

\* The operator writes c, or writes nothing, and is done with this attempt.
LEMMA CRWriteKeepsInv ==
  ASSUME LifeInv, NEW c \in CR, UNCHANGED <<workloadVars, secretVars, cacheVars, flags, lastUid, edits>>,
         worker' = Idle, queued' \in BOOLEAN, faults' \in 0..MaxFaults,
         \/ UNCHANGED crVars
         \/ PublishCR(c) /\ Exists(cr),
         Exists(c) => c.uid = cr.uid /\ c.paused = cr.paused /\ c.deleting = cr.deleting
                      /\ (cr.finalizer => c.finalizer),
         ~Exists(c) => cr.deleting,
         acked' \in BOOLEAN,
         acked' => \/ acked
                   \/ /\ Exists(cr) /\ cr.paused /\ ~cr.deleting
                      /\ \A k \in Seen : Exists(k) /\ k.paused
  PROVE  LifeInv'
<1> USE DEF LifeInv, workloadVars, secretVars, cacheVars, crVars
<1>1. /\ cr' \in {c, cr} /\ crWatch' \in Seq(CR)
      /\ cr' = c => Exists(cr) \/ cr' = cr
      /\ Latest(cr', crCache', crWatch')
      /\ Seen' \subseteq Seen \cup {cr'}
  <2>1. CASE UNCHANGED crVars
    BY <2>1 DEF TypeOK, Streams, Seen
  <2>2. CASE PublishCR(c) /\ Exists(cr)
    BY <2>2, PublishCRStep
  <2> QED
    BY <2>1, <2>2
<1>2. TypeOK' /\ Streams'
  BY <1>1, IdleType DEF TypeOK, Streams
<1>3. CRMoves
  <2>1. /\ cr' = cr \/ Exists(cr)
        /\ Exists(cr') => /\ cr'.uid = cr.uid /\ cr'.paused = cr.paused /\ cr'.deleting = cr.deleting
                          /\ cr.finalizer => cr'.finalizer
    BY <1>1
  <2>2. lastUid \in Nat /\ (Exists(cr) => cr.uid <= lastUid)
    BY DEF TypeOK, CopiesKept, Kept
  <2> QED
    BY <2>1, <2>2 DEF CRMoves
<1>4. CopiesKept' /\ Established' /\ FreshCopy' /\ Owned(workload)' /\ Owned(secret)'
  BY <1>1, <1>2, <1>3, IdleEstablished, CopiesStep, SameObjectsOwned
<1>5. Quiet'
  <2> SUFFICES ASSUME acked' PROVE Quiet'
    BY DEF Quiet
  <2>1. Exists(cr) /\ cr.paused /\ ~cr.deleting /\ \A k \in Seen : Exists(k) /\ k.paused
    BY DEF Quiet
  <2>2. Exists(cr') /\ cr'.paused /\ ~cr'.deleting
    BY <1>1, <2>1
  <2> QED
    BY <1>1, <2>1, <2>2, IdleType DEF Quiet
<1> QED
  BY <1>2, <1>4, <1>5

\* A write of the status.
LEMMA StatusKeepsInv ==
  ASSUME LifeInv, NEW c \in LiveCR, UpdateStatus(c, Idle),
         UNCHANGED <<workloadVars, secretVars, cacheVars, flags, lastUid, edits>>,
         acked' \in BOOLEAN,
         acked' => \/ acked
                   \/ worker.pc = "pauseStatus" /\ NoConflict /\ Exists(cr) /\ cr.paused
  PROVE  LifeInv'
<1> USE DEF LifeInv
<1> DEFINE d == WithStatusOf(cr, c)
<1>1. /\ worker' = Idle /\ queued' \in BOOLEAN /\ faults' \in 0..MaxFaults
      /\ (UNCHANGED crVars) \/ (PublishCR(d) /\ Exists(cr))
  <2>1. CASE NoConflict /\ Exists(cr) /\ PublishCR(WithStatusOf(cr, c)) /\ Reply(Idle)
    BY <2>1, ReplyType, IdleType
  <2>2. CASE Fail /\ UNCHANGED <<crVars, faults>>
    BY <2>2 DEF Fail, TypeOK
  <2> QED
    BY <2>1, <2>2 DEF UpdateStatus
<1>2. acked' => \/ acked
                \/ /\ Exists(cr) /\ cr.paused /\ ~cr.deleting
                   /\ \A k \in Seen : Exists(k) /\ k.paused
  BY DEF Established, FreshCopy, SameIntent, NoConflict
<1>3. CASE Exists(cr)
  <2>1. /\ d \in CR /\ Exists(d)
        /\ d.uid = cr.uid /\ d.paused = cr.paused /\ d.deleting = cr.deleting
        /\ cr.finalizer => d.finalizer
    BY <1>3, WithStatusType, Fields DEF TypeOK, CR, SameIntent
  <2> HIDE DEF d
  <2> QED
    BY <1>1, <1>2, <2>1, CRWriteKeepsInv
<1>4. CASE ~Exists(cr)
  <2>1. UNCHANGED crVars /\ (acked' => acked)
    BY <1>1, <1>2, <1>4
  <2> HIDE DEF d
  <2>2. ~acked'
    BY <1>4, <2>1 DEF Quiet
  <2>3. TypeOK' /\ Streams'
    BY <1>1, <2>1, IdleType DEF TypeOK, Streams, crVars, workloadVars, secretVars, cacheVars
  <2>4. Seen' = Seen /\ cr' = cr /\ lastUid' = lastUid
    BY <2>1 DEF Seen, crVars, cacheVars
  <2>5. CopiesKept' /\ Established' /\ FreshCopy' /\ Owned(workload)' /\ Owned(secret)'
    BY <1>1, <2>3, <2>4, IdleEstablished, SameCRMoves, CopiesStep, SameObjectsOwned DEF workloadVars, secretVars
  <2> QED
    BY <2>2, <2>3, <2>5 DEF Quiet
<1> QED
  BY <1>3, <1>4

\* Reconcile's writes of the finalizer and of the status, except the first of
\* handleDeletion.
LEMMA CRWritesKeepInv ==
  ASSUME LifeInv,
         RemoveFinalizer \/ AddFinalizer \/ ReportPaused \/ ReportInvalid \/ FinishReconcile
  PROVE  LifeInv'
<1> USE DEF LifeInv
<1>0. worker \in Worker /\ worker.snap \in CR
  BY WorkerType DEF TypeOK
<1>1. ASSUME NEW s \in {"removeFinalizer", "addFinalizer"}, worker.pc = s,
             NEW f \in BOOLEAN, f = FALSE => s = "removeFinalizer",
             Update([worker.snap EXCEPT !.finalizer = f], Idle),
             UNCHANGED <<workloadVars, secretVars, cacheVars, flags, acked, lastUid, edits>>
      PROVE  LifeInv'
  <2> DEFINE d == [worker.snap EXCEPT !.finalizer = f]
             c == IF d.deleting /\ ~d.finalizer THEN NoCR ELSE WithStatusOf(d, cr)
  <2>1. worker.snap \in LiveCR
    BY <1>0, <1>1, Fields DEF Established
  <2>2. /\ d \in LiveCR /\ d.finalizer = f
        /\ d.deleting = worker.snap.deleting /\ d.paused = worker.snap.paused /\ d.uid = worker.snap.uid
    BY <2>1 DEF LiveCR
  <2>3. /\ worker' = Idle /\ queued' \in BOOLEAN /\ faults' \in 0..MaxFaults
        /\ \/ UNCHANGED crVars
           \/ NoConflict /\ Exists(cr) /\ PublishCR(c)
    <3>1. CASE NoConflict /\ Exists(cr) /\ PublishCR(c) /\ Reply(Idle)
      BY <3>1, ReplyType, IdleType
    <3>2. CASE Fail /\ UNCHANGED <<crVars, faults>>
      BY <3>2 DEF Fail, TypeOK
    <3> QED
      BY <1>1, <3>1, <3>2 DEF Update
  <2>4. CASE NoConflict /\ Exists(cr) /\ PublishCR(c)
    <3>1. SameIntent(worker.snap, cr) /\ worker.snap.finalizer = cr.finalizer /\ cr \in LiveCR
      BY <2>4, Fields DEF NoConflict, FreshCopy, TypeOK
    <3>2. CASE d.deleting /\ ~d.finalizer
      <4>1. c = NoCR /\ cr.deleting
        BY <2>2, <3>1, <3>2 DEF SameIntent
      <4> HIDE DEF c, d
      <4> QED
        BY <1>1, <2>3, <2>4, <4>1, NoCRType, CRWriteKeepsInv DEF TypeOK
    <3>3. CASE ~(d.deleting /\ ~d.finalizer)
      <4>1. c = WithStatusOf(d, cr)
        BY <3>3
      <4>2. c \in CR /\ Exists(c) /\ SameIntent(c, d) /\ c.finalizer = d.finalizer
        BY <2>2, <3>1, <4>1, WithStatusType DEF CR
      <4>3. cr.deleting = d.deleting /\ cr.finalizer \in BOOLEAN
        BY <2>2, <3>1, Fields DEF SameIntent, LiveCR
      <4>4. f = FALSE => worker.snap.deleting
        BY <1>1 DEF Established
      <4>5. f = TRUE
        BY <2>2, <3>3, <4>4
      <4>6. /\ c.uid = cr.uid /\ c.paused = cr.paused /\ c.deleting = cr.deleting
            /\ cr.finalizer => c.finalizer
        BY <2>2, <3>1, <4>2, <4>3, <4>5 DEF SameIntent
      <4> HIDE DEF c, d
      <4> QED
        BY <1>1, <2>3, <2>4, <4>2, <4>6, CRWriteKeepsInv DEF TypeOK
    <3> QED
      BY <3>2, <3>3
  <2>5. CASE UNCHANGED crVars
    <3>1. cr \in CR /\ (~Exists(cr) => ~acked)
      BY DEF TypeOK, Quiet
    <3> HIDE DEF c, d
    <3>2. CASE Exists(cr)
      BY <1>1, <2>3, <2>5, <3>1, <3>2, CRWriteKeepsInv DEF TypeOK
    <3>3. CASE ~Exists(cr)
      <4>1. TypeOK' /\ Streams' /\ Seen' = Seen /\ cr' = cr /\ lastUid' = lastUid
        BY <1>1, <2>3, <2>5, IdleType
           DEF TypeOK, Streams, Seen, crVars, workloadVars, secretVars, cacheVars
      <4>2. CopiesKept' /\ Established' /\ FreshCopy' /\ Owned(workload)' /\ Owned(secret)'
        BY <1>1, <2>3, <4>1, IdleEstablished, SameCRMoves, CopiesStep, SameObjectsOwned
           DEF workloadVars, secretVars
      <4> QED
        BY <1>1, <3>1, <3>3, <4>1, <4>2 DEF Quiet
    <3> QED
      BY <3>2, <3>3
  <2> QED
    BY <2>3, <2>4, <2>5
<1>2. CASE RemoveFinalizer
  BY <1>1, <1>2 DEF RemoveFinalizer
<1>3. CASE AddFinalizer
  BY <1>1, <1>3 DEF AddFinalizer
<1>4. CASE ReportPaused
  <2> DEFINE c == [worker.snap EXCEPT !.reason = "Paused", !.observed = worker.snap.gen]
  <2>1. worker.snap \in LiveCR
    BY <1>0, <1>4, Fields DEF ReportPaused, Established
  <2>2. c \in LiveCR
    BY <2>1 DEF LiveCR, Reasons
  <2>3. acked' \in BOOLEAN /\ (acked' => \/ acked
                                         \/ worker.pc = "pauseStatus" /\ NoConflict /\ Exists(cr) /\ cr.paused)
    BY <1>4 DEF ReportPaused
  <2>4. UpdateStatus(c, Idle) /\ UNCHANGED <<workloadVars, secretVars, cacheVars, flags, lastUid, edits>>
    BY <1>4 DEF ReportPaused
  <2> HIDE DEF c
  <2> QED
    BY <2>2, <2>3, <2>4, StatusKeepsInv
<1>5. CASE ReportInvalid
  <2> DEFINE c == [worker.snap EXCEPT !.reason = "Invalid", !.phase = "Degraded",
                                      !.observed = worker.snap.gen]
  <2>1. worker.snap \in LiveCR
    BY <1>0, <1>5, Fields DEF ReportInvalid, Established
  <2>2. c \in LiveCR
    BY <2>1 DEF LiveCR, Reasons, Phases
  <2>3. UpdateStatus(c, Idle) /\ UNCHANGED <<workloadVars, secretVars, cacheVars, flags, acked, lastUid, edits>>
    BY <1>5 DEF ReportInvalid
  <2> HIDE DEF c
  <2> QED
    BY <2>2, <2>3, StatusKeepsInv DEF TypeOK
<1>6. CASE FinishReconcile
  <2> DEFINE c == [worker.snap EXCEPT !.reason = "Reconciled", !.phase = "Active",
                                      !.observed = worker.snap.gen]
  <2>1. worker.snap \in LiveCR
    BY <1>0, <1>6, Fields DEF FinishReconcile, Established
  <2>2. c \in LiveCR
    BY <2>1 DEF LiveCR, Reasons, Phases
  <2>3. UpdateStatus(c, Idle) /\ UNCHANGED <<workloadVars, secretVars, cacheVars, flags, acked, lastUid, edits>>
    BY <1>6 DEF FinishReconcile
  <2> HIDE DEF c
  <2> QED
    BY <2>2, <2>3, StatusKeepsInv DEF TypeOK
<1> QED
  BY <1>2, <1>3, <1>4, <1>5, <1>6

\* The start of an attempt.
LEMMA StartKeepsInv ==
  ASSUME LifeInv, StartReconcile
  PROVE  LifeInv'
<1> USE DEF LifeInv, crVars, workloadVars, secretVars, cacheVars, boundVars
<1>0. cr' = cr /\ Seen' = Seen /\ lastUid' = lastUid /\ acked' = acked /\ queued' = FALSE
      /\ workload' = workload /\ secret' = secret
  BY DEF StartReconcile, Seen
<1>1. CASE worker' = Idle
  <2>1. TypeOK' /\ Streams'
    BY <1>1, IdleType DEF StartReconcile, TypeOK, Streams
  <2>2. CopiesKept' /\ Established' /\ FreshCopy' /\ Owned(workload)' /\ Owned(secret)'
    BY <1>0, <1>1, <2>1, IdleEstablished, SameCRMoves, CopiesStep, SameObjectsOwned
  <2>3. Quiet'
    BY <1>0, <1>1, IdleType DEF Quiet
  <2> QED
    BY <2>1, <2>2, <2>3
<1>2. CASE Dispatch(crCache) # "idle"
  <2> DEFINE c == Pending(crCache)
  <2>1. Exists(crCache) /\ crCache \in LiveCR
    BY <1>2, Fields DEF Dispatch, TypeOK
  <2>2. /\ c \in LiveCR /\ SameIntent(c, crCache) /\ c.finalizer = crCache.finalizer /\ Exists(c)
    BY <2>1 DEF Pending, LiveCR, Phases, SameIntent, Exists
  <2>3. worker' = [pc |-> Dispatch(crCache), snap |-> c, fresh |-> crWatch = <<>>]
    BY <1>2 DEF StartReconcile
  <2>4. /\ Dispatch(crCache) \in Points
        /\ Dispatch(crCache) \in {"secret", "workload", "finish"} =>
             crCache.finalizer /\ ~crCache.paused
        /\ Dispatch(crCache) \in {"deletingStatus", "removeFinalizer"} => crCache.deleting
        /\ Dispatch(crCache) = "pauseStatus" => ~crCache.deleting
    BY DEF Dispatch, Points
  <2> HIDE DEF c
  <2>5. /\ worker' \in Worker /\ worker'.snap = c /\ worker'.pc = Dispatch(crCache)
        /\ worker'.fresh = (crWatch = <<>>)
    BY <2>2, <2>3, <2>4 DEF Worker, CR
  <2>6. TypeOK' /\ Streams'
    BY <2>5 DEF StartReconcile, TypeOK, Streams
  <2>7. Established'
    BY <2>2, <2>4, <2>5 DEF Established, SameIntent
  <2>8. CopyMoves
    BY <2>2, <2>5, LiveIsSeen DEF CopyMoves, SameIntent
  <2>9. CopiesKept' /\ Owned(workload)' /\ Owned(secret)'
    BY <1>0, <2>6, <2>8, SameCRMoves, CopiesStep, SameObjectsOwned
  <2>10. FreshCopy'
    <3> SUFFICES ASSUME crWatch = <<>> PROVE FreshCopy'
      BY <2>5 DEF FreshCopy
    <3>1. crCache = cr /\ Seen = {cr}
      BY DEF Streams, Latest, Seen, Values
    <3> QED
      BY <1>0, <2>1, <2>2, <2>5, <3>1 DEF FreshCopy
  <2>11. Quiet'
    <3> SUFFICES ASSUME acked PROVE Quiet'
      BY <1>0 DEF Quiet
    <3>1. crCache.paused
      BY LiveIsSeen DEF Quiet
    <3> QED
      BY <1>0, <2>4, <2>5, <3>1 DEF Quiet
  <2> QED
    BY <2>6, <2>7, <2>9, <2>10, <2>11
<1> QED
  BY <1>1, <1>2 DEF StartReconcile

\* The first half of handleDeletion.
LEMMA DeletingStatusKeepsInv ==
  ASSUME LifeInv, DeletingStatus
  PROVE  LifeInv'
<1> USE DEF LifeInv, workloadVars, secretVars, cacheVars
<1> DEFINE c == [worker.snap EXCEPT !.phase = "Deleting"]
           d == WithStatusOf(cr, c)
<1>0. worker \in Worker /\ worker.pc = "deletingStatus"
  BY DEF DeletingStatus, TypeOK
<1>1. worker.snap \in LiveCR /\ Exists(worker.snap) /\ worker.snap.deleting
  BY <1>0, WorkerType, Fields DEF Established
<1>2. /\ c \in LiveCR /\ SameIntent(c, worker.snap) /\ c.finalizer = worker.snap.finalizer /\ Exists(c)
  BY <1>1 DEF LiveCR, Phases, SameIntent, Exists
<1>3. /\ worker' = [worker EXCEPT !.pc = "removeFinalizer", !.snap = c] \/
         worker' = [worker EXCEPT !.pc = "removeFinalizer"]
      /\ faults' \in 0..MaxFaults
      /\ (UNCHANGED crVars) \/ (Exists(cr) /\ PublishCR(d))
  BY LifecycleAssumption DEF DeletingStatus, TypeOK
<1>4. /\ worker' \in Worker /\ worker'.pc = "removeFinalizer" /\ worker'.fresh = worker.fresh
      /\ SameIntent(worker'.snap, worker.snap) /\ worker'.snap.finalizer = worker.snap.finalizer
      /\ Exists(worker'.snap)
  <2> HIDE DEF c
  <2>1. worker'.pc = "removeFinalizer" /\ worker'.fresh = worker.fresh /\ worker' \in Worker
    BY <1>0, <1>1, <1>2, <1>3 DEF Worker, Points, CR
  <2>2. worker'.snap \in {c, worker.snap}
    BY <1>0, <1>3 DEF Worker
  <2> QED
    BY <1>1, <1>2, <2>1, <2>2 DEF SameIntent
<1>5. Exists(cr) => d \in CR /\ Exists(d) /\ SameIntent(d, cr) /\ d.finalizer = cr.finalizer
  <2> SUFFICES ASSUME Exists(cr) PROVE d \in CR /\ Exists(d) /\ SameIntent(d, cr) /\ d.finalizer = cr.finalizer
    OBVIOUS
  <2>1. cr \in LiveCR
    BY Fields DEF TypeOK
  <2> HIDE DEF c
  <2> QED
    BY <1>2, <2>1, WithStatusType DEF CR
<1> HIDE DEF c, d
<1>6. /\ cr' \in CR /\ crWatch' \in Seq(CR) /\ Latest(cr', crCache', crWatch')
      /\ Seen' \subseteq Seen \cup {cr'}
      /\ \/ cr' = cr
         \/ Exists(cr) /\ Exists(cr') /\ SameIntent(cr', cr) /\ cr'.finalizer = cr.finalizer
  <2>1. CASE UNCHANGED crVars
    BY <2>1 DEF DeletingStatus, crVars, TypeOK, Streams, Seen
  <2>2. CASE Exists(cr) /\ PublishCR(d)
    BY <1>5, <2>2, PublishCRStep DEF DeletingStatus
  <2> QED
    BY <1>3, <2>1, <2>2
<1>7. TypeOK' /\ Streams'
  BY <1>3, <1>4, <1>6 DEF DeletingStatus, TypeOK, Streams
<1>8. CRMoves
  <2>1. lastUid \in Nat /\ lastUid' = lastUid /\ (Exists(cr) => cr.uid <= lastUid)
    BY DEF DeletingStatus, TypeOK, CopiesKept, Kept
  <2> QED
    BY <1>6, <2>1 DEF CRMoves, SameIntent
<1>9. CopyMoves
  BY <1>4 DEF CopyMoves, SameIntent
<1>10. CopiesKept' /\ Owned(workload)' /\ Owned(secret)'
  BY <1>6, <1>7, <1>8, <1>9, CopiesStep, SameObjectsOwned DEF DeletingStatus
<1>11. Established'
  BY <1>1, <1>4 DEF Established, SameIntent
<1>12. FreshCopy'
  BY <1>4, <1>6 DEF FreshCopy, SameIntent
<1>13. Quiet'
  BY <1>4, <1>6 DEF DeletingStatus, Quiet, SameIntent
<1> QED
  BY <1>7, <1>10, <1>11, <1>12, <1>13

-----------------------------------------------------------------------------
(* Owned objects                                                           *)

LEMMA AbsentType ==
  Absent \in Workload /\ Absent \in Secret /\ Absent.owner = 0 /\ Absent.there = FALSE
BY DEF Absent, Workload, Secret

LEMMA PublishWorkloadStep ==
  ASSUME TypeOK, Streams, NEW w \in Workload, PublishWorkload(w), UNCHANGED workloadCache
  PROVE  /\ workload' = w /\ workloadWatch' \in Seq(Workload)
         /\ Latest(workload', workloadCache', workloadWatch')
<1>1. /\ workloadWatch \in Seq(Workload) /\ Latest(workload, workloadCache, workloadWatch)
      /\ workloadWatch' = Sent(w, workload, workloadWatch)
  BY DEF TypeOK, Streams, PublishWorkload, Sent
<1>2. workloadWatch' \in Seq(Workload) /\ Latest(w, workloadCache, workloadWatch')
  BY <1>1, PublishLatest
<1>3. workload' = w /\ workloadCache' = workloadCache
  BY DEF PublishWorkload
<1> QED
  BY <1>2, <1>3

LEMMA PublishSecretStep ==
  ASSUME TypeOK, NEW s \in Secret, PublishSecret(s)
  PROVE  secret' = s /\ secretWatch' \in Seq(Secret)
BY AppendProperties DEF PublishSecret, TypeOK

\* A step that leaves the CR alone, and its copy or none in the operator's hands.
LEMMA ObjectStepKeepsInv ==
  ASSUME LifeInv, TypeOK', Latest(workload, workloadCache, workloadWatch)',
         UNCHANGED <<crVars, crCache, acked, lastUid>>,
         \/ worker' = Idle
         \/ worker'.snap = worker.snap /\ worker'.fresh = worker.fresh /\ worker'.pc = worker.pc
         \/ /\ worker'.snap = worker.snap /\ worker'.fresh = worker.fresh
            /\ worker.pc \in {"secret", "workload"} /\ worker'.pc \in {"workload", "finish"},
         \/ workload'.owner = workload.owner
         \/ workload'.owner = 0
         \/ workload'.owner = worker.snap.uid /\ Exists(worker.snap) /\ worker.snap.finalizer,
         \/ secret'.owner = secret.owner
         \/ secret'.owner = 0
         \/ secret'.owner = worker.snap.uid /\ Exists(worker.snap) /\ worker.snap.finalizer
  PROVE  LifeInv'
<1> USE DEF LifeInv, crVars
<1>1. Streams' /\ Seen' = Seen /\ cr' = cr /\ lastUid' = lastUid
  BY DEF Streams, Seen
<1>2. CRMoves
  BY <1>1, SameCRMoves
<1>3. CopyMoves
  BY IdleEstablished DEF CopyMoves
<1>4. CopiesKept'
  BY <1>1, <1>2, <1>3, CopiesStep
<1>5. Owned(workload)' /\ Owned(secret)'
  BY <1>2, OwnedStep, OwnerType DEF Owned
<1>6. Established' /\ FreshCopy'
  BY <1>1, IdleEstablished DEF Established, FreshCopy
<1>7. Quiet'
  BY <1>1, IdleType DEF Quiet
<1> QED
  BY <1>1, <1>4, <1>5, <1>6, <1>7

\* What the operator does to the objects it owns.
LEMMA EnsureKeepsInv ==
  ASSUME LifeInv, EnsureSecret \/ EnsureWorkload
  PROVE  LifeInv'
<1> USE DEF LifeInv, crVars, workloadVars, secretVars, cacheVars
<1>0. worker \in Worker /\ worker.snap \in CR
  BY WorkerType DEF TypeOK
<1>1. CASE EnsureSecret
  <2> DEFINE next == [worker EXCEPT !.pc = "workload"]
             s == [there |-> TRUE, owner |-> OwnedBy(worker.snap.uid)]
  <2>1. worker.pc = "secret" /\ Exists(worker.snap) /\ worker.snap.finalizer
    BY <1>1 DEF EnsureSecret, Established
  <2>2. next \in Worker /\ next.pc = "workload" /\ next.snap = worker.snap /\ next.fresh = worker.fresh
    BY <1>0 DEF Worker, Points
  <2>3. s \in Secret /\ s.owner = worker.snap.uid
    BY <1>0, <2>1, Fields DEF Secret, OwnedBy
  <2> HIDE DEF next, s
  <2>4. /\ worker' \in {next, Idle} /\ queued' \in BOOLEAN /\ faults' \in 0..MaxFaults
        /\ (UNCHANGED secretVars) \/ PublishSecret(s)
    <3>1. CASE worker' = next /\ UNCHANGED <<secretVars, queued, faults>>
      BY <3>1 DEF TypeOK
    <3>2. CASE PublishSecret(s) /\ Reply(next)
      BY <2>2, <3>2, ReplyType
    <3>3. CASE Fail /\ UNCHANGED <<secretVars, faults>>
      BY <3>3 DEF Fail, TypeOK
    <3> QED
      BY <1>1, <3>1, <3>2, <3>3 DEF EnsureSecret, next, s
  <2>5. secret' \in {secret, s} /\ secret' \in Secret /\ secretWatch' \in Seq(Secret)
    BY <2>3, <2>4, PublishSecretStep DEF TypeOK
  <2>6. TypeOK' /\ Latest(workload, workloadCache, workloadWatch)'
    BY <1>1, <2>2, <2>4, <2>5, IdleType DEF EnsureSecret, TypeOK, Streams
  <2>7. UNCHANGED <<crVars, crCache, acked, lastUid, workload>>
    BY <1>1 DEF EnsureSecret
  <2> QED
    BY <2>1, <2>2, <2>3, <2>4, <2>5, <2>6, <2>7, ObjectStepKeepsInv
<1>2. CASE EnsureWorkload
  <2> DEFINE next == [worker EXCEPT !.pc = "finish"]
             spec == worker.snap.spec
             u == [workload EXCEPT !.spec = spec]
             w == [there |-> TRUE, owner |-> OwnedBy(worker.snap.uid), spec |-> spec]
  <2>1. worker.pc = "workload" /\ Exists(worker.snap) /\ worker.snap.finalizer /\ spec \in Specs
    BY <1>0, <1>2, Fields DEF EnsureWorkload, Established
  <2>2. next \in Worker /\ next.pc = "finish" /\ next.snap = worker.snap /\ next.fresh = worker.fresh
    BY <1>0 DEF Worker, Points
  <2>3. w \in Workload /\ w.owner = worker.snap.uid
    BY <1>0, <2>1, Fields DEF Workload, OwnedBy
  <2>4. workload.there => u \in Workload /\ u.owner = workload.owner
    BY <2>1, AbsentType DEF TypeOK, Workload
  <2>5. workloadWatch = <<>> => workloadCache = workload
    BY DEF Streams, Latest
  <2> HIDE DEF next, w, u
  <2>6. /\ worker' \in {next, Idle} /\ queued' \in BOOLEAN /\ faults' \in 0..MaxFaults
        /\ \/ UNCHANGED workloadVars
           \/ PublishWorkload(w)
           \/ PublishWorkload(u) /\ workload.there
    <3>1. CASE worker' = next /\ UNCHANGED <<workloadVars, queued, faults>>
      BY <3>1 DEF TypeOK
    <3>2. CASE PublishWorkload(u) /\ workloadCache.there /\ workloadWatch = <<>> /\ Reply(next)
      BY <2>2, <2>5, <3>2, ReplyType
    <3>3. CASE PublishWorkload(w) /\ Reply(next)
      BY <2>2, <3>3, ReplyType
    <3>4. CASE Fail /\ UNCHANGED <<workloadVars, faults>>
      BY <3>4 DEF Fail, TypeOK
    <3> QED
      BY <1>2, <3>1, <3>2, <3>3, <3>4 DEF EnsureWorkload, next, w, u
  <2>7. /\ workload' \in {workload, w} \/ (workload' = u /\ workload.there)
        /\ workload' \in Workload /\ workloadWatch' \in Seq(Workload)
        /\ Latest(workload, workloadCache, workloadWatch)'
    <3>1. UNCHANGED workloadCache
      BY <1>2 DEF EnsureWorkload
    <3>2. CASE UNCHANGED workloadVars
      BY <3>1, <3>2 DEF TypeOK, Streams
    <3>3. CASE PublishWorkload(w)
      BY <2>3, <3>1, <3>3, PublishWorkloadStep
    <3>4. CASE PublishWorkload(u) /\ workload.there
      BY <2>4, <3>1, <3>4, PublishWorkloadStep
    <3> QED
      BY <2>6, <3>2, <3>3, <3>4
  <2>8. TypeOK'
    BY <1>2, <2>2, <2>6, <2>7, IdleType DEF EnsureWorkload, TypeOK
  <2>9. UNCHANGED <<crVars, crCache, acked, lastUid, secret>>
    BY <1>2 DEF EnsureWorkload
  <2>10. \/ workload'.owner = workload.owner
         \/ workload'.owner = worker.snap.uid
    BY <2>3, <2>4, <2>7
  <2> QED
    BY <2>1, <2>2, <2>6, <2>7, <2>8, <2>9, <2>10, ObjectStepKeepsInv
<1> QED
  BY <1>1, <1>2

\* The garbage collector, the watches of the objects, their drift, and failures.
LEMMA ClusterKeepsInv ==
  ASSUME LifeInv,
         \/ DeliverWorkload \/ WorkloadEvent \/ DeliverSecret
         \/ CollectWorkload \/ CollectSecret \/ DeleteWorkload \/ CallFails
  PROVE  LifeInv'
<1> USE DEF LifeInv, crVars, workloadVars, secretVars, cacheVars, boundVars
<1>1. CASE DeliverWorkload
  <2>1. /\ workloadCache' \in Workload /\ workloadWatch' \in Seq(Workload)
        /\ Latest(workload, workloadCache', workloadWatch')
    BY <1>1, DeliverLatest DEF DeliverWorkload, TypeOK, Streams
  <2>2. TypeOK'
    BY <1>1, <2>1 DEF DeliverWorkload, Watched, TypeOK
  <2>3. UNCHANGED <<crVars, crCache, acked, lastUid, workload, secret, worker>>
    BY <1>1 DEF DeliverWorkload
  <2> QED
    BY <2>1, <2>2, <2>3, ObjectStepKeepsInv
<1>2. CASE WorkloadEvent
  <2>1. TypeOK' /\ Latest(workload, workloadCache, workloadWatch)'
    BY <1>2 DEF WorkloadEvent, Watched, TypeOK, Streams
  <2> QED
    BY <1>2, <2>1, ObjectStepKeepsInv DEF WorkloadEvent
<1>3. CASE DeliverSecret
  <2>1. TypeOK' /\ Latest(workload, workloadCache, workloadWatch)'
    BY <1>3, HeadTailProperties DEF DeliverSecret, TypeOK, Streams
  <2> QED
    BY <1>3, <2>1, ObjectStepKeepsInv DEF DeliverSecret
<1>4. CASE CollectWorkload \/ DeleteWorkload
  <2>1. PublishWorkload(Absent) /\ UNCHANGED <<crVars, crCache, workloadCache, acked, lastUid, secretVars, worker>>
    BY <1>4 DEF CollectWorkload, DeleteWorkload
  <2>2. /\ workload' = Absent /\ workloadWatch' \in Seq(Workload)
        /\ Latest(workload, workloadCache, workloadWatch)'
    BY <2>1, AbsentType, PublishWorkloadStep
  <2>3. edits' \in 0..MaxEdits
    BY <1>4, LifecycleAssumption DEF CollectWorkload, DeleteWorkload, TypeOK
  <2>4. TypeOK'
    BY <1>4, <2>2, <2>3, AbsentType DEF CollectWorkload, DeleteWorkload, TypeOK
  <2>5. workload'.owner = 0
    BY <2>2, AbsentType
  <2> QED
    BY <2>1, <2>2, <2>4, <2>5, ObjectStepKeepsInv
<1>5. CASE CollectSecret
  <2>1. secret' = Absent /\ secretWatch' \in Seq(Secret)
    BY <1>5, AbsentType, PublishSecretStep DEF CollectSecret
  <2>2. TypeOK' /\ Latest(workload, workloadCache, workloadWatch)'
    BY <1>5, <2>1, AbsentType DEF CollectSecret, TypeOK, Streams
  <2>3. secret'.owner = 0 /\ UNCHANGED <<crVars, crCache, acked, lastUid, workload, worker>>
    BY <1>5, <2>1, AbsentType DEF CollectSecret
  <2> QED
    BY <2>2, <2>3, ObjectStepKeepsInv
<1>6. CASE CallFails
  <2>1. TypeOK' /\ Latest(workload, workloadCache, workloadWatch)'
    BY <1>6, IdleType, LifecycleAssumption DEF CallFails, Fail, TypeOK, Streams
  <2>2. worker' = Idle /\ UNCHANGED <<crVars, crCache, acked, lastUid, workload, secret>>
    BY <1>6 DEF CallFails, Fail
  <2> QED
    BY <2>1, <2>2, ObjectStepKeepsInv
<1> QED
  BY <1>1, <1>2, <1>3, <1>4, <1>5, <1>6

-----------------------------------------------------------------------------
(* The informer of the CR, restarts and the user                           *)

LEMMA DeliverCRKeepsInv == ASSUME LifeInv, DeliverCR PROVE LifeInv'
<1> USE DEF LifeInv, workloadVars, secretVars, boundVars
<1>1. /\ crCache' \in CR /\ crWatch' \in Seq(CR) /\ Latest(cr, crCache', crWatch')
      /\ Seen' \subseteq Seen
  <2>1. /\ Head(crWatch) \in CR /\ Tail(crWatch) \in Seq(CR)
        /\ {Head(crWatch)} \cup Values(Tail(crWatch)) \subseteq Values(crWatch)
        /\ Latest(cr, Head(crWatch), Tail(crWatch))
    BY DeliverLatest DEF DeliverCR, TypeOK, Streams
  <2> QED
    BY <2>1 DEF DeliverCR, Seen
<1>2. TypeOK' /\ Streams'
  BY <1>1 DEF DeliverCR, TypeOK, Streams
<1>3. CopiesKept' /\ Owned(workload)' /\ Owned(secret)'
  BY <1>1 DEF DeliverCR, CopiesKept, Kept, Owned
<1>4. Established' /\ FreshCopy' /\ Quiet'
  BY <1>1 DEF DeliverCR, Established, FreshCopy, Quiet
<1> QED
  BY <1>2, <1>3, <1>4

\* The new operator starts from the live objects, and one is among those seen.
LEMMA RestartKeepsInv == ASSUME LifeInv, Restart PROVE LifeInv'
<1> USE DEF LifeInv
<1>1. Seen' = {cr} /\ cr \in Seen
  BY LiveIsSeen DEF Restart, Seen, Values
<1>2. flags' \in Flags /\ faults' \in 0..MaxFaults
  BY LifecycleAssumption DEF Restart, TypeOK
<1>3. TypeOK' /\ Streams'
  BY <1>2, IdleType DEF Restart, Fail, TypeOK, Streams, Latest
<1>4. worker' = Idle /\ UNCHANGED <<cr, lastUid, workload, secret, acked>>
  BY DEF Restart, Fail
<1>5. CopiesKept' /\ Established' /\ FreshCopy' /\ Owned(workload)' /\ Owned(secret)'
  BY <1>1, <1>3, <1>4, IdleEstablished, SameCRMoves, CopiesStep, SameObjectsOwned
<1>6. Quiet'
  BY <1>1, <1>4, IdleType DEF Quiet
<1> QED
  BY <1>3, <1>5, <1>6

\* The user writes c.
LEMMA UserKeepsInv ==
  ASSUME LifeInv, NEW c \in CR, UserWrites(c), lastUid' \in 0..MaxCRs, edits' \in 0..MaxEdits,
         lastUid <= lastUid',
         Exists(c) => c.uid <= lastUid',
         Exists(cr) /\ Exists(c) => c.uid = cr.uid /\ (cr.finalizer => c.finalizer),
         ~Exists(cr) /\ Exists(c) => c.uid > lastUid,
         acked' \in BOOLEAN,
         acked' => /\ acked
                   /\ Exists(cr) => Exists(c) /\ c.paused = cr.paused /\ c.deleting = cr.deleting
  PROVE  LifeInv'
<1> USE DEF LifeInv, workloadVars, secretVars, cacheVars
<1>1. /\ cr' = c /\ crWatch' \in Seq(CR) /\ Latest(cr', crCache', crWatch')
      /\ Seen' \subseteq Seen \cup {cr'}
  BY PublishCRStep DEF UserWrites
<1>2. /\ worker' \in Worker /\ worker'.pc = worker.pc /\ worker'.snap = worker.snap
      /\ worker'.fresh = FALSE
  BY DEF UserWrites, TypeOK, Worker
<1>3. TypeOK' /\ Streams'
  BY <1>1, <1>2 DEF UserWrites, TypeOK, Streams
<1>4. CRMoves
  BY <1>1 DEF CRMoves
<1>5. CopyMoves
  BY <1>2 DEF CopyMoves
<1>6. CopiesKept' /\ Owned(workload)' /\ Owned(secret)'
  BY <1>1, <1>3, <1>4, <1>5, CopiesStep, SameObjectsOwned DEF UserWrites
<1>7. Established' /\ FreshCopy'
  BY <1>2 DEF Established, FreshCopy
<1>8. Quiet'
  BY <1>1, <1>2 DEF Quiet
<1> QED
  BY <1>3, <1>6, <1>7, <1>8

LEMMA UserStepsKeepInv ==
  ASSUME LifeInv, CreateCR \/ EditSpec \/ TogglePause \/ DeleteCR
  PROVE  LifeInv'
<1> USE DEF LifeInv
<1>0. /\ lastUid \in 0..MaxCRs /\ edits \in 0..MaxEdits /\ acked \in BOOLEAN /\ MaxCRs \in Nat
      /\ MaxEdits \in Nat /\ (Exists(cr) => cr \in LiveCR /\ cr.uid <= lastUid) /\ (acked => Exists(cr))
  BY LifecycleAssumption, Fields DEF TypeOK, CopiesKept, Kept, Quiet
<1>1. CASE CreateCR
  <2>1. PICK s \in Specs :
          UserWrites([uid |-> lastUid + 1, spec |-> s, gen |-> 1, paused |-> FALSE, finalizer |-> FALSE,
                      deleting |-> FALSE, reason |-> "", phase |-> "", observed |-> 0])
    BY <1>1 DEF CreateCR
  <2> DEFINE c == [uid |-> lastUid + 1, spec |-> s, gen |-> 1, paused |-> FALSE, finalizer |-> FALSE,
                   deleting |-> FALSE, reason |-> "", phase |-> "", observed |-> 0]
  <2>2. c \in CR /\ c.uid = lastUid + 1
    <3>1. lastUid + 1 \in Nat \ {0}
      BY <1>0
    <3>2. c \in LiveCR
      BY <3>1 DEF LiveCR, Reasons, Phases
    <3> QED
      BY <3>2 DEF CR
  <2> HIDE DEF c
  <2>3. ~Exists(cr) /\ lastUid' = lastUid + 1 /\ lastUid < MaxCRs /\ UNCHANGED <<acked, edits>>
    BY <1>1 DEF CreateCR
  <2>4. lastUid' \in 0..MaxCRs /\ lastUid <= lastUid' /\ c.uid <= lastUid' /\ c.uid > lastUid
    BY <1>0, <2>2, <2>3
  <2> QED
    BY <1>0, <2>1, <2>2, <2>3, <2>4, UserKeepsInv DEF c
<1>2. CASE EditSpec
  <2>1. PICK s \in Specs : Edit([cr EXCEPT !.spec = s, !.gen = @ + 1])
    BY <1>2 DEF EditSpec
  <2> DEFINE c == [cr EXCEPT !.spec = s, !.gen = @ + 1]
  <2>2. Exists(cr) /\ cr \in LiveCR
    BY <1>0, <1>2 DEF EditSpec
  <2>3. /\ c \in CR /\ c.uid = cr.uid /\ c.paused = cr.paused /\ c.deleting = cr.deleting
        /\ c.finalizer = cr.finalizer
    <3>1. cr.gen + 1 \in Nat
      BY <2>2 DEF LiveCR
    <3> QED
      BY <2>2, <3>1 DEF CR, LiveCR
  <2> HIDE DEF c
  <2>4. UserWrites(c) /\ lastUid' = lastUid /\ edits < MaxEdits /\ edits' = edits + 1 /\ acked' = acked
    BY <1>2, <2>1 DEF Edit, EditSpec, c
  <2>5. edits' \in 0..MaxEdits
    BY <1>0, <2>4
  <2> QED
    BY <1>0, <2>2, <2>3, <2>4, <2>5, UserKeepsInv DEF Exists
<1>3. CASE TogglePause
  <2> DEFINE c == [cr EXCEPT !.paused = ~@]
  <2>1. Exists(cr) /\ cr \in LiveCR
    BY <1>0, <1>3 DEF TogglePause
  <2>2. /\ c \in CR /\ c.uid = cr.uid /\ c.finalizer = cr.finalizer
    BY <2>1 DEF CR, LiveCR
  <2> HIDE DEF c
  <2>3. UserWrites(c) /\ lastUid' = lastUid /\ edits' \in 0..MaxEdits /\ acked' = FALSE
    BY <1>0, <1>3 DEF TogglePause, Edit, c
  <2>4. /\ lastUid' \in 0..MaxCRs /\ lastUid <= lastUid' /\ c.uid <= lastUid'
    BY <1>0, <2>1, <2>2, <2>3
  <2>5. acked' \in BOOLEAN /\ ~acked'
    BY <2>3
  <2> QED
    BY <2>1, <2>2, <2>3, <2>4, <2>5, UserKeepsInv
<1>4. CASE DeleteCR
  <2> DEFINE c == IF cr.finalizer THEN [cr EXCEPT !.deleting = TRUE, !.gen = @ + 1] ELSE NoCR
  <2>1. Exists(cr) /\ cr \in LiveCR
    BY <1>0, <1>4 DEF DeleteCR
  <2>2. c \in CR /\ (Exists(c) => c.uid = cr.uid /\ c.finalizer = cr.finalizer)
    <3>1. cr.gen + 1 \in Nat
      BY <2>1 DEF LiveCR
    <3>2. [cr EXCEPT !.deleting = TRUE, !.gen = @ + 1] \in LiveCR
      BY <2>1, <3>1 DEF LiveCR
    <3> QED
      BY <2>1, <3>2, NoCRType DEF CR, LiveCR
  <2> HIDE DEF c
  <2>3. UserWrites(c) /\ UNCHANGED <<lastUid, edits>> /\ acked' = FALSE
    BY <1>4 DEF DeleteCR, c
  <2>4. /\ lastUid' \in 0..MaxCRs /\ edits' \in 0..MaxEdits /\ lastUid <= lastUid'
        /\ Exists(c) => c.uid <= lastUid'
    BY <1>0, <2>1, <2>2, <2>3
  <2>5. acked' \in BOOLEAN /\ ~acked'
    BY <2>3
  <2> QED
    BY <2>1, <2>2, <2>3, <2>4, <2>5, UserKeepsInv
<1> QED
  BY <1>1, <1>2, <1>3, <1>4

-----------------------------------------------------------------------------
(* Theorems                                                                *)

LEMMA InitOK == Init => LifeInv
<1> SUFFICES ASSUME Init PROVE LifeInv
  OBVIOUS
<1>1. TypeOK
  <2>1. /\ cr \in CR /\ crCache \in CR /\ crWatch \in Seq(CR)
        /\ workload \in Workload /\ workloadCache \in Workload /\ workloadWatch \in Seq(Workload)
        /\ secret \in Secret /\ secretCache \in Secret /\ secretWatch \in Seq(Secret)
    BY NoCRType, AbsentType, EmptySeq DEF Init
  <2>2. flags \in Flags /\ worker \in Worker /\ queued \in BOOLEAN /\ acked \in BOOLEAN
    BY IdleType, LifecycleAssumption DEF Init
  <2>3. lastUid \in 0..MaxCRs /\ edits \in 0..MaxEdits /\ faults \in 0..MaxFaults
    BY LifecycleAssumption DEF Init
  <2> QED
    BY <2>1, <2>2, <2>3 DEF TypeOK
<1>2. Streams /\ Owned(workload) /\ Owned(secret)
  BY AbsentType DEF Init, Streams, Latest, Owned
<1>3. Seen = {NoCR} /\ worker.snap = NoCR /\ cr = NoCR /\ worker.pc = "idle" /\ ~worker.fresh /\ ~acked
  BY IdleType DEF Init, Seen, Values
<1>4. CopiesKept /\ Established /\ FreshCopy /\ Quiet
  BY <1>3, NoCRType DEF CopiesKept, Kept, Established, FreshCopy, Quiet
<1> QED
  BY <1>1, <1>2, <1>4 DEF LifeInv

\* What Reconcile has seen in its copy of the CR, and what the versions on their way
\* to it still say about the live one, whatever the user and faults do in between.
THEOREM LifeInvariant == Spec => []LifeInv
<1>1. LifeInv /\ [Next]_vars => LifeInv'
  <2> SUFFICES ASSUME LifeInv, [Next]_vars PROVE LifeInv'
    OBVIOUS
  <2>1. CASE Reconciling
    BY <2>1, StartKeepsInv, DeletingStatusKeepsInv, CRWritesKeepInv, EnsureKeepsInv DEF Reconciling
  <2>2. CASE Cluster
    BY <2>2, DeliverCRKeepsInv, ClusterKeepsInv DEF Cluster
  <2>3. CASE User
    BY <2>3, UserStepsKeepInv, ClusterKeepsInv DEF User
  <2>4. CASE CallFails \/ Restart
    BY <2>4, ClusterKeepsInv, RestartKeepsInv
  <2>5. CASE UNCHANGED vars
    BY <2>5 DEF vars, LifeInv, TypeOK, Streams, CopiesKept, Kept, Seen, Established, FreshCopy, Quiet, Owned
  <2> QED
    BY <2>1, <2>2, <2>3, <2>4, <2>5 DEF Next
<1> QED
  BY <1>1, InitOK, PTL DEF Spec

\* Every variable keeps its type.
THEOREM TypeCorrect == Spec => []TypeOK
<1>1. LifeInv => TypeOK
  BY DEF LifeInv
<1> QED
  BY <1>1, LifeInvariant, PTL

\* No object is ever owned by a live CR without the finalizer: even a copy that is
\* outdated when it is acted on says so of its own CR only.
THEOREM FinalizerIsFirst == Spec => []FinalizerFirst
<1>1. LifeInv => FinalizerFirst
  BY DEF LifeInv, Owned, FinalizerFirst
<1> QED
  BY <1>1, LifeInvariant, PTL

\* A pause that the status has reported is in force: no version from before it is
\* left for a reconcile to act on.
THEOREM PauseIsQuiet == Spec => []PausedIsQuiet
<1>1. LifeInv => PausedIsQuiet
  BY DEF LifeInv, Quiet, PausedIsQuiet
<1> QED
  BY <1>1, LifeInvariant, PTL

\* The operator's writes of the whole object never undo what the user asked for: a
\* copy that is old enough to differ is too old to be written.
THEOREM EditsAreKept == Spec => EditsSurvive
<1> DEFINE Step ==
      Exists(cr) /\ Exists(cr') /\ worker'.pc # worker.pc =>
        cr'.spec = cr.spec /\ cr'.paused = cr.paused /\ cr'.deleting = cr.deleting
<1>1. LifeInv /\ [Next]_vars => [Step]_vars
  <2> SUFFICES ASSUME LifeInv, Next, Exists(cr), Exists(cr'), worker'.pc # worker.pc
               PROVE  cr'.spec = cr.spec /\ cr'.paused = cr.paused /\ cr'.deleting = cr.deleting
    OBVIOUS
  <2> USE DEF crVars
  <2>0. cr \in LiveCR
    BY Fields DEF LifeInv, TypeOK
  <2>1. ASSUME NEW c \in LiveCR, cr' = cr \/ cr' = WithStatusOf(cr, c)
        PROVE  cr'.spec = cr.spec /\ cr'.paused = cr.paused /\ cr'.deleting = cr.deleting
    BY <2>0, <2>1, WithStatusType DEF SameIntent
  <2>2. worker.pc # "idle" => worker.snap \in LiveCR
    BY Fields, WorkerType DEF LifeInv, TypeOK, Established
  <2>3. CASE DeletingStatus
    <3> DEFINE c == [worker.snap EXCEPT !.phase = "Deleting"]
    <3>1. c \in LiveCR
      BY <2>2, <2>3 DEF DeletingStatus, LiveCR, Phases
    <3>2. cr' = cr \/ cr' = WithStatusOf(cr, c)
      BY <2>3 DEF DeletingStatus, PublishCR
    <3> HIDE DEF c
    <3> QED
      BY <2>1, <3>1, <3>2
  <2>4. ASSUME NEW f \in BOOLEAN, worker.pc # "idle", Update([worker.snap EXCEPT !.finalizer = f], Idle)
        PROVE  cr'.spec = cr.spec /\ cr'.paused = cr.paused /\ cr'.deleting = cr.deleting
    <3> DEFINE c == [worker.snap EXCEPT !.finalizer = f]
    <3>1. c \in LiveCR /\ SameIntent(c, worker.snap)
      BY <2>2, <2>4 DEF LiveCR, SameIntent
    <3>2. CASE cr' = cr
      BY <3>2
    <3>3. CASE cr' # cr
      <4> HIDE DEF c
      <4>1. NoConflict /\ PublishCR(IF c.deleting /\ ~c.finalizer THEN NoCR ELSE WithStatusOf(c, cr))
        BY <2>4, <3>3 DEF Update, c
      <4>2. cr' = WithStatusOf(c, cr) /\ SameIntent(worker.snap, cr)
        BY <4>1, NoCRType DEF PublishCR, NoConflict, LifeInv, FreshCopy
      <4>3. SameIntent(cr', c)
        BY <2>0, <3>1, <4>2, WithStatusType
      <4> QED
        BY <3>1, <4>2, <4>3 DEF SameIntent
    <3> QED
      BY <3>2, <3>3
  <2>5. CASE RemoveFinalizer \/ AddFinalizer
    BY <2>4, <2>5 DEF RemoveFinalizer, AddFinalizer
  <2>6. ASSUME NEW c \in LiveCR, UpdateStatus(c, Idle)
        PROVE  cr'.spec = cr.spec /\ cr'.paused = cr.paused /\ cr'.deleting = cr.deleting
    BY <2>1, <2>6 DEF UpdateStatus, PublishCR
  <2>7. CASE ReportPaused
    <3>1. [worker.snap EXCEPT !.reason = "Paused", !.observed = worker.snap.gen] \in LiveCR
      BY <2>2, <2>7 DEF ReportPaused, LiveCR, Reasons
    <3> QED
      BY <2>6, <2>7, <3>1 DEF ReportPaused
  <2>8. CASE ReportInvalid
    <3>1. [worker.snap EXCEPT !.reason = "Invalid", !.phase = "Degraded",
                              !.observed = worker.snap.gen] \in LiveCR
      BY <2>2, <2>8 DEF ReportInvalid, LiveCR, Reasons, Phases
    <3> QED
      BY <2>6, <2>8, <3>1 DEF ReportInvalid
  <2>9. CASE FinishReconcile
    <3>1. [worker.snap EXCEPT !.reason = "Reconciled", !.phase = "Active",
                              !.observed = worker.snap.gen] \in LiveCR
      BY <2>2, <2>9 DEF FinishReconcile, LiveCR, Reasons, Phases
    <3> QED
      BY <2>6, <2>9, <3>1 DEF FinishReconcile
  <2>10. CASE StartReconcile \/ EnsureSecret \/ EnsureWorkload \/ CallFails \/ Restart
    BY <2>10 DEF StartReconcile, EnsureSecret, EnsureWorkload, CallFails, Restart
  <2>11. CASE Cluster
    BY <2>11 DEF Cluster, DeliverCR, DeliverWorkload, WorkloadEvent, DeliverSecret,
                 CollectWorkload, CollectSecret
  <2>12. CASE User
    <3>1. worker' = worker \/ worker' = [worker EXCEPT !.fresh = FALSE]
      BY <2>12 DEF User, CreateCR, EditSpec, TogglePause, DeleteCR, DeleteWorkload, Edit, UserWrites
    <3>2. worker \in Worker
      BY DEF LifeInv, TypeOK
    <3> QED
      BY <3>1, <3>2 DEF Worker
  <2> QED
    BY <2>3, <2>5, <2>7, <2>8, <2>9, <2>10, <2>11, <2>12 DEF Next, Reconciling
<1>2. EditsSurvive <=> [][Step]_vars
  BY PTL DEF EditsSurvive
<1> QED
  BY <1>1, <1>2, LifeInvariant, PTL DEF Spec
=============================================================================
