--------------------------- MODULE PodContentProofs ---------------------------
(***************************************************************************)
(* What is in the pod templates of every manifest the webhook admits: the  *)
(* volumes and mounts, the environment and what it refers to, the limits   *)
(* of the Go runtime.                                                      *)
(***************************************************************************)
EXTENDS PodTemplateProofs, FiniteSetTheorems, WellFoundedInduction

-----------------------------------------------------------------------------
(* Sequences                                                               *)

\* Every set of natural numbers that is not empty has a smallest one.
LEMMA SmallestExists ==
  ASSUME NEW T \in SUBSET Nat, T # {}
  PROVE  \E t \in T : \A u \in T : t <= u
<1> DEFINE R == {ss \in Nat \X Nat : ss[1] < ss[2]}
<1>1. IsWellFoundedOn(R, Nat)
  BY NatLessThanWellFounded, Zenon DEF OpToRel
<1> HIDE DEF R
<1>2. PICK t \in T : \A u \in T : ~(<<u, t>> \in R)
  BY <1>1, WFMin
<1>3. ASSUME NEW u \in T PROVE t <= u
  <2>1. <<u, t>> \in Nat \X Nat /\ t \in Nat /\ u \in Nat
    OBVIOUS
  <2>2. ~(u < t)
    BY <1>2, <2>1 DEF R
  <2> QED
    BY <2>1, <2>2
<1> QED
  BY <1>3

\* The largest of the places of a sequence is one of them.
LEMMA MaxExists ==
  ASSUME NEW n \in Nat, NEW S \in SUBSET (1..n), S # {}
  PROVE  Max(S) \in S /\ \A y \in S : y <= Max(S)
<1> DEFINE T == {n - x : x \in S}
<1>1. T \in SUBSET Nat
  <2> SUFFICES ASSUME NEW x \in S PROVE n - x \in Nat
    OBVIOUS
  <2> QED
    OBVIOUS
<1>2. T # {}
  OBVIOUS
<1>3. PICK t \in T : \A u \in T : t <= u
  <2> HIDE DEF T
  <2> QED
    BY <1>1, <1>2, SmallestExists
<1>4. PICK x \in S : t = n - x
  OBVIOUS
<1>5. ASSUME NEW y \in S PROVE x >= y
  <2>1. n - y \in T
    OBVIOUS
  <2> QED
    BY <2>1, <1>3, <1>4
<1>6. \E z \in S : \A y \in S : z >= y
  BY <1>5
<1>7. Max(S) \in S /\ \A y \in S : Max(S) >= y
  BY <1>6, Zenon DEF Max
<1> QED
  BY <1>7

\* A place at or after every other is the largest.
LEMMA MaxIs ==
  ASSUME NEW n \in Nat, NEW S \in SUBSET (1..n), NEW x \in S, \A y \in S : y <= x
  PROVE  Max(S) = x
<1>1. Max(S) \in S /\ x <= Max(S)
  BY MaxExists
<1>2. Max(S) <= x
  BY <1>1
<1>3. Max(S) \in 1..n /\ x \in 1..n
  BY <1>1
<1> QED
  BY <1>1, <1>2, <1>3

\* The names in a list of volumes, entries or mounts.
Names(s) == [i \in DOMAIN s |-> s[i].name]
Paths(s) == [i \in DOMAIN s |-> s[i].path]

\* Each place of a list in two parts is in one of them.
LEMMA ConcatAt ==
  ASSUME NEW E, NEW s \in Seq(E), NEW t \in Seq(E), NEW i \in DOMAIN (s \o t)
  PROVE  \/ i \in DOMAIN s /\ (s \o t)[i] = s[i]
         \/ i - Len(s) \in DOMAIN t /\ (s \o t)[i] = t[i - Len(s)]
OBVIOUS

\* The last entry of a name is an entry of that name, and none of them is behind it.
LEMMA LastNamedIs ==
  ASSUME NEW E, NEW s \in Seq(E), NEW n, Named(s, n) # {}
  PROVE  \E i \in DOMAIN s :
           /\ s[i].name = n /\ LastNamed(s, n) = s[i]
           /\ \A j \in DOMAIN s : s[j].name = n => j <= i
<1>1. Named(s, n) \in SUBSET (1..Len(s)) /\ Len(s) \in Nat
  BY DEF Named
<1>2. Max(Named(s, n)) \in Named(s, n) /\ \A y \in Named(s, n) : y <= Max(Named(s, n))
  BY <1>1, MaxExists
<1> QED
  BY <1>2 DEF Named, LastNamed

\* An entry of a name with none of that name behind it is the last one.
LEMMA LastNamedUnique ==
  ASSUME NEW E, NEW s \in Seq(E), NEW n, NEW i \in DOMAIN s, s[i].name = n,
         \A j \in DOMAIN s : s[j].name = n => j <= i
  PROVE  LastNamed(s, n) = s[i]
<1>1. Named(s, n) \in SUBSET (1..Len(s)) /\ Len(s) \in Nat /\ i \in Named(s, n)
  BY DEF Named
<1>2. \A y \in Named(s, n) : y <= i
  BY DEF Named
<1>3. Max(Named(s, n)) = i
  BY <1>1, <1>2, MaxIs
<1> QED
  BY <1>3 DEF LastNamed

\* What is last in the second part is last in the whole.
LEMMA LastOfSecond ==
  ASSUME NEW E, NEW s \in Seq(E), NEW t \in Seq(E), NEW n, Named(t, n) # {}
  PROVE  Named(s \o t, n) # {} /\ LastNamed(s \o t, n) = LastNamed(t, n)
<1>1. PICK i \in DOMAIN t : /\ t[i].name = n /\ LastNamed(t, n) = t[i]
                            /\ \A j \in DOMAIN t : t[j].name = n => j <= i
  BY LastNamedIs
<1>2. s \o t \in Seq(E) /\ Len(s) \in Nat /\ Len(t) \in Nat
  OBVIOUS
<1>3. Len(s) + i \in DOMAIN (s \o t) /\ (s \o t)[Len(s) + i] = t[i]
  OBVIOUS
<1>4. ASSUME NEW j \in DOMAIN (s \o t), (s \o t)[j].name = n PROVE j <= Len(s) + i
  <2>1. CASE j <= Len(s)
    BY <2>1, <1>2
  <2>2. CASE j > Len(s)
    <3>1. j - Len(s) \in DOMAIN t /\ (s \o t)[j] = t[j - Len(s)]
      BY <2>2
    <3> QED
      BY <3>1, <1>1, <1>4, <1>2
  <2> QED
    BY <2>1, <2>2
<1>5. LastNamed(s \o t, n) = (s \o t)[Len(s) + i]
  BY <1>1, <1>2, <1>3, <1>4, LastNamedUnique
<1>6. Len(s) + i \in Named(s \o t, n)
  BY <1>1, <1>3 DEF Named
<1> QED
  BY <1>1, <1>3, <1>5, <1>6

\* What counts for a name is in the second part, unless that has none of the name.
LEMMA EffectiveAfter ==
  ASSUME NEW E, NEW s \in Seq(E), NEW t \in Seq(E), NEW n
  PROVE  /\ Named(t, n) # {} => Effective(s \o t, n) = Effective(t, n)
         /\ Named(t, n) = {} => Effective(s \o t, n) = Effective(s, n)
<1>1. CASE Named(t, n) # {}
  BY <1>1, LastOfSecond DEF Effective
<1>2. CASE Named(t, n) = {}
  <2>1. Len(s) \in Nat /\ Len(t) \in Nat /\ s \o t \in Seq(E)
    OBVIOUS
  <2>2. ASSUME NEW i \in DOMAIN (s \o t), (s \o t)[i].name = n PROVE i \in DOMAIN s /\ s[i] = (s \o t)[i]
    <3>1. CASE i > Len(s)
      <4>1. i - Len(s) \in DOMAIN t /\ (s \o t)[i] = t[i - Len(s)]
        BY <3>1
      <4> QED
        BY <4>1, <2>2, <1>2 DEF Named
    <3>2. CASE i <= Len(s)
      BY <3>2
    <3> QED
      BY <3>1, <3>2, <2>1
  <2>3. \A i \in DOMAIN s : i \in DOMAIN (s \o t) /\ (s \o t)[i] = s[i]
    OBVIOUS
  <2>4. Named(s \o t, n) = Named(s, n)
    BY <2>2, <2>3 DEF Named
  <2>5. CASE Named(s, n) = {}
    BY <2>4, <2>5, <1>2 DEF Effective
  <2>6. CASE Named(s, n) # {}
    <3>1. PICK i \in DOMAIN s : /\ s[i].name = n /\ LastNamed(s, n) = s[i]
                                /\ \A j \in DOMAIN s : s[j].name = n => j <= i
      BY <2>6, LastNamedIs
    <3>2. i \in DOMAIN (s \o t) /\ (s \o t)[i] = s[i]
      BY <2>3
    <3>3. \A j \in DOMAIN (s \o t) : (s \o t)[j].name = n => j <= i
      BY <2>2, <3>1
    <3>4. LastNamed(s \o t, n) = s[i]
      BY <2>1, <3>1, <3>2, <3>3, LastNamedUnique
    <3> QED
      BY <2>4, <2>6, <3>1, <3>4, <1>2 DEF Effective
  <2> QED
    BY <2>5, <2>6
<1> QED
  BY <1>1, <1>2

\* A single entry is the last of its name.
LEMMA LastOfOne ==
  ASSUME NEW e
  PROVE  Named(<<e>>, e.name) # {} /\ Effective(<<e>>, e.name) = e
<1> DEFINE t == <<e>>
<1>1. t \in Seq({e}) /\ DOMAIN t = {1} /\ t[1] = e /\ 1 \in DOMAIN t
  OBVIOUS
<1> HIDE DEF t
<1>2. Named(t, e.name) # {} /\ t[1].name = e.name /\ \A j \in DOMAIN t : t[j].name = e.name => j <= 1
  BY <1>1 DEF Named
<1>3. LastNamed(t, e.name) = t[1]
  BY <1>1, <1>2, LastNamedUnique
<1>4. Effective(t, e.name) = e
  BY <1>1, <1>2, <1>3 DEF Effective
<1> QED
  BY <1>2, <1>4 DEF t

\* In a part, in the whole.
LEMMA NamedConcat ==
  ASSUME NEW E, NEW s \in Seq(E), NEW t \in Seq(E), NEW n
  PROVE  Named(s \o t, n) = {} <=> Named(s, n) = {} /\ Named(t, n) = {}
<1>1. Named(t, n) # {} => Named(s \o t, n) # {}
  BY LastOfSecond
<1>2. ASSUME NEW i \in Named(s, n) PROVE i \in Named(s \o t, n)
  BY <1>2 DEF Named
<1>3. ASSUME NEW i \in Named(s \o t, n) PROVE Named(s, n) # {} \/ Named(t, n) # {}
  <2>1. i \in DOMAIN (s \o t) /\ (s \o t)[i].name = n
    BY DEF Named
  <2>2. CASE i <= Len(s)
    <3>1. i \in DOMAIN s /\ (s \o t)[i] = s[i]
      BY <2>1, <2>2
    <3> QED
      BY <2>1, <3>1 DEF Named
  <2>3. CASE i > Len(s)
    <3>1. i - Len(s) \in DOMAIN t /\ (s \o t)[i] = t[i - Len(s)]
      BY <2>1, <2>3
    <3> QED
      BY <2>1, <3>1 DEF Named
  <2> QED
    BY <2>1, <2>2, <2>3
<1> QED
  BY <1>1, <1>2, <1>3

LEMMA ToSetConcat ==
  ASSUME NEW E, NEW s \in Seq(E), NEW t \in Seq(E)
  PROVE  ToSet(s \o t) = ToSet(s) \cup ToSet(t)
<1>1. ASSUME NEW i \in DOMAIN s PROVE s[i] \in ToSet(s \o t)
  <2>1. i \in DOMAIN (s \o t) /\ (s \o t)[i] = s[i]
    OBVIOUS
  <2> QED
    BY <2>1 DEF ToSet
<1>2. ASSUME NEW i \in DOMAIN t PROVE t[i] \in ToSet(s \o t)
  <2>1. Len(s) + i \in DOMAIN (s \o t) /\ (s \o t)[Len(s) + i] = t[i]
    OBVIOUS
  <2> QED
    BY <2>1 DEF ToSet
<1>3. ASSUME NEW i \in DOMAIN (s \o t) PROVE (s \o t)[i] \in ToSet(s) \cup ToSet(t)
  <2>1. CASE i <= Len(s)
    <3>1. i \in DOMAIN s /\ (s \o t)[i] = s[i]
      BY <2>1
    <3> QED
      BY <3>1 DEF ToSet
  <2>2. CASE i > Len(s)
    <3>1. i - Len(s) \in DOMAIN t /\ (s \o t)[i] = t[i - Len(s)]
      BY <2>2
    <3> QED
      BY <3>1 DEF ToSet
  <2> QED
    BY <2>1, <2>2
<1> QED
  BY <1>1, <1>2, <1>3 DEF ToSet

\* The strings in s are in N, none of them twice.
Unique(s, N) == s \in Seq(N) /\ NoneTwice(s)

LEMMA UniqueConcat ==
  ASSUME NEW N, NEW M, NEW s, NEW t, Unique(s, N), Unique(t, M), N \cap M = {}
  PROVE  Unique(s \o t, N \cup M)
<1>1. s \in Seq(N) /\ t \in Seq(M) /\ NoneTwice(s) /\ NoneTwice(t)
  BY DEF Unique
<1>2. s \in Seq(N \cup M) /\ t \in Seq(N \cup M)
  BY <1>1
<1>3. s \o t \in Seq(N \cup M)
  BY <1>2
<1>4. ASSUME NEW i \in DOMAIN (s \o t), NEW j \in DOMAIN (s \o t), i # j
      PROVE  (s \o t)[i] # (s \o t)[j]
  <2>1. ASSUME NEW k \in DOMAIN (s \o t)
        PROVE  \/ k \in DOMAIN s /\ (s \o t)[k] = s[k] /\ s[k] \in N
               \/ k - Len(s) \in DOMAIN t /\ (s \o t)[k] = t[k - Len(s)] /\ t[k - Len(s)] \in M
    BY <1>1, <1>2
  <2> QED
    BY <1>1, <1>4, <2>1 DEF NoneTwice
<1> QED
  BY <1>3, <1>4 DEF Unique, NoneTwice

\* The names of a list are as many as the list.
LEMMA NamesType ==
  ASSUME NEW E, NEW s \in Seq(E)
  PROVE  /\ Names(s) \in Seq({e.name : e \in E}) /\ Len(Names(s)) = Len(s)
         /\ Paths(s) \in Seq({e.path : e \in E}) /\ Len(Paths(s)) = Len(s)
<1>1. Len(s) \in Nat /\ DOMAIN s = 1..Len(s) /\ \A i \in 1..Len(s) : s[i] \in E
  OBVIOUS
<1>2. Names(s) = [i \in 1..Len(s) |-> s[i].name] /\ Paths(s) = [i \in 1..Len(s) |-> s[i].path]
  BY <1>1 DEF Names, Paths
<1>3. ASSUME NEW i \in 1..Len(s)
      PROVE  s[i].name \in {e.name : e \in E} /\ s[i].path \in {e.path : e \in E}
  BY <1>1
<1> QED
  BY <1>1, <1>2, <1>3

\* Names and paths of a list in two parts.
LEMMA NamesConcat ==
  ASSUME NEW E, NEW s \in Seq(E), NEW t \in Seq(E)
  PROVE  Names(s \o t) = Names(s) \o Names(t) /\ Paths(s \o t) = Paths(s) \o Paths(t)
<1> DEFINE st == s \o t
           N == {e.name : e \in E}
           P == {e.path : e \in E}
<1>1. st \in Seq(E) /\ Len(st) = Len(s) + Len(t) /\ Len(s) \in Nat /\ Len(t) \in Nat
  OBVIOUS
<1>2. ASSUME NEW i \in 1..Len(st)
      PROVE  \/ i \in 1..Len(s) /\ st[i] = s[i]
             \/ i \notin 1..Len(s) /\ i - Len(s) \in 1..Len(t) /\ st[i] = t[i - Len(s)]
  OBVIOUS
<1>3. /\ Names(st) \in Seq(N) /\ Len(Names(st)) = Len(st) /\ Paths(st) \in Seq(P) /\ Len(Paths(st)) = Len(st)
      /\ Names(s) \in Seq(N) /\ Len(Names(s)) = Len(s) /\ Paths(s) \in Seq(P) /\ Len(Paths(s)) = Len(s)
      /\ Names(t) \in Seq(N) /\ Len(Names(t)) = Len(t) /\ Paths(t) \in Seq(P) /\ Len(Paths(t)) = Len(t)
  BY <1>1, NamesType
<1> HIDE DEF st, N, P
<1>4. ASSUME NEW u \in {s, t, st}, NEW i \in 1..Len(u)
      PROVE  Names(u)[i] = u[i].name /\ Paths(u)[i] = u[i].path
  <2>1. i \in DOMAIN u
    BY <1>1
  <2> QED
    BY <2>1 DEF Names, Paths
<1>5. Names(s) \o Names(t) \in Seq(N) /\ Paths(s) \o Paths(t) \in Seq(P)
  BY <1>3
<1>6. Len(Names(s) \o Names(t)) = Len(st) /\ Len(Paths(s) \o Paths(t)) = Len(st)
  <2>1. ASSUME NEW X, NEW a \in Seq(X), NEW b \in Seq(X) PROVE Len(a \o b) = Len(a) + Len(b)
    OBVIOUS
  <2>2. Len(Names(s) \o Names(t)) = Len(Names(s)) + Len(Names(t))
    BY <1>3, <2>1
  <2>3. Len(Paths(s) \o Paths(t)) = Len(Paths(s)) + Len(Paths(t))
    BY <1>3, <2>1
  <2> QED
    BY <1>1, <1>3, <2>2, <2>3
<1>7. ASSUME NEW i \in 1..Len(st)
      PROVE  Names(st)[i] = (Names(s) \o Names(t))[i] /\ Paths(st)[i] = (Paths(s) \o Paths(t))[i]
  <2>1. CASE i \in 1..Len(s) /\ st[i] = s[i]
    <3>1. (Names(s) \o Names(t))[i] = Names(s)[i] /\ (Paths(s) \o Paths(t))[i] = Paths(s)[i]
      BY <1>1, <1>3, <2>1
    <3> QED
      BY <2>1, <3>1, <1>4
  <2>2. CASE i \notin 1..Len(s) /\ i - Len(s) \in 1..Len(t) /\ st[i] = t[i - Len(s)]
    <3>1. /\ (Names(s) \o Names(t))[i] = Names(t)[i - Len(s)]
          /\ (Paths(s) \o Paths(t))[i] = Paths(t)[i - Len(s)]
      BY <1>1, <1>3, <2>2
    <3> QED
      BY <2>2, <3>1, <1>4
  <2> QED
    BY <1>2, <2>1, <2>2
<1>8. ASSUME NEW X, NEW a \in Seq(X), NEW b \in Seq(X), Len(a) = Len(b),
             \A i \in 1..Len(a) : a[i] = b[i]
      PROVE  a = b
  BY <1>8
<1>9. Names(st) = Names(s) \o Names(t)
  BY <1>3, <1>5, <1>6, <1>7, <1>8
<1>10. Paths(st) = Paths(s) \o Paths(t)
  BY <1>3, <1>5, <1>6, <1>7, <1>8
<1> QED
  BY <1>9, <1>10 DEF st

\* SetToSeq lists a finite set, each element once.
LEMMA SetToSeqLists ==
  ASSUME NEW S, IsFiniteSet(S)
  PROVE  /\ SetToSeq(S) \in Seq(S)
         /\ \A i, j \in DOMAIN SetToSeq(S) : i # j => SetToSeq(S)[i] # SetToSeq(S)[j]
<1>1. Cardinality(S) \in Nat /\ ExistsBijection(1..Cardinality(S), S)
  BY FS_CardinalityType
<1>2. \E f \in [1..Cardinality(S) -> S] : IsInjective(f)
  BY <1>1 DEF ExistsBijection, Bijection, Injection
<1>3. SetToSeq(S) \in [1..Cardinality(S) -> S] /\ IsInjective(SetToSeq(S))
  BY <1>2, Zenon DEF SetToSeq
<1> QED
  BY <1>1, <1>3 DEF IsInjective

\* What a list holds is finite.
LEMMA ToSetFinite ==
  ASSUME NEW E, NEW s \in Seq(E)
  PROVE  IsFiniteSet(ToSet(s)) /\ ToSet(s) \subseteq E
<1>1. Len(s) \in Nat /\ DOMAIN s = 1..Len(s) /\ s \in [1..Len(s) -> ToSet(s)] /\ ToSet(s) \subseteq E
  BY DEF ToSet
<1>2. s \in Surjection(1..Len(s), ToSet(s))
  BY <1>1 DEF Surjection, ToSet
<1>3. IsFiniteSet(1..Len(s))
  BY <1>1, FS_Interval
<1> QED
  BY <1>1, <1>2, <1>3, FS_Surjection

-----------------------------------------------------------------------------
(* Volumes of the user's among those of the operator                       *)

\* The two parts of MergeVolumes.
Kept(ours, theirs) ==
  [i \in DOMAIN ours |->
     IF Named(theirs, ours[i].name) = {} THEN ours[i] ELSE LastNamed(theirs, ours[i].name)]
Added(ours, theirs) ==
  {LastNamed(theirs, v.name) : v \in {x \in ToSet(theirs) : Named(ours, x.name) = {}}}

LEMMA KeptIs ==
  ASSUME NEW E, NEW ours \in Seq(E), NEW theirs \in Seq(E)
  PROVE  /\ Kept(ours, theirs) \in Seq(E) /\ DOMAIN Kept(ours, theirs) = DOMAIN ours
         /\ \A i \in DOMAIN ours :
              /\ Kept(ours, theirs)[i].name = ours[i].name
              /\ Kept(ours, theirs)[i] = ours[i] \/ Kept(ours, theirs)[i] \in ToSet(theirs)
              /\ Named(theirs, ours[i].name) = {} => Kept(ours, theirs)[i] = ours[i]
<1>1. DOMAIN ours = 1..Len(ours) /\ Len(ours) \in Nat /\ \A i \in 1..Len(ours) : ours[i] \in E
  OBVIOUS
<1>2. ToSet(theirs) \subseteq E
  BY ToSetFinite
<1>3. ASSUME NEW i \in DOMAIN ours
      PROVE  /\ Kept(ours, theirs)[i].name = ours[i].name
             /\ Kept(ours, theirs)[i] = ours[i] \/ Kept(ours, theirs)[i] \in ToSet(theirs)
             /\ Named(theirs, ours[i].name) = {} => Kept(ours, theirs)[i] = ours[i]
  <2>1. CASE Named(theirs, ours[i].name) = {}
    BY <2>1 DEF Kept
  <2>2. CASE Named(theirs, ours[i].name) # {}
    <3>1. PICK k \in DOMAIN theirs : theirs[k].name = ours[i].name /\ LastNamed(theirs, ours[i].name) = theirs[k]
      BY <2>2, LastNamedIs
    <3>2. Kept(ours, theirs)[i] = theirs[k]
      BY <2>2, <3>1 DEF Kept
    <3> QED
      BY <2>2, <3>1, <3>2 DEF ToSet
  <2> QED
    BY <2>1, <2>2
<1>4. \A i \in 1..Len(ours) : Kept(ours, theirs)[i] \in E
  BY <1>1, <1>2, <1>3
<1>5. Kept(ours, theirs) = [i \in 1..Len(ours) |-> Kept(ours, theirs)[i]]
  BY <1>1 DEF Kept
<1>6. Kept(ours, theirs) \in Seq(E) /\ DOMAIN Kept(ours, theirs) = DOMAIN ours
  BY <1>1, <1>4, <1>5
<1> QED
  BY <1>3, <1>6

LEMMA AddedIs ==
  ASSUME NEW E, NEW ours \in Seq(E), NEW theirs \in Seq(E)
  PROVE  /\ IsFiniteSet(Added(ours, theirs))
         /\ Added(ours, theirs) \subseteq ToSet(theirs)
         /\ \A u \in Added(ours, theirs) : Named(ours, u.name) = {}
         /\ \A u, v \in Added(ours, theirs) : u.name = v.name => u = v
<1>1. ASSUME NEW u \in Added(ours, theirs)
      PROVE  u \in ToSet(theirs) /\ Named(ours, u.name) = {} /\ u = LastNamed(theirs, u.name)
  <2>1. PICK x \in ToSet(theirs) : Named(ours, x.name) = {} /\ u = LastNamed(theirs, x.name)
    BY DEF Added
  <2>2. Named(theirs, x.name) # {}
    BY <2>1 DEF Named, ToSet
  <2>3. PICK k \in DOMAIN theirs : theirs[k].name = x.name /\ LastNamed(theirs, x.name) = theirs[k]
    BY <2>2, LastNamedIs
  <2> QED
    BY <2>1, <2>3 DEF ToSet
<1>2. IsFiniteSet(ToSet(theirs))
  BY ToSetFinite
<1>3. IsFiniteSet(Added(ours, theirs))
  <2>1. Added(ours, theirs) \in SUBSET ToSet(theirs)
    BY <1>1
  <2> QED
    BY <1>2, <2>1, FS_Subset
<1>4. ASSUME NEW u \in Added(ours, theirs), NEW v \in Added(ours, theirs), u.name = v.name
      PROVE  u = v
  BY <1>1, <1>4
<1> QED
  BY <1>1, <1>3, <1>4

\* No name of the operator's gets lost and none comes twice; what the user does not
\* name stays as it was (mergeVolumes).
LEMMA MergeVolumesIs ==
  ASSUME NEW E, NEW ours \in Seq(E), NEW theirs \in Seq(E)
  PROVE  /\ ToSet(MergeVolumes(ours, theirs)) \subseteq ToSet(ours) \cup ToSet(theirs)
         /\ NoneTwice(Names(ours)) => NoneTwice(Names(MergeVolumes(ours, theirs)))
         /\ \A v \in ToSet(ours) :
              /\ \E u \in ToSet(MergeVolumes(ours, theirs)) : u.name = v.name
              /\ Named(theirs, v.name) = {} => v \in ToSet(MergeVolumes(ours, theirs))
<1> DEFINE K == Kept(ours, theirs)
           A == Added(ours, theirs)
           S == SetToSeq(A)
<1>1. MergeVolumes(ours, theirs) = K \o S
  BY DEF MergeVolumes, Kept, Added
<1>2. /\ K \in Seq(E) /\ DOMAIN K = DOMAIN ours
      /\ \A i \in DOMAIN ours :
           /\ K[i].name = ours[i].name
           /\ K[i] = ours[i] \/ K[i] \in ToSet(theirs)
           /\ Named(theirs, ours[i].name) = {} => K[i] = ours[i]
  BY KeptIs
<1>3. /\ IsFiniteSet(A) /\ A \subseteq ToSet(theirs)
      /\ \A u \in A : Named(ours, u.name) = {}
      /\ \A u, v \in A : u.name = v.name => u = v
  BY AddedIs
<1>4. S \in Seq(A) /\ \A i, j \in DOMAIN S : i # j => S[i] # S[j]
  BY <1>3, SetToSeqLists
<1>5. ToSet(theirs) \subseteq E
  BY ToSetFinite
<1>6. A \subseteq E
  BY <1>3, <1>5
<1> HIDE DEF K, A, S
<1>7. S \in Seq(E)
  BY <1>4, <1>6
<1>8. ToSet(K \o S) = ToSet(K) \cup ToSet(S)
  BY <1>2, <1>7, ToSetConcat
<1>9. ToSet(S) \subseteq ToSet(theirs)
  BY <1>3, <1>4 DEF ToSet
<1>10. ToSet(K) \subseteq ToSet(ours) \cup ToSet(theirs)
  BY <1>2 DEF ToSet
<1>11. ASSUME NEW v \in ToSet(ours)
       PROVE  /\ \E u \in ToSet(K) : u.name = v.name
              /\ Named(theirs, v.name) = {} => v \in ToSet(K)
  <2>1. PICK i \in DOMAIN ours : v = ours[i]
    BY DEF ToSet
  <2>2. K[i] \in ToSet(K) /\ K[i].name = v.name /\ (Named(theirs, v.name) = {} => K[i] = v)
    BY <1>2, <2>1 DEF ToSet
  <2> QED
    BY <2>2
<1>12. ASSUME NoneTwice(Names(ours)) PROVE NoneTwice(Names(K \o S))
  <2>1. Len(K) \in Nat /\ Len(S) \in Nat /\ DOMAIN K = 1..Len(K) /\ DOMAIN S = 1..Len(S)
    BY <1>2, <1>7
  <2>2. ASSUME NEW i \in DOMAIN (K \o S)
        PROVE  \/ i \in DOMAIN K /\ (K \o S)[i] = K[i]
               \/ i - Len(K) \in DOMAIN S /\ (K \o S)[i] = S[i - Len(K)]
    BY <1>2, <1>7, ConcatAt
  <2>3. ASSUME NEW i \in DOMAIN K, NEW j \in DOMAIN K, i # j PROVE K[i].name # K[j].name
    BY <1>2, <1>12, <2>3 DEF NoneTwice, Names
  <2>4. ASSUME NEW i \in DOMAIN S, NEW j \in DOMAIN S, i # j PROVE S[i].name # S[j].name
    <3>1. S[i] \in A /\ S[j] \in A /\ S[i] # S[j]
      BY <1>4, <2>4
    <3> QED
      BY <1>3, <3>1
  <2>5. ASSUME NEW i \in DOMAIN K, NEW j \in DOMAIN S PROVE K[i].name # S[j].name
    <3>0. S[j] \in A
      BY <1>4
    <3>1. Named(ours, S[j].name) = {}
      BY <1>3, <3>0
    <3> QED
      BY <1>2, <3>1 DEF Named
  <2>6. ASSUME NEW i \in DOMAIN (K \o S), NEW j \in DOMAIN (K \o S), i # j
        PROVE  (K \o S)[i].name # (K \o S)[j].name
    <3>1. K \o S \in Seq(E) /\ i \in Int /\ j \in Int
      BY <1>2, <1>7
    <3>2. CASE i \in DOMAIN K /\ (K \o S)[i] = K[i]
      BY <2>2, <2>3, <2>5, <2>6, <3>2
    <3>3. CASE i - Len(K) \in DOMAIN S /\ (K \o S)[i] = S[i - Len(K)]
      <4>1. CASE j \in DOMAIN K /\ (K \o S)[j] = K[j]
        BY <2>5, <3>3, <4>1
      <4>2. CASE j - Len(K) \in DOMAIN S /\ (K \o S)[j] = S[j - Len(K)]
        <5>1. i - Len(K) # j - Len(K)
          BY <2>1, <2>6, <3>1
        <5> QED
          BY <2>4, <3>3, <4>2, <5>1
      <4> QED
        BY <2>2, <4>1, <4>2
    <3> QED
      BY <2>2, <3>2, <3>3
  <2> QED
    BY <2>6 DEF NoneTwice, Names
<1> QED
  BY <1>1, <1>8, <1>9, <1>10, <1>11, <1>12

-----------------------------------------------------------------------------
(* The types of the fields                                                 *)

\* Every field a template depends on is as the CRD lets it be.
Typed(m) == \A f \in Fields : HasType(f, m[f])

\* What the first manifest has and what an edit gives is of the field's type.
LEMMA AlwaysTyped == Spec => []Typed(manifest)
<1>1. Init => Typed(manifest)
  BY TypesAssumption DEF Init, Typed
<1>2. Whole /\ Typed(manifest) /\ [Next]_vars => Typed(manifest)'
  <2> SUFFICES ASSUME Whole, Typed(manifest), [Next]_vars PROVE Typed(manifest')
    OBVIOUS
  <2>1. CASE Next
    <3>1. PICK f \in DOMAIN Alternatives : \E v \in Alternatives[f] \cup {Minimal[f]} : Edit(f, v)
      BY <2>1 DEF Next
    <3>2. PICK v \in Alternatives[f] \cup {Minimal[f]} : Edit(f, v)
      BY <3>1
    <3>3. manifest' = [manifest EXCEPT ![f] = v]
      BY <3>2 DEF Edit
    <3>4. ASSUME NEW g \in Fields PROVE HasType(g, manifest'[g])
      <4>1. g \in DOMAIN manifest
        BY TypesAssumption DEF Whole
      <4>2. CASE g = f
        <5>1. HasType(g, v)
          BY <3>2, <4>2, TypesAssumption
        <5> QED
          BY <3>3, <4>1, <4>2, <5>1
      <4>3. CASE g # f
        <5>1. manifest'[g] = manifest[g]
          BY <3>3, <4>1, <4>3
        <5> QED
          BY <5>1 DEF Typed
      <4> QED
        BY <4>2, <4>3
    <3> QED
      BY <3>4 DEF Typed
  <2>2. CASE UNCHANGED vars
    BY <2>2 DEF vars, Typed
  <2> QED
    BY <2>1, <2>2
<1> QED
  BY <1>1, <1>2, AlwaysWhole, PTL DEF Spec

\* The types of the fields one by one, so far as the proofs need them.
LEMMA FieldsHaveTypes ==
  ASSUME NEW m, Typed(m)
  PROVE  /\ m.ldap.tls \in SecretFiles /\ m.network \in SecretFiles /\ m.postgres.tls \in SecretFiles
         /\ m.natsTLS \in BOOLEAN /\ m.serverTLS \in [certManager : BOOLEAN, secret : BOOLEAN, ca : BOOLEAN]
         /\ m.extraVolumes \in Seq([name : STRING, source : STRING])
         /\ m.extraMounts \in Seq(MountType) /\ m.extraEnv \in Seq(STRING)
         /\ m.replicas \in Int /\ m.natsReplicas \in Int
         /\ IsPodTemplate(m.podTemplate) /\ IsResources(m.resources)
<1>1. ASSUME NEW f \in DOMAIN FieldTypes PROVE m[f] \in FieldTypes[f]
  <2>1. f \in Fields /\ f # "resources" /\ f # "podTemplate"
    BY DEF Fields, FieldTypes
  <2> QED
    BY <2>1 DEF Typed, HasType
<1>2. /\ m["ldap"] \in FieldTypes["ldap"] /\ m["network"] \in FieldTypes["network"]
      /\ m["postgres"] \in FieldTypes["postgres"] /\ m["natsTLS"] \in FieldTypes["natsTLS"]
      /\ m["serverTLS"] \in FieldTypes["serverTLS"] /\ m["extraEnv"] \in FieldTypes["extraEnv"]
      /\ m["extraVolumes"] \in FieldTypes["extraVolumes"] /\ m["extraMounts"] \in FieldTypes["extraMounts"]
      /\ m["replicas"] \in FieldTypes["replicas"] /\ m["natsReplicas"] \in FieldTypes["natsReplicas"]
  BY <1>1 DEF FieldTypes
<1>3. m.ldap.tls \in SecretFiles /\ m.network \in SecretFiles /\ m.postgres.tls \in SecretFiles
  BY <1>2 DEF FieldTypes
<1>4. /\ m.natsTLS \in BOOLEAN /\ m.serverTLS \in [certManager : BOOLEAN, secret : BOOLEAN, ca : BOOLEAN]
      /\ m.replicas \in Int /\ m.natsReplicas \in Int
  BY <1>2 DEF FieldTypes
<1>5. /\ m.extraVolumes \in Seq([name : STRING, source : STRING])
      /\ m.extraMounts \in Seq(MountType) /\ m.extraEnv \in Seq(STRING)
  BY <1>2 DEF FieldTypes
<1>6. IsPodTemplate(m.podTemplate) /\ IsResources(m.resources)
  BY DEF Typed, HasType, Fields
<1> QED
  BY <1>3, <1>4, <1>5, <1>6

-----------------------------------------------------------------------------
(* Volumes and mounts of the operator's                                    *)

\* Which switch an object belongs to.
LEMMA WantsIs ==
  ASSUME NEW c
  PROVE  /\ Wants("serverCert", c) <=> "serverTLS" \in c
         /\ Wants("probeCert", c) <=> "serverTLS" \in c
         /\ Wants("clientCert", c) <=> "clientTLS" \in c
         /\ Wants("natsCert", c) <=> "natsTLS" \in c
         /\ Wants("agentCert", c) <=> "agentTLS" \in c
         /\ Wants("sessionSecret", c) <=> "userSession" \notin c
         /\ Wants("statusSecret", c) <=> OwnStatusKeys(c)
         /\ Wants("basicAuth", c) <=> ~Remote(c)
         /\ Wants("webConfig", c) <=> ~Remote(c)
BY DEF Wants, LocalTSDB

\* Volumes of an object that the user has or that Reconcile keeps for m.
BackedVolumes(m) ==
  {v \in [name : ReservedVolumes \cup {DataVolume},
          object : {UserObject, "claim", "webConfig", "basicAuth"} \cup Certificates,
          files : SUBSET {"CERT", "KEY", "CA", "web.yml", "probe-http.yml", "username", "password"}] :
     v.object \in {UserObject, "claim"} \/ Wants(v.object, Switched(m))}

\* A list of such volumes, each with another name out of N.
Lists(vs, m, N) == vs \in Seq(BackedVolumes(m)) /\ Unique(Names(vs), N)

ClientVolumeNames ==
  {"ldap-tls", "network-tls", "postgres-tls", "tsdb-remote-write-tls", "nats-tls", "transform-agent-tls"}

LEMMA ListsConcat ==
  ASSUME NEW m, NEW N, NEW M, NEW s, NEW t, Lists(s, m, N), Lists(t, m, M), N \cap M = {}
  PROVE  Lists(s \o t, m, N \cup M)
<1>1. s \in Seq(BackedVolumes(m)) /\ t \in Seq(BackedVolumes(m)) /\ Unique(Names(s), N) /\ Unique(Names(t), M)
  BY DEF Lists
<1>2. s \o t \in Seq(BackedVolumes(m)) /\ Names(s \o t) = Names(s) \o Names(t)
  BY <1>1, NamesConcat
<1>3. Unique(Names(s) \o Names(t), N \cup M)
  BY <1>1, UniqueConcat
<1> QED
  BY <1>2, <1>3 DEF Lists

\* No volume or one.
LEMMA ListsOne ==
  ASSUME NEW m, NEW v \in BackedVolumes(m)
  PROVE  Lists(<<v>>, m, {v.name})
<1>1. <<v>> \in Seq(BackedVolumes(m))
  OBVIOUS
<1>2. Names(<<v>>) = <<v.name>>
  BY DEF Names
<1>3. Unique(<<v.name>>, {v.name})
  BY DEF Unique, NoneTwice
<1> QED
  BY <1>1, <1>2, <1>3 DEF Lists

LEMMA ListsWhenever ==
  ASSUME NEW m, NEW N, NEW s, NEW c \in BOOLEAN, c => Lists(s, m, N)
  PROVE  Lists(When(c, s), m, N)
<1>1. CASE c
  BY <1>1 DEF When
<1>2. CASE ~c
  <2>1. When(c, s) = <<>>
    BY <1>2 DEF When
  <2>2. Names(<<>>) = <<>>
    BY DEF Names
  <2>3. Unique(<<>>, N)
    BY DEF Unique, NoneTwice
  <2>4. <<>> \in Seq(BackedVolumes(m))
    OBVIOUS
  <2> QED
    BY <2>1, <2>2, <2>3, <2>4 DEF Lists
<1> QED
  BY <1>1, <1>2

LEMMA ListsWhen ==
  ASSUME NEW m, NEW c \in BOOLEAN, NEW v, c => v \in BackedVolumes(m)
  PROVE  Lists(When(c, <<v>>), m, {v.name})
BY ListsOne, ListsWhenever

LEMMA ListsTwo ==
  ASSUME NEW m, NEW u \in BackedVolumes(m), NEW v \in BackedVolumes(m), u.name # v.name
  PROVE  Lists(<<u, v>>, m, {u.name} \cup {v.name})
<1>1. <<u, v>> \in Seq(BackedVolumes(m))
  OBVIOUS
<1>2. Names(<<u, v>>) = <<u.name, v.name>>
  BY DEF Names
<1>3. Unique(<<u.name, v.name>>, {u.name} \cup {v.name})
  BY DEF Unique, NoneTwice
<1> QED
  BY <1>1, <1>2, <1>3 DEF Lists

\* Each volume of Bindplane itself, there or not.
LEMMA EachListed ==
  ASSUME NEW m, Typed(m)
  PROVE  /\ Lists(LDAPVolumes(m), m, {"ldap-tls"})
         /\ Lists(NetworkVolumes(m), m, {"network-tls"})
         /\ Lists(PostgresVolumes(m), m, {"postgres-tls"})
         /\ Lists(TSDBClientVolumes(m), m, {"tsdb-remote-write-tls"})
         /\ Lists(NATSVolumes(m), m, {"nats-tls"})
         /\ Lists(AgentVolumes(m), m, {"transform-agent-tls"})
<1>1. /\ m.ldap.tls.secret \in BOOLEAN /\ m.ldap.tls.keys \in SUBSET {"CERT", "KEY", "CA"}
      /\ m.network.secret \in BOOLEAN /\ m.network.keys \in SUBSET {"CERT", "KEY", "CA"}
      /\ m.postgres.tls.secret \in BOOLEAN /\ m.postgres.tls.keys \in SUBSET {"CERT", "KEY", "CA"}
      /\ m.natsTLS \in BOOLEAN
  BY FieldsHaveTypes DEF SecretFiles
<1>2. ASSUME NEW n \in ClientVolumeNames, NEW object \in {UserObject} \cup Certificates,
             NEW files \in SUBSET {"CERT", "KEY", "CA"},
             object = UserObject \/ Wants(object, Switched(m))
      PROVE  Volume(n, object, files) \in BackedVolumes(m) /\ Volume(n, object, files).name = n
  BY <1>2 DEF Volume, BackedVolumes, ClientVolumeNames, ReservedVolumes
<1>3. UserObject \in {UserObject} \cup Certificates /\ Certificate \in SUBSET {"CERT", "KEY", "CA"}
  BY DEF Certificate
<1>4. Lists(LDAPVolumes(m), m, {"ldap-tls"})
  <2> DEFINE v == Volume("ldap-tls", UserObject, m.ldap.tls.keys)
  <2>1. v \in BackedVolumes(m) /\ v.name = "ldap-tls"
    BY <1>1, <1>2, <1>3 DEF ClientVolumeNames
  <2> HIDE DEF v
  <2>2. Lists(When(m.ldap.tls.secret, <<v>>), m, {v.name})
    BY <1>1, <2>1, ListsWhen
  <2> QED
    BY <2>1, <2>2 DEF LDAPVolumes, v
<1>5. Lists(NetworkVolumes(m), m, {"network-tls"})
  <2> DEFINE v == Volume("network-tls", UserObject, m.network.keys)
  <2>1. v \in BackedVolumes(m) /\ v.name = "network-tls"
    BY <1>1, <1>2, <1>3 DEF ClientVolumeNames
  <2>2. NetworkTLS(m) \in BOOLEAN
    BY <1>1 DEF NetworkTLS
  <2> HIDE DEF v
  <2>3. Lists(When(NetworkTLS(m), <<v>>), m, {v.name})
    BY <2>1, <2>2, ListsWhen
  <2> QED
    BY <2>1, <2>3 DEF NetworkVolumes, v
<1>6. Lists(PostgresVolumes(m), m, {"postgres-tls"})
  <2> DEFINE v == Volume("postgres-tls", UserObject, m.postgres.tls.keys)
  <2>1. v \in BackedVolumes(m) /\ v.name = "postgres-tls"
    BY <1>1, <1>2, <1>3 DEF ClientVolumeNames
  <2>2. PostgresTLS(m) \in BOOLEAN
    BY <1>1 DEF PostgresTLS
  <2> HIDE DEF v
  <2>3. Lists(When(PostgresTLS(m), <<v>>), m, {v.name})
    BY <2>1, <2>2, ListsWhen
  <2> QED
    BY <2>1, <2>3 DEF PostgresVolumes, v
<1>7. Lists(TSDBClientVolumes(m), m, {"tsdb-remote-write-tls"})
  <2> DEFINE client == ClientTLS(Switched(m))
             object == IF client = "certManager" THEN "clientCert" ELSE UserObject
             v == Volume("tsdb-remote-write-tls", object, Certificate)
  <2>1. client = "certManager" => Wants("clientCert", Switched(m))
    BY WantsIs DEF ClientTLS
  <2>2. object \in {UserObject} \cup Certificates /\ (object = UserObject \/ Wants(object, Switched(m)))
    BY <2>1 DEF Certificates
  <2> HIDE DEF object, client
  <2>3. v \in BackedVolumes(m) /\ v.name = "tsdb-remote-write-tls"
    BY <1>2, <1>3, <2>2 DEF ClientVolumeNames
  <2> HIDE DEF v
  <2>4. Lists(When(client # "none", <<v>>), m, {v.name})
    BY <2>3, ListsWhen
  <2> QED
    BY <2>3, <2>4 DEF TSDBClientVolumes, client, object, v
<1>8. Lists(NATSVolumes(m), m, {"nats-tls"})
  <2> DEFINE v == Volume("nats-tls", "natsCert", Certificate)
  <2>1. m.natsTLS => Wants("natsCert", Switched(m))
    BY WantsIs DEF Switched, AllSwitches
  <2>2. m.natsTLS => v \in BackedVolumes(m)
    BY <1>2, <1>3, <2>1 DEF ClientVolumeNames, Certificates
  <2>3. v.name = "nats-tls"
    BY DEF Volume
  <2> HIDE DEF v
  <2>4. Lists(When(m.natsTLS, <<v>>), m, {v.name})
    BY <1>1, <2>2, ListsWhen
  <2> QED
    BY <2>3, <2>4 DEF NATSVolumes, v
<1>9. Lists(AgentVolumes(m), m, {"transform-agent-tls"})
  <2> DEFINE v == Volume("transform-agent-tls", "agentCert", Certificate)
  <2>1. m.agentTLS = "named" => Wants("agentCert", Switched(m))
    BY WantsIs DEF Switched, AllSwitches
  <2>2. m.agentTLS = "named" => v \in BackedVolumes(m)
    BY <1>2, <1>3, <2>1 DEF ClientVolumeNames, Certificates
  <2>3. v.name = "transform-agent-tls"
    BY DEF Volume
  <2> HIDE DEF v
  <2>4. Lists(When(m.agentTLS = "named", <<v>>), m, {v.name})
    BY <2>2, ListsWhen
  <2> QED
    BY <2>3, <2>4 DEF AgentVolumes, v
<1> QED
  BY <1>4, <1>5, <1>6, <1>7, <1>8, <1>9

\* All of them, and those of the migrate Job.
LEMMA ConfigListed ==
  ASSUME NEW m, Typed(m)
  PROVE  /\ Lists(ConfigVolumes(m), m, ClientVolumeNames)
         /\ Lists(MigrateVolumes(m), m, ClientVolumeNames \ {"nats-tls"})
<1> DEFINE L1 == LDAPVolumes(m) \o NetworkVolumes(m)
           L2 == L1 \o PostgresVolumes(m)
           L3 == L2 \o TSDBClientVolumes(m)
           L4 == L3 \o NATSVolumes(m)
<1>1. Lists(L1, m, {"ldap-tls"} \cup {"network-tls"})
  BY EachListed, ListsConcat
<1> HIDE DEF L1
<1>2. Lists(L2, m, {"ldap-tls"} \cup {"network-tls"} \cup {"postgres-tls"})
  BY <1>1, EachListed, ListsConcat
<1> HIDE DEF L2
<1>3. Lists(L3, m, {"ldap-tls"} \cup {"network-tls"} \cup {"postgres-tls"} \cup {"tsdb-remote-write-tls"})
  BY <1>2, EachListed, ListsConcat
<1> HIDE DEF L3
<1>4. Lists(L4, m, {"ldap-tls"} \cup {"network-tls"} \cup {"postgres-tls"} \cup {"tsdb-remote-write-tls"} \cup {"nats-tls"})
  BY <1>3, EachListed, ListsConcat
<1> HIDE DEF L4
<1>5. Lists(L4 \o AgentVolumes(m), m,
            {"ldap-tls"} \cup {"network-tls"} \cup {"postgres-tls"} \cup {"tsdb-remote-write-tls"} \cup {"nats-tls"}
            \cup {"transform-agent-tls"})
  BY <1>4, EachListed, ListsConcat
<1>6. Lists(L3 \o AgentVolumes(m), m,
            {"ldap-tls"} \cup {"network-tls"} \cup {"postgres-tls"} \cup {"tsdb-remote-write-tls"}
            \cup {"transform-agent-tls"})
  BY <1>3, EachListed, ListsConcat
<1>7. /\ {"ldap-tls"} \cup {"network-tls"} \cup {"postgres-tls"} \cup {"tsdb-remote-write-tls"} \cup {"nats-tls"}
           \cup {"transform-agent-tls"} = ClientVolumeNames
      /\ {"ldap-tls"} \cup {"network-tls"} \cup {"postgres-tls"} \cup {"tsdb-remote-write-tls"}
           \cup {"transform-agent-tls"} = ClientVolumeNames \ {"nats-tls"}
  BY DEF ClientVolumeNames
<1>8. ConfigVolumes(m) = L4 \o AgentVolumes(m) /\ MigrateVolumes(m) = L3 \o AgentVolumes(m)
  BY DEF ConfigVolumes, MigrateVolumes, L1, L2, L3, L4
<1> QED
  BY <1>5, <1>6, <1>7, <1>8

TSDBVolumeNames ==
  {DataVolume, "tsdb-web-config", "tsdb-web-server-tls", "tsdb-probe-client-tls", "tsdb-tls", "tsdb-probe-auth"}

\* With a local TSDB, those of its StatefulSet.
LEMMA TSDBListed ==
  ASSUME NEW m, Typed(m), ~Remote(Switched(m))
  PROVE  Lists(TSDBVolumes(m), m, TSDBVolumeNames)
<1> DEFINE server == ServerTLS(Switched(m))
           data == Volume(DataVolume, "claim", {})
           web == Volume("tsdb-web-config", "webConfig", {"web.yml", "probe-http.yml"})
           cert == Volume("tsdb-web-server-tls", "serverCert", Certificate)
           probe == Volume("tsdb-probe-client-tls", "probeCert", Certificate)
           tls == Volume("tsdb-tls", UserObject, IF m.serverTLS.ca THEN Certificate ELSE {"CERT", "KEY"})
           auth == Volume("tsdb-probe-auth", "basicAuth", {"username", "password"})
           L1 == <<data, web>> \o When(server = "certManager", <<cert, probe>>)
           L2 == L1 \o When(server = "secret", <<tls>>)
<1>1. /\ data.name = DataVolume /\ web.name = "tsdb-web-config" /\ cert.name = "tsdb-web-server-tls"
      /\ probe.name = "tsdb-probe-client-tls" /\ tls.name = "tsdb-tls" /\ auth.name = "tsdb-probe-auth"
  BY DEF Volume
<1>2. Wants("webConfig", Switched(m)) /\ Wants("basicAuth", Switched(m))
  BY WantsIs
<1>3. data \in BackedVolumes(m) /\ web \in BackedVolumes(m) /\ auth \in BackedVolumes(m)
  BY <1>2 DEF BackedVolumes, Volume, ReservedVolumes
<1>4. server = "certManager" => cert \in BackedVolumes(m) /\ probe \in BackedVolumes(m)
  <2>1. server = "certManager" => Wants("serverCert", Switched(m)) /\ Wants("probeCert", Switched(m))
    BY WantsIs DEF ServerTLS
  <2> QED
    BY <2>1 DEF BackedVolumes, Volume, ReservedVolumes, Certificates, Certificate
<1>5. tls \in BackedVolumes(m)
  BY DEF BackedVolumes, Volume, ReservedVolumes, Certificate
<1>6. TSDBVolumes(m) = L2 \o <<auth>>
  BY DEF TSDBVolumes
<1> HIDE DEF server, data, web, cert, probe, tls, auth
<1>7. Lists(<<data, web>>, m, {DataVolume} \cup {"tsdb-web-config"})
  BY <1>1, <1>3, ListsTwo DEF DataVolume
<1>8. Lists(When(server = "certManager", <<cert, probe>>), m, {"tsdb-web-server-tls"} \cup {"tsdb-probe-client-tls"})
  <2>1. ASSUME server = "certManager"
        PROVE  Lists(<<cert, probe>>, m, {"tsdb-web-server-tls"} \cup {"tsdb-probe-client-tls"})
    BY <1>1, <1>4, <2>1, ListsTwo
  <2>2. (server = "certManager") \in BOOLEAN
    OBVIOUS
  <2> QED
    BY <2>1, <2>2, ListsWhenever
<1>9. Lists(When(server = "secret", <<tls>>), m, {"tsdb-tls"})
  BY <1>1, <1>5, ListsWhen
<1>10. Lists(L1, m, {DataVolume} \cup {"tsdb-web-config"} \cup ({"tsdb-web-server-tls"} \cup {"tsdb-probe-client-tls"}))
  BY <1>7, <1>8, ListsConcat DEF DataVolume
<1> HIDE DEF L1
<1>11. Lists(L2, m, {DataVolume} \cup {"tsdb-web-config"} \cup ({"tsdb-web-server-tls"} \cup {"tsdb-probe-client-tls"})
                    \cup {"tsdb-tls"})
  BY <1>9, <1>10, ListsConcat DEF DataVolume
<1> HIDE DEF L2
<1>12. Lists(<<auth>>, m, {"tsdb-probe-auth"})
  BY <1>1, <1>3, ListsOne
<1>13. Lists(L2 \o <<auth>>, m,
             {DataVolume} \cup {"tsdb-web-config"} \cup ({"tsdb-web-server-tls"} \cup {"tsdb-probe-client-tls"})
             \cup {"tsdb-tls"} \cup {"tsdb-probe-auth"})
  BY <1>11, <1>12, ListsConcat DEF DataVolume
<1>14. {DataVolume} \cup {"tsdb-web-config"} \cup ({"tsdb-web-server-tls"} \cup {"tsdb-probe-client-tls"})
       \cup {"tsdb-tls"} \cup {"tsdb-probe-auth"} = TSDBVolumeNames
  BY DEF TSDBVolumeNames
<1> QED
  BY <1>6, <1>13, <1>14

\* What the operator mounts and where.
SubPaths == {"", "web.yml", "probe-http.yml"}
OwnMounts ==
  [volume : ReservedVolumes \cup {DataVolume}, path : ReservedPaths \cup {WebConfigPath, ProbeConfigPath},
   sub : SubPaths]

\* Each volume is mounted once, at a path of its own.
LEMMA InPlaceIs ==
  ASSUME NEW m, NEW vs, Lists(vs, m, ClientVolumeNames)
  PROVE  /\ InPlace(vs) \in Seq(OwnMounts)
         /\ NoneTwice(Paths(InPlace(vs)))
         /\ \A i \in DOMAIN vs : /\ i \in DOMAIN InPlace(vs)
                                 /\ InPlace(vs)[i] = Mounted(vs[i].name)
         /\ \A x \in ToSet(InPlace(vs)) : \E v \in ToSet(vs) : v.name = x.volume
<1>1. vs \in Seq(BackedVolumes(m)) /\ Names(vs) \in Seq(ClientVolumeNames) /\ NoneTwice(Names(vs))
  BY DEF Lists, Unique
<1>2. Len(vs) \in Nat /\ DOMAIN vs = 1..Len(vs) /\ DOMAIN InPlace(vs) = 1..Len(vs)
  BY <1>1 DEF InPlace
<1>3. ASSUME NEW i \in 1..Len(vs) PROVE vs[i].name \in ClientVolumeNames /\ InPlace(vs)[i] = Mounted(vs[i].name)
  <2>1. i \in DOMAIN Names(vs) /\ Names(vs)[i] = vs[i].name
    BY <1>2 DEF Names
  <2> QED
    BY <1>1, <1>2, <2>1 DEF InPlace
<1>4. ASSUME NEW n \in ClientVolumeNames
      PROVE  Mounted(n) \in OwnMounts /\ Mounted(n).volume = n /\ Mounted(n).path = TLSDir(n)
  BY DEF Mounted, Mount, OwnMounts, SubPaths, ClientVolumeNames, ReservedVolumes, ReservedPaths, TLSDir
<1>5. ASSUME NEW n \in ClientVolumeNames, NEW k \in ClientVolumeNames, TLSDir(n) = TLSDir(k) PROVE n = k
  BY <1>5 DEF ClientVolumeNames, TLSDir
<1>6. InPlace(vs) \in Seq(OwnMounts)
  <2>1. InPlace(vs) = [i \in 1..Len(vs) |-> Mounted(vs[i].name)]
    BY <1>2 DEF InPlace
  <2> QED
    BY <1>2, <1>3, <1>4, <2>1
<1>7. NoneTwice(Paths(InPlace(vs)))
  <2> SUFFICES ASSUME NEW i \in 1..Len(vs), NEW j \in 1..Len(vs), i # j
               PROVE  InPlace(vs)[i].path # InPlace(vs)[j].path
    BY <1>2 DEF NoneTwice, Paths
  <2>1. vs[i].name # vs[j].name
    BY <1>1, <1>2 DEF NoneTwice, Names
  <2> QED
    BY <1>3, <1>4, <1>5, <2>1
<1>8. \A x \in ToSet(InPlace(vs)) : \E v \in ToSet(vs) : v.name = x.volume
  BY <1>2, <1>3, <1>4 DEF ToSet
<1> QED
  BY <1>2, <1>3, <1>6, <1>7, <1>8

\* What is in a short list, and in one that may not be there.
LEMMA ShortLists ==
  /\ \A a : ToSet(<<a>>) = {a}
  /\ \A a, b : ToSet(<<a, b>>) = {a, b}
  /\ \A a, b, c : ToSet(<<a, b, c>>) = {a, b, c}
  /\ ToSet(<<>>) = {}
<1>1. ASSUME NEW a PROVE ToSet(<<a>>) = {a}
  BY DEF ToSet
<1>2. ASSUME NEW a, NEW b PROVE ToSet(<<a, b>>) = {a, b}
  BY DEF ToSet
<1>3. ASSUME NEW a, NEW b, NEW c PROVE ToSet(<<a, b, c>>) = {a, b, c}
  BY DEF ToSet
<1>4. ToSet(<<>>) = {}
  BY DEF ToSet
<1> QED
  BY <1>1, <1>2, <1>3, <1>4

LEMMA ToSetWhen ==
  ASSUME NEW c \in BOOLEAN, NEW s
  PROVE  ToSet(When(c, s)) = IF c THEN ToSet(s) ELSE {}
BY ShortLists DEF When

\* The mounts of the TSDB: none at the path of another.
MountedAt(s, P) == s \in Seq(OwnMounts) /\ Unique(Paths(s), P)

LEMMA MountedConcat ==
  ASSUME NEW N, NEW M, NEW s, NEW t, MountedAt(s, N), MountedAt(t, M), N \cap M = {}
  PROVE  MountedAt(s \o t, N \cup M)
<1>1. s \in Seq(OwnMounts) /\ t \in Seq(OwnMounts) /\ Unique(Paths(s), N) /\ Unique(Paths(t), M)
  BY DEF MountedAt
<1>2. s \o t \in Seq(OwnMounts) /\ Paths(s \o t) = Paths(s) \o Paths(t)
  BY <1>1, NamesConcat
<1>3. Unique(Paths(s) \o Paths(t), N \cup M)
  BY <1>1, UniqueConcat
<1> QED
  BY <1>2, <1>3 DEF MountedAt

LEMMA MountedWhen ==
  ASSUME NEW N, NEW s, NEW c \in BOOLEAN, c => MountedAt(s, N)
  PROVE  MountedAt(When(c, s), N)
<1>1. CASE c
  BY <1>1 DEF When
<1>2. CASE ~c
  <2>1. When(c, s) = <<>>
    BY <1>2 DEF When
  <2>2. Paths(<<>>) = <<>>
    BY DEF Paths
  <2>3. Unique(<<>>, N)
    BY DEF Unique, NoneTwice
  <2>4. <<>> \in Seq(OwnMounts)
    OBVIOUS
  <2> QED
    BY <2>1, <2>2, <2>3, <2>4 DEF MountedAt
<1> QED
  BY <1>1, <1>2

\* The volumes of the TSDB's StatefulSet and its mounts, part by part.
TSDBVolumeSet(m) ==
  {Volume(DataVolume, "claim", {}), Volume("tsdb-web-config", "webConfig", {"web.yml", "probe-http.yml"})}
  \cup (IF ServerTLS(Switched(m)) = "certManager"
        THEN {Volume("tsdb-web-server-tls", "serverCert", Certificate),
              Volume("tsdb-probe-client-tls", "probeCert", Certificate)} ELSE {})
  \cup (IF ServerTLS(Switched(m)) = "secret"
        THEN {Volume("tsdb-tls", UserObject, IF m.serverTLS.ca THEN Certificate ELSE {"CERT", "KEY"})} ELSE {})
  \cup {Volume("tsdb-probe-auth", "basicAuth", {"username", "password"})}

TSDBMountSet(m) ==
  {Mount(DataVolume, "/prometheus", ""), Mount("tsdb-web-config", WebConfigPath, "web.yml"),
   Mount("tsdb-web-config", ProbeConfigPath, "probe-http.yml")}
  \cup (IF ServerTLS(Switched(m)) = "certManager"
        THEN {Mount("tsdb-web-server-tls", "/etc/tsdb-web-tls", ""),
              Mount("tsdb-probe-client-tls", "/etc/tsdb-probe-client", "")} ELSE {})
  \cup (IF ServerTLS(Switched(m)) = "secret" THEN {Mount("tsdb-tls", "/etc/tsdb-tls", "")} ELSE {})
  \cup {Mount("tsdb-probe-auth", "/etc/tsdb-probe-auth", "")}

\* A list in four parts, of which the middle ones may not be there.
LEMMA FourParts ==
  ASSUME NEW E, NEW s \in Seq(E), NEW t \in Seq(E), NEW u \in Seq(E), NEW v \in Seq(E),
         NEW c \in BOOLEAN, NEW d \in BOOLEAN
  PROVE  ToSet(s \o When(c, t) \o When(d, u) \o v)
           = ToSet(s) \cup (IF c THEN ToSet(t) ELSE {}) \cup (IF d THEN ToSet(u) ELSE {}) \cup ToSet(v)
<1> DEFINE t1 == When(c, t)
           u1 == When(d, u)
           L1 == s \o t1
           L2 == L1 \o u1
<1>1. t1 \in Seq(E) /\ u1 \in Seq(E)
  BY DEF When
<1>2. ToSet(t1) = (IF c THEN ToSet(t) ELSE {}) /\ ToSet(u1) = (IF d THEN ToSet(u) ELSE {})
  BY ToSetWhen
<1> HIDE DEF t1, u1
<1>3. L1 \in Seq(E) /\ ToSet(L1) = ToSet(s) \cup ToSet(t1)
  BY <1>1, ToSetConcat
<1> HIDE DEF L1
<1>4. L2 \in Seq(E) /\ ToSet(L2) = ToSet(L1) \cup ToSet(u1)
  BY <1>1, <1>3, ToSetConcat
<1> HIDE DEF L2
<1>5. ToSet(L2 \o v) = ToSet(L2) \cup ToSet(v)
  BY <1>4, ToSetConcat
<1> QED
  BY <1>2, <1>3, <1>4, <1>5 DEF L1, L2, t1, u1

LEMMA TSDBParts ==
  ASSUME NEW m
  PROVE  ToSet(TSDBVolumes(m)) = TSDBVolumeSet(m) /\ ToSet(TSDBMounts(m)) = TSDBMountSet(m)
<1> DEFINE server == ServerTLS(Switched(m))
<1>1. ToSet(TSDBVolumes(m)) = TSDBVolumeSet(m)
  <2> DEFINE data == Volume(DataVolume, "claim", {})
             web == Volume("tsdb-web-config", "webConfig", {"web.yml", "probe-http.yml"})
             cert == Volume("tsdb-web-server-tls", "serverCert", Certificate)
             probe == Volume("tsdb-probe-client-tls", "probeCert", Certificate)
             tls == Volume("tsdb-tls", UserObject, IF m.serverTLS.ca THEN Certificate ELSE {"CERT", "KEY"})
             auth == Volume("tsdb-probe-auth", "basicAuth", {"username", "password"})
             c == server = "certManager"
             d == server = "secret"
             p == <<data, web>>
             q == <<cert, probe>>
             r == <<tls>>
             s == <<auth>>
  <2>1. TSDBVolumes(m) = p \o When(c, q) \o When(d, r) \o s
    BY DEF TSDBVolumes
  <2>2. TSDBVolumeSet(m) = {data, web} \cup (IF c THEN {cert, probe} ELSE {}) \cup (IF d THEN {tls} ELSE {})
                           \cup {auth}
    BY DEF TSDBVolumeSet
  <2>3. c \in BOOLEAN /\ d \in BOOLEAN
    OBVIOUS
  <2> HIDE DEF server, data, web, cert, probe, tls, auth, c, d
  <2> DEFINE E == {data, web, cert, probe, tls, auth}
  <2>4. p \in Seq(E) /\ q \in Seq(E) /\ r \in Seq(E) /\ s \in Seq(E)
    OBVIOUS
  <2>5. ToSet(p) = {data, web} /\ ToSet(q) = {cert, probe} /\ ToSet(r) = {tls} /\ ToSet(s) = {auth}
    BY ShortLists
  <2> HIDE DEF E, p, q, r, s
  <2>6. ToSet(p \o When(c, q) \o When(d, r) \o s)
          = ToSet(p) \cup (IF c THEN ToSet(q) ELSE {}) \cup (IF d THEN ToSet(r) ELSE {}) \cup ToSet(s)
    BY <2>3, <2>4, FourParts
  <2> QED
    BY <2>1, <2>2, <2>5, <2>6
<1>2. ToSet(TSDBMounts(m)) = TSDBMountSet(m)
  <2> DEFINE data == Mount(DataVolume, "/prometheus", "")
             web == Mount("tsdb-web-config", WebConfigPath, "web.yml")
             yml == Mount("tsdb-web-config", ProbeConfigPath, "probe-http.yml")
             cert == Mount("tsdb-web-server-tls", "/etc/tsdb-web-tls", "")
             probe == Mount("tsdb-probe-client-tls", "/etc/tsdb-probe-client", "")
             tls == Mount("tsdb-tls", "/etc/tsdb-tls", "")
             auth == Mount("tsdb-probe-auth", "/etc/tsdb-probe-auth", "")
             c == server = "certManager"
             d == server = "secret"
             p == <<data, web, yml>>
             q == <<cert, probe>>
             r == <<tls>>
             s == <<auth>>
  <2>1. TSDBMounts(m) = p \o When(c, q) \o When(d, r) \o s
    BY DEF TSDBMounts
  <2>2. TSDBMountSet(m) = {data, web, yml} \cup (IF c THEN {cert, probe} ELSE {}) \cup (IF d THEN {tls} ELSE {})
                          \cup {auth}
    BY DEF TSDBMountSet
  <2>3. c \in BOOLEAN /\ d \in BOOLEAN
    OBVIOUS
  <2> HIDE DEF server, data, web, yml, cert, probe, tls, auth, c, d
  <2> DEFINE E == {data, web, yml, cert, probe, tls, auth}
  <2>4. p \in Seq(E) /\ q \in Seq(E) /\ r \in Seq(E) /\ s \in Seq(E)
    OBVIOUS
  <2>5. ToSet(p) = {data, web, yml} /\ ToSet(q) = {cert, probe} /\ ToSet(r) = {tls} /\ ToSet(s) = {auth}
    <3>1. ToSet(p) = {data, web, yml}
      BY DEF ToSet
    <3>2. ToSet(q) = {cert, probe}
      BY ShortLists, Zenon
    <3>3. ToSet(r) = {tls} /\ ToSet(s) = {auth}
      BY ShortLists, Zenon
    <3> QED
      BY <3>1, <3>2, <3>3
  <2> HIDE DEF E, p, q, r, s
  <2>6. ToSet(p \o When(c, q) \o When(d, r) \o s)
          = ToSet(p) \cup (IF c THEN ToSet(q) ELSE {}) \cup (IF d THEN ToSet(r) ELSE {}) \cup ToSet(s)
    BY <2>3, <2>4, FourParts
  <2> QED
    BY <2>1, <2>2, <2>5, <2>6
<1> QED
  BY <1>1, <1>2

OwnPaths == ReservedPaths \cup {WebConfigPath, ProbeConfigPath}

\* With any way of having a certificate: the paths are all different, and what is
\* mounted is a volume of the StatefulSet.
LEMMA TSDBMounted ==
  ASSUME NEW m
  PROVE  /\ TSDBMounts(m) \in Seq(OwnMounts)
         /\ Unique(Paths(TSDBMounts(m)), OwnPaths)
         /\ \A x \in ToSet(TSDBMounts(m)) : \E v \in ToSet(TSDBVolumes(m)) : v.name = x.volume
<1> DEFINE server == ServerTLS(Switched(m))
           data == Mount(DataVolume, "/prometheus", "")
           web == Mount("tsdb-web-config", WebConfigPath, "web.yml")
           yml == Mount("tsdb-web-config", ProbeConfigPath, "probe-http.yml")
           cert == Mount("tsdb-web-server-tls", "/etc/tsdb-web-tls", "")
           probe == Mount("tsdb-probe-client-tls", "/etc/tsdb-probe-client", "")
           tls == Mount("tsdb-tls", "/etc/tsdb-tls", "")
           auth == Mount("tsdb-probe-auth", "/etc/tsdb-probe-auth", "")
           c == server = "certManager"
           d == server = "secret"
           s == <<data, web, yml>>
           t == <<cert, probe>>
           u == <<tls>>
           v == <<auth>>
           L1 == s \o When(c, t)
           L2 == L1 \o When(d, u)
           S == {"/prometheus", WebConfigPath, ProbeConfigPath}
           T == {"/etc/tsdb-web-tls", "/etc/tsdb-probe-client"}
<1>0. TSDBMountSet(m) = {data, web, yml} \cup (IF c THEN {cert, probe} ELSE {}) \cup (IF d THEN {tls} ELSE {})
                        \cup {auth}
  BY DEF TSDBMountSet
<1>1. ASSUME NEW x \in TSDBMountSet(m) PROVE \E y \in TSDBVolumeSet(m) : y.name = x.volume
  <2> DEFINE V == {y.name : y \in TSDBVolumeSet(m)}
  <2>0. ASSUME NEW n, NEW o, NEW f, Volume(n, o, f) \in TSDBVolumeSet(m) PROVE n \in V
    <3>1. Volume(n, o, f).name = n
      BY DEF Volume
    <3> QED
      BY <2>0, <3>1
  <2>1. DataVolume \in V /\ "tsdb-web-config" \in V /\ "tsdb-probe-auth" \in V
    <3>1. /\ Volume(DataVolume, "claim", {}) \in TSDBVolumeSet(m)
          /\ Volume("tsdb-web-config", "webConfig", {"web.yml", "probe-http.yml"}) \in TSDBVolumeSet(m)
          /\ Volume("tsdb-probe-auth", "basicAuth", {"username", "password"}) \in TSDBVolumeSet(m)
      BY DEF TSDBVolumeSet
    <3> HIDE DEF V
    <3> QED
      BY <2>0, <3>1
  <2>2. c => "tsdb-web-server-tls" \in V /\ "tsdb-probe-client-tls" \in V
    <3>1. c => /\ Volume("tsdb-web-server-tls", "serverCert", Certificate) \in TSDBVolumeSet(m)
               /\ Volume("tsdb-probe-client-tls", "probeCert", Certificate) \in TSDBVolumeSet(m)
      BY DEF TSDBVolumeSet
    <3> HIDE DEF V
    <3> QED
      BY <2>0, <3>1
  <2>3. d => "tsdb-tls" \in V
    <3>1. d => Volume("tsdb-tls", UserObject, IF m.serverTLS.ca THEN Certificate ELSE {"CERT", "KEY"})
                 \in TSDBVolumeSet(m)
      BY DEF TSDBVolumeSet
    <3> HIDE DEF V
    <3> QED
      BY <2>0, <3>1
  <2>5. /\ data.volume = DataVolume /\ web.volume = "tsdb-web-config" /\ yml.volume = "tsdb-web-config"
        /\ auth.volume = "tsdb-probe-auth" /\ tls.volume = "tsdb-tls"
        /\ cert.volume = "tsdb-web-server-tls" /\ probe.volume = "tsdb-probe-client-tls"
    BY DEF Mount
  <2> HIDE DEF data, web, yml, auth, cert, probe, tls, c, d, V
  <2>6. x \in {data, web, yml, auth} \/ (c /\ x \in {cert, probe}) \/ (d /\ x = tls)
    BY <1>0
  <2>7. x.volume \in V
    BY <2>1, <2>2, <2>3, <2>5, <2>6
  <2> QED
    BY <2>7 DEF V
<1>2. data \in OwnMounts /\ data.path = "/prometheus"
  BY DEF OwnMounts, SubPaths, Mount, DataVolume, ReservedPaths
<1>3. web \in OwnMounts /\ web.path = WebConfigPath /\ yml \in OwnMounts /\ yml.path = ProbeConfigPath
  BY DEF OwnMounts, SubPaths, Mount, ReservedVolumes
<1>4. cert \in OwnMounts /\ cert.path = "/etc/tsdb-web-tls" /\ probe \in OwnMounts /\ probe.path = "/etc/tsdb-probe-client"
  BY DEF OwnMounts, SubPaths, Mount, ReservedVolumes, ReservedPaths
<1>5. tls \in OwnMounts /\ tls.path = "/etc/tsdb-tls" /\ auth \in OwnMounts /\ auth.path = "/etc/tsdb-probe-auth"
  BY DEF OwnMounts, SubPaths, Mount, ReservedVolumes, ReservedPaths
<1>9. TSDBMounts(m) = L2 \o v
  BY DEF TSDBMounts
<1>10. c \in BOOLEAN /\ d \in BOOLEAN
  OBVIOUS
<1> HIDE DEF data, web, yml, auth, cert, probe, tls, c, d, server
<1>6. MountedAt(s, S)
  <2>1. s \in Seq(OwnMounts)
    BY <1>2, <1>3
  <2>2. Paths(s) = <<data.path, web.path, yml.path>>
    BY DEF Paths
  <2>3. Unique(<<"/prometheus", WebConfigPath, ProbeConfigPath>>, S)
    BY DEF Unique, NoneTwice, WebConfigPath, ProbeConfigPath
  <2> QED
    BY <2>1, <2>2, <2>3, <1>2, <1>3 DEF MountedAt
<1>7. MountedAt(t, T)
  <2>1. t \in Seq(OwnMounts)
    BY <1>4
  <2>2. Paths(t) = <<cert.path, probe.path>>
    BY DEF Paths
  <2>3. Unique(<<"/etc/tsdb-web-tls", "/etc/tsdb-probe-client">>, T)
    BY DEF Unique, NoneTwice
  <2> QED
    BY <2>1, <2>2, <2>3, <1>4 DEF MountedAt
<1>8. MountedAt(u, {"/etc/tsdb-tls"}) /\ MountedAt(v, {"/etc/tsdb-probe-auth"})
  <2>1. u \in Seq(OwnMounts) /\ v \in Seq(OwnMounts)
    BY <1>5
  <2>2. Paths(u) = <<tls.path>> /\ Paths(v) = <<auth.path>>
    BY DEF Paths
  <2>3. Unique(<<"/etc/tsdb-tls">>, {"/etc/tsdb-tls"}) /\ Unique(<<"/etc/tsdb-probe-auth">>, {"/etc/tsdb-probe-auth"})
    BY DEF Unique, NoneTwice
  <2> QED
    BY <2>1, <2>2, <2>3, <1>5 DEF MountedAt
<1> HIDE DEF s, t, u, v
<1>11. MountedAt(When(c, t), T) /\ MountedAt(When(d, u), {"/etc/tsdb-tls"})
  BY <1>7, <1>8, <1>10, MountedWhen
<1>12. MountedAt(L1, S \cup T)
  BY <1>6, <1>11, MountedConcat DEF WebConfigPath, ProbeConfigPath
<1> HIDE DEF L1
<1>13. MountedAt(L2, S \cup T \cup {"/etc/tsdb-tls"})
  BY <1>11, <1>12, MountedConcat DEF WebConfigPath, ProbeConfigPath
<1> HIDE DEF L2
<1>14. MountedAt(L2 \o v, S \cup T \cup {"/etc/tsdb-tls"} \cup {"/etc/tsdb-probe-auth"})
  BY <1>8, <1>13, MountedConcat DEF WebConfigPath, ProbeConfigPath
<1>15. S \cup T \cup {"/etc/tsdb-tls"} \cup {"/etc/tsdb-probe-auth"} \subseteq OwnPaths
  BY DEF OwnPaths, ReservedPaths
<1>16. ASSUME NEW P, NEW q, Unique(q, P), P \subseteq OwnPaths PROVE Unique(q, OwnPaths)
  BY <1>16 DEF Unique
<1>17. Unique(Paths(L2 \o v), OwnPaths) /\ L2 \o v \in Seq(OwnMounts)
  BY <1>14, <1>15, <1>16 DEF MountedAt
<1> QED
  BY <1>1, <1>9, <1>17, TSDBParts

-----------------------------------------------------------------------------
(* The containers part by part                                             *)

OwnVolumes(c, m) ==
  CASE c \in {"node", "opamp", "jobs", "nats"} -> ConfigVolumes(m)
    [] c = "migrate"        -> MigrateVolumes(m)
    [] c = "transformAgent" -> AgentVolumes(m)
    [] c = "tsdb"           -> TSDBVolumes(m)

OwnEnv(c, m) ==
  CASE c \in {"node", "jobs"}  -> Mode \o CommonEnv(m) \o NATSClientEnv(m)
    [] c = "opamp"             -> Mode \o CommonEnv(m) \o NATSClientEnv(m) \o OpAMPOverride(m)
    [] c = "migrate"           -> Mode \o CommonEnv(m)
    [] c = "nats"              -> NATSServerEnv(m) \o CommonEnv(m)
    [] c = "transformAgent"    -> AgentTLSEnv(m)
    [] c = "tsdb"              -> <<>>

\* The parts of a container.
Holds(x, env, volumes, mounts) ==
  /\ x.env = KubernetesEnv \o env /\ x.volumes = volumes /\ x.mounts = mounts
  /\ IsResources(x.resources)

\* What the functions that build the workloads put together.
LEMMA PartsOf ==
  ASSUME NEW c \in Components, NEW m
  PROVE  /\ Operators(c, m).volumes = OwnVolumes(c, m)
         /\ Operators(c, m).mounts = IF c = "tsdb" THEN TSDBMounts(m) ELSE InPlace(OwnVolumes(c, m))
         /\ Operators(c, m).env = KubernetesEnv \o OwnEnv(c, m)
         /\ IsResources(Operators(c, m).resources)
<1> DEFINE R == {"memLimit", "memRequest", "cpuRequest"}
<1>1. ASSUME NEW x, NEW env, NEW volumes, NEW mounts, NEW cpu \in Nat, NEW memory \in Nat,
             x = Container(env, volumes, mounts, cpu, memory)
      PROVE  Holds(x, env, volumes, mounts) /\ x.resources \in [R -> Nat]
  <2>1. memory * Mebi \in Nat
    BY BoundsAssumption
  <2>2. x.env = KubernetesEnv \o env /\ x.volumes = volumes /\ x.mounts = mounts
    BY <1>1, Zenon DEF Container
  <2>3. x.resources = [memLimit |-> memory * Mebi, memRequest |-> memory * Mebi, cpuRequest |-> cpu]
    BY <1>1, Zenon DEF Container
  <2>4. x.resources \in [R -> Nat]
    BY <2>1, <2>3
  <2>5. R \in SUBSET ResourceNames
    BY DEF ResourceNames
  <2>6. IsResources(x.resources)
    BY <2>4, <2>5 DEF IsResources
  <2> QED
    BY <2>2, <2>4, <2>6 DEF Holds
<1>3. CASE c = "node"
  <2> DEFINE e == Mode \o CommonEnv(m) \o NATSClientEnv(m)
  <2>1. Operators(c, m) = Container(e, ConfigVolumes(m), InPlace(ConfigVolumes(m)), 2000, 2048)
    BY <1>3 DEF Operators, nodeDeployment, nodeRollout, BindplaneContainer
  <2>2. OwnVolumes(c, m) = ConfigVolumes(m) /\ OwnEnv(c, m) = e
    BY <1>3 DEF OwnVolumes, OwnEnv
  <2>3. 2000 \in Nat /\ 2048 \in Nat
    OBVIOUS
  <2> HIDE DEF e
  <2>4. Holds(Operators(c, m), e, ConfigVolumes(m), InPlace(ConfigVolumes(m)))
    BY <1>1, <2>1, <2>3, SMTT(20)
  <2> QED
    BY <1>3, <2>2, <2>4, Zenon DEF Holds
<1>4. CASE c = "opamp"
  <2> DEFINE e == Mode \o CommonEnv(m) \o NATSClientEnv(m) \o OpAMPOverride(m)
  <2>1. Operators(c, m) = Container(e, ConfigVolumes(m), InPlace(ConfigVolumes(m)), 2000, 2048)
    BY <1>4 DEF Operators, opampDeployment, BindplaneContainer
  <2>2. OwnVolumes(c, m) = ConfigVolumes(m) /\ OwnEnv(c, m) = e
    BY <1>4 DEF OwnVolumes, OwnEnv
  <2>3. 2000 \in Nat /\ 2048 \in Nat
    OBVIOUS
  <2> HIDE DEF e
  <2>4. Holds(Operators(c, m), e, ConfigVolumes(m), InPlace(ConfigVolumes(m)))
    BY <1>1, <2>1, <2>3, SMTT(20)
  <2> QED
    BY <1>4, <2>2, <2>4, Zenon DEF Holds
<1>5. CASE c = "jobs"
  <2> DEFINE e == Mode \o CommonEnv(m) \o NATSClientEnv(m)
  <2>1. Operators(c, m) = Container(e, ConfigVolumes(m), InPlace(ConfigVolumes(m)), 1000, 1024)
    BY <1>5 DEF Operators, bindplaneJobsDeployment, BindplaneContainer
  <2>2. OwnVolumes(c, m) = ConfigVolumes(m) /\ OwnEnv(c, m) = e
    BY <1>5 DEF OwnVolumes, OwnEnv
  <2>3. 1000 \in Nat /\ 1024 \in Nat
    OBVIOUS
  <2> HIDE DEF e
  <2>4. Holds(Operators(c, m), e, ConfigVolumes(m), InPlace(ConfigVolumes(m)))
    BY <1>1, <2>1, <2>3, SMTT(20)
  <2> QED
    BY <1>5, <2>2, <2>4, Zenon DEF Holds
<1>6. CASE c = "migrate"
  <2> DEFINE e == Mode \o CommonEnv(m)
  <2>1. Operators(c, m) = Container(e, MigrateVolumes(m), InPlace(MigrateVolumes(m)), 100, 2048)
    BY <1>6 DEF Operators, bindplaneJobsMigrateJob, BindplaneContainer
  <2>2. OwnVolumes(c, m) = MigrateVolumes(m) /\ OwnEnv(c, m) = e
    BY <1>6 DEF OwnVolumes, OwnEnv
  <2>3. 100 \in Nat /\ 2048 \in Nat
    OBVIOUS
  <2> HIDE DEF e
  <2>4. Holds(Operators(c, m), e, MigrateVolumes(m), InPlace(MigrateVolumes(m)))
    BY <1>1, <2>1, <2>3, SMTT(20)
  <2> QED
    BY <1>6, <2>2, <2>4, Zenon DEF Holds
<1>7. CASE c = "nats"
  <2> DEFINE e == NATSServerEnv(m) \o CommonEnv(m)
             mounts == InPlace(ConfigVolumes(m))
             x == Container(e, ConfigVolumes(m), mounts, 250, 500)
             q == [cpuLimit |-> 500]
             r == mergeMaps(x.resources, q)
  <2>1. Operators(c, m) = [x EXCEPT !.resources = r]
    BY <1>7 DEF Operators, natsStatefulSet, BindplaneContainer
  <2>2. OwnVolumes(c, m) = ConfigVolumes(m) /\ OwnEnv(c, m) = e
    BY <1>7 DEF OwnVolumes, OwnEnv
  <2>3. DOMAIN x = {"env", "volumes", "mounts", "resources"}
    BY DEF Container
  <2>4. 250 \in Nat /\ 500 \in Nat /\ x = Container(e, ConfigVolumes(m), mounts, 250, 500)
    OBVIOUS
  <2>5. DOMAIN q = {"cpuLimit"} /\ q["cpuLimit"] = 500
    OBVIOUS
  <2> HIDE DEF e, x, q, mounts, R
  <2>6. Holds(x, e, ConfigVolumes(m), mounts) /\ x.resources \in [R -> Nat]
    BY <1>1, <2>4, SMTT(20)
  <2>7. r = [f \in DOMAIN x.resources \cup DOMAIN q |-> IF f \in DOMAIN q THEN q[f] ELSE x.resources[f]]
    BY Zenon DEF mergeMaps
  <2> HIDE DEF r
  <2>8. r \in [ResourceNames -> Nat]
    BY <2>5, <2>6, <2>7 DEF ResourceNames, R
  <2>9. IsResources(r)
    BY <2>8 DEF IsResources
  <2>10. Holds(Operators(c, m), e, ConfigVolumes(m), mounts)
    <3>1. /\ Operators(c, m).env = x.env /\ Operators(c, m).volumes = x.volumes
          /\ Operators(c, m).mounts = x.mounts /\ Operators(c, m).resources = r
      BY <2>1, <2>3
    <3> QED
      BY <2>6, <2>9, <3>1, Zenon DEF Holds
  <2> QED
    BY <1>7, <2>2, <2>10, Zenon DEF Holds, mounts
<1>8. CASE c = "transformAgent"
  <2> DEFINE e == AgentTLSEnv(m)
  <2>1. Operators(c, m) = Container(e, AgentVolumes(m), InPlace(AgentVolumes(m)), 250, 512)
    BY <1>8 DEF Operators, transformAgentDeployment, BindplaneContainer
  <2>2. OwnVolumes(c, m) = AgentVolumes(m) /\ OwnEnv(c, m) = e
    BY <1>8 DEF OwnVolumes, OwnEnv
  <2>3. 250 \in Nat /\ 512 \in Nat
    OBVIOUS
  <2> HIDE DEF e
  <2>4. Holds(Operators(c, m), e, AgentVolumes(m), InPlace(AgentVolumes(m)))
    BY <1>1, <2>1, <2>3, SMTT(20)
  <2> QED
    BY <1>8, <2>2, <2>4, Zenon DEF Holds
<1>9. CASE c = "tsdb"
  <2> DEFINE e == <<>>
  <2>1. Operators(c, m) = Container(e, TSDBVolumes(m), TSDBMounts(m), 1000, 2048)
    BY <1>9 DEF Operators, tsdbStatefulSet
  <2>2. OwnVolumes(c, m) = TSDBVolumes(m) /\ OwnEnv(c, m) = e
    BY <1>9 DEF OwnVolumes, OwnEnv
  <2>3. 1000 \in Nat /\ 2048 \in Nat
    OBVIOUS
  <2> HIDE DEF e
  <2>4. Holds(Operators(c, m), e, TSDBVolumes(m), TSDBMounts(m))
    BY <1>1, <2>1, <2>3, SMTT(20)
  <2> QED
    BY <1>9, <2>2, <2>4, Zenon DEF Holds
<1> QED
  BY <1>3, <1>4, <1>5, <1>6, <1>7, <1>8, <1>9 DEF Components

\* The component has a template.
HasTemplate(c, m) == c \in Components /\ (c # "tsdb" \/ ~Remote(Switched(m)))

\* Its volumes are backed, each of a name of its own that no extra volume may have;
\* its mounts are of them, each at a path of its own.
LEMMA OwnLists ==
  ASSUME NEW c, NEW m, HasTemplate(c, m), Typed(m)
  PROVE  /\ OwnVolumes(c, m) \in Seq(BackedVolumes(m)) /\ NoneTwice(Names(OwnVolumes(c, m)))
         /\ \A i \in DOMAIN OwnVolumes(c, m) : VolumeTaken(OwnVolumes(c, m)[i].name, c)
         /\ Operators(c, m).mounts \in Seq(OwnMounts) /\ NoneTwice(Paths(Operators(c, m).mounts))
         /\ \A x \in ToSet(Operators(c, m).mounts) : \E v \in ToSet(OwnVolumes(c, m)) : v.name = x.volume
<1>1. ASSUME NEW vs, NEW N, Lists(vs, m, N), \A n \in N : VolumeTaken(n, c)
      PROVE  /\ vs \in Seq(BackedVolumes(m)) /\ NoneTwice(Names(vs))
             /\ \A i \in DOMAIN vs : VolumeTaken(vs[i].name, c)
  <2>1. vs \in Seq(BackedVolumes(m)) /\ Names(vs) \in Seq(N) /\ NoneTwice(Names(vs))
    BY <1>1 DEF Lists, Unique
  <2>2. ASSUME NEW i \in DOMAIN vs PROVE vs[i].name \in N
    <3>1. i \in DOMAIN Names(vs) /\ Names(vs)[i] = vs[i].name
      BY DEF Names
    <3> QED
      BY <2>1, <3>1
  <2> QED
    BY <1>1, <2>1, <2>2
<1>2. CASE c = "tsdb"
  <2>1. Lists(TSDBVolumes(m), m, TSDBVolumeNames)
    BY <1>2, TSDBListed DEF HasTemplate
  <2>2. \A n \in TSDBVolumeNames : VolumeTaken(n, c)
    BY <1>2 DEF TSDBVolumeNames, VolumeTaken, ReservedVolumes
  <2>3. Operators(c, m).mounts = TSDBMounts(m) /\ OwnVolumes(c, m) = TSDBVolumes(m)
    BY <1>2, PartsOf DEF HasTemplate, OwnVolumes
  <2>4. TSDBMounts(m) \in Seq(OwnMounts) /\ NoneTwice(Paths(TSDBMounts(m)))
    BY TSDBMounted DEF Unique
  <2> QED
    BY <1>1, <2>1, <2>2, <2>3, <2>4, TSDBMounted
<1>3. CASE c # "tsdb"
  <2>1. Lists(OwnVolumes(c, m), m, ClientVolumeNames)
    <3>1. ASSUME NEW vs, NEW N, N \subseteq ClientVolumeNames, Lists(vs, m, N)
          PROVE  Lists(vs, m, ClientVolumeNames)
      BY <3>1 DEF Lists, Unique
    <3>2. {"transform-agent-tls"} \subseteq ClientVolumeNames
      BY DEF ClientVolumeNames
    <3>3. Lists(AgentVolumes(m), m, ClientVolumeNames)
      BY <3>1, <3>2, EachListed
    <3>4. Lists(MigrateVolumes(m), m, ClientVolumeNames) /\ Lists(ConfigVolumes(m), m, ClientVolumeNames)
      BY <3>1, ConfigListed
    <3>5. OwnVolumes(c, m) \in {ConfigVolumes(m), MigrateVolumes(m), AgentVolumes(m)}
      BY <1>3 DEF OwnVolumes, HasTemplate, Components
    <3> QED
      BY <3>3, <3>4, <3>5
  <2>2. \A n \in ClientVolumeNames : VolumeTaken(n, c)
    BY DEF ClientVolumeNames, VolumeTaken, ReservedVolumes
  <2>3. Operators(c, m).mounts = InPlace(OwnVolumes(c, m))
    BY <1>3, PartsOf DEF HasTemplate
  <2> QED
    BY <1>1, <2>1, <2>2, <2>3, InPlaceIs
<1> QED
  BY <1>2, <1>3

\* What validation asks, condition by condition.
LEMMA ValidParts ==
  ASSUME NEW c, NEW m, Valid(m, c)
  PROVE  /\ ValidReplicas(m) /\ ValidExtraEnv(m) /\ ValidExtraVolumes(m, c) /\ ValidLicense(m)
         /\ ValidAuth(m) /\ ValidMetrics(m) /\ ValidTracing(m) /\ ValidPostgres(m)
BY Zenon DEF Valid

\* What extraVolumes and podTemplate may add.
UserVolumes == [name : STRING, object : {UserObject}, files : SUBSET STRING]

ExtraVolumes(m) == [i \in DOMAIN m.extraVolumes |-> Volume(m.extraVolumes[i].name, UserObject, {})]

\* The volumes of the template: none twice; those of the operator's and of the user's
\* all there by name; none of an object that nobody provides.
LEMMA FinalVolumes ==
  ASSUME NEW c, NEW m, HasTemplate(c, m), Typed(m), Valid(m, c), NEW vs, vs = Template(c, m).volumes
  PROVE  /\ NoneTwice(Names(vs)) /\ ToSet(vs) \subseteq BackedVolumes(m) \cup UserVolumes
         /\ \A v \in ToSet(OwnVolumes(c, m)) :
              /\ \E u \in ToSet(vs) : u.name = v.name
              /\ Named(m.podTemplate.volumes, v.name) = {} => v \in ToSet(vs)
         /\ \A i \in DOMAIN m.extraVolumes : \E u \in ToSet(vs) : u.name = m.extraVolumes[i].name
<1> DEFINE E == BackedVolumes(m) \cup UserVolumes
           own == OwnVolumes(c, m)
           extra == ExtraVolumes(m)
           ours == own \o extra
           theirs == m.podTemplate.volumes
<1>1. own \in Seq(BackedVolumes(m)) /\ NoneTwice(Names(own)) /\ \A i \in DOMAIN own : VolumeTaken(own[i].name, c)
  BY OwnLists
<1>2. m.extraVolumes \in Seq([name : STRING, source : STRING]) /\ IsPodTemplate(m.podTemplate)
  BY FieldsHaveTypes
<1>3. theirs \in Seq(UserVolumes)
  BY <1>2 DEF IsPodTemplate, UserVolumes
<1>4. /\ extra \in Seq(UserVolumes) /\ DOMAIN extra = DOMAIN m.extraVolumes
      /\ \A i \in DOMAIN m.extraVolumes : extra[i].name = m.extraVolumes[i].name
  <2>1. /\ DOMAIN m.extraVolumes = 1..Len(m.extraVolumes) /\ Len(m.extraVolumes) \in Nat
        /\ \A i \in 1..Len(m.extraVolumes) : m.extraVolumes[i].name \in STRING
    <3>1. /\ DOMAIN m.extraVolumes = 1..Len(m.extraVolumes) /\ Len(m.extraVolumes) \in Nat
          /\ \A i \in 1..Len(m.extraVolumes) : m.extraVolumes[i] \in [name : STRING, source : STRING]
      <4>1. ASSUME NEW T, NEW s \in Seq(T)
            PROVE  DOMAIN s = 1..Len(s) /\ Len(s) \in Nat /\ \A i \in 1..Len(s) : s[i] \in T
        OBVIOUS
      <4> DEFINE T == [name : STRING, source : STRING]
      <4>2. m.extraVolumes \in Seq(T)
        BY <1>2
      <4> HIDE DEF T
      <4> QED
        BY <4>1, <4>2 DEF T
    <3>2. \A x \in [name : STRING, source : STRING] : x.name \in STRING
      OBVIOUS
    <3> QED
      BY <3>1, <3>2
  <2>2. ASSUME NEW n \in STRING PROVE Volume(n, UserObject, {}) \in UserVolumes /\ Volume(n, UserObject, {}).name = n
    BY DEF Volume, UserVolumes
  <2>3. extra = [i \in 1..Len(m.extraVolumes) |-> Volume(m.extraVolumes[i].name, UserObject, {})]
    BY <2>1 DEF ExtraVolumes
  <2>4. \A i \in 1..Len(m.extraVolumes) : extra[i] \in UserVolumes /\ extra[i].name = m.extraVolumes[i].name
    BY <2>1, <2>2, <2>3
  <2>5. DOMAIN extra = 1..Len(m.extraVolumes) /\ extra = [i \in 1..Len(m.extraVolumes) |-> extra[i]]
    BY <2>3
  <2> HIDE DEF extra
  <2>6. extra \in Seq(UserVolumes)
    BY <2>1, <2>4, <2>5
  <2> QED
    BY <2>1, <2>4, <2>5, <2>6
<1>5. /\ \A i, j \in DOMAIN m.extraVolumes : i # j => m.extraVolumes[i].name # m.extraVolumes[j].name
      /\ \A i \in DOMAIN m.extraVolumes : ~VolumeTaken(m.extraVolumes[i].name, c)
  <2>1. ValidExtraVolumes(m, c)
    BY ValidParts
  <2> QED
    BY <2>1 DEF ValidExtraVolumes, NoneTwice
<1>6. vs = MergeVolumes(ours, theirs)
  <2>1. Operators(c, m).volumes = own
    BY PartsOf DEF HasTemplate
  <2>2. Volumes(Operators(c, m), m) = ours
    BY <2>1, Zenon DEF Volumes, ExtraVolumes
  <2> QED
    BY <2>2 DEF Template
<1> HIDE DEF own, extra, theirs, E
<1>7. own \in Seq(E) /\ extra \in Seq(E) /\ theirs \in Seq(E)
  <2>1. BackedVolumes(m) \subseteq E /\ UserVolumes \subseteq E
    BY DEF E
  <2> QED
    BY <1>1, <1>3, <1>4, <2>1
<1>8. ours \in Seq(E) /\ ToSet(ours) = ToSet(own) \cup ToSet(extra)
  BY <1>7, ToSetConcat
<1>9. NoneTwice(Names(ours))
  <2>1. ASSUME NEW i \in DOMAIN ours
        PROVE  \/ i \in DOMAIN own /\ ours[i] = own[i]
               \/ i - Len(own) \in DOMAIN extra /\ ours[i] = extra[i - Len(own)]
    BY <1>7, ConcatAt
  <2>2. ASSUME NEW i \in DOMAIN own, NEW j \in DOMAIN own, i # j PROVE own[i].name # own[j].name
    BY <1>1, <2>2 DEF NoneTwice, Names
  <2>3. ASSUME NEW i \in DOMAIN extra, NEW j \in DOMAIN extra, i # j PROVE extra[i].name # extra[j].name
    BY <1>4, <1>5, <2>3
  <2>4. ASSUME NEW i \in DOMAIN own, NEW j \in DOMAIN extra PROVE own[i].name # extra[j].name
    BY <1>1, <1>4, <1>5
  <2>5. Len(own) \in Nat /\ DOMAIN ours = 1..Len(ours) /\ Len(ours) \in Nat
    BY <1>7, <1>8
  <2> HIDE DEF ours
  <2>6. ASSUME NEW i \in DOMAIN ours, NEW j \in DOMAIN ours, i # j PROVE ours[i].name # ours[j].name
    <3>1. CASE i \in DOMAIN own /\ ours[i] = own[i]
      BY <2>1, <2>2, <2>4, <2>6, <3>1
    <3>2. CASE i - Len(own) \in DOMAIN extra /\ ours[i] = extra[i - Len(own)]
      <4>1. CASE j \in DOMAIN own /\ ours[j] = own[j]
        BY <2>4, <3>2, <4>1
      <4>2. CASE j - Len(own) \in DOMAIN extra /\ ours[j] = extra[j - Len(own)]
        <5>1. i - Len(own) # j - Len(own)
          BY <2>5, <2>6
        <5> QED
          BY <2>3, <3>2, <4>2, <5>1
      <4> QED
        BY <2>1, <4>1, <4>2
    <3> QED
      BY <2>1, <3>1, <3>2
  <2> QED
    BY <2>6 DEF NoneTwice, Names
<1>10. ToSet(own) \subseteq E /\ ToSet(extra) \subseteq E /\ ToSet(theirs) \subseteq E
  BY <1>7, ToSetFinite
<1> HIDE DEF ours
<1>11. /\ ToSet(vs) \subseteq ToSet(ours) \cup ToSet(theirs) /\ NoneTwice(Names(vs))
       /\ \A v \in ToSet(ours) :
            /\ \E u \in ToSet(vs) : u.name = v.name
            /\ Named(theirs, v.name) = {} => v \in ToSet(vs)
  BY <1>6, <1>7, <1>8, <1>9, MergeVolumesIs
<1>12. ToSet(vs) \subseteq BackedVolumes(m) \cup UserVolumes
  BY <1>8, <1>10, <1>11 DEF E
<1>13. ASSUME NEW i \in DOMAIN m.extraVolumes PROVE \E u \in ToSet(vs) : u.name = m.extraVolumes[i].name
  <2>1. extra[i] \in ToSet(extra) /\ extra[i].name = m.extraVolumes[i].name
    BY <1>4 DEF ToSet
  <2>2. extra[i] \in ToSet(ours)
    BY <1>8, <2>1
  <2>3. PICK u \in ToSet(vs) : u.name = extra[i].name
    BY <1>11, <2>2
  <2> QED
    BY <2>1, <2>3
<1>14. \A v \in ToSet(own) :
         /\ \E u \in ToSet(vs) : u.name = v.name
         /\ Named(theirs, v.name) = {} => v \in ToSet(vs)
  BY <1>8, <1>11
<1>15. NoneTwice(Names(vs))
  BY <1>11
<1>16. \A i \in DOMAIN m.extraVolumes : \E u \in ToSet(vs) : u.name = m.extraVolumes[i].name
  BY <1>13
<1> QED
  BY <1>12, <1>14, <1>15, <1>16, Zenon DEF own, theirs

\* The mounts, when podTemplate has none.
LEMMA FinalMounts ==
  ASSUME NEW c, NEW m, HasTemplate(c, m), Typed(m), Valid(m, c), m.podTemplate.mounts = <<>>
  PROVE  /\ Template(c, m).mounts = Operators(c, m).mounts \o m.extraMounts
         /\ ToSet(Template(c, m).mounts) = ToSet(Operators(c, m).mounts) \cup ToSet(m.extraMounts)
         /\ LeavesFiles(m) => MountsRight(Template(c, m).mounts, Template(c, m).volumes)
<1> DEFINE E == OwnMounts \cup MountType
           own == Operators(c, m).mounts
           extra == m.extraMounts
           all == own \o extra
           vs == Template(c, m).volumes
<1>1. /\ own \in Seq(OwnMounts) /\ NoneTwice(Paths(own))
      /\ \A x \in ToSet(own) : \E v \in ToSet(OwnVolumes(c, m)) : v.name = x.volume
  BY OwnLists
<1>2. extra \in Seq(MountType)
  BY FieldsHaveTypes
<1>3. Template(c, m).mounts = all
  BY DEF Template, MergeMounts, Mounts
<1>4. ValidExtraMounts(m.extraVolumes, extra)
  BY ValidParts DEF ValidExtraVolumes
<1>5. /\ \A i, j \in DOMAIN extra : i # j => extra[i].path # extra[j].path
      /\ \A i \in DOMAIN extra :
           /\ extra[i].path \notin ReservedPaths
           /\ \E j \in DOMAIN m.extraVolumes : m.extraVolumes[j].name = extra[i].volume
  BY <1>4 DEF ValidExtraMounts, NoneTwice
<1>6. /\ \A v \in ToSet(OwnVolumes(c, m)) : \E u \in ToSet(vs) : u.name = v.name
      /\ \A i \in DOMAIN m.extraVolumes : \E u \in ToSet(vs) : u.name = m.extraVolumes[i].name
  BY FinalVolumes
<1> HIDE DEF own, extra, vs, E
<1>7. own \in Seq(E) /\ extra \in Seq(E)
  <2>1. OwnMounts \subseteq E /\ MountType \subseteq E
    BY DEF E
  <2> QED
    BY <1>1, <1>2, <2>1
<1>8. ToSet(all) = ToSet(own) \cup ToSet(extra)
  BY <1>7, ToSetConcat
<1>9. ASSUME NEW x \in ToSet(all) PROVE \E v \in ToSet(vs) : v.name = x.volume
  <2>1. CASE x \in ToSet(own)
    BY <1>1, <1>6, <2>1
  <2>2. CASE x \in ToSet(extra)
    BY <1>5, <1>6, <2>2 DEF ToSet
  <2> QED
    BY <1>8, <1>9, <2>1, <2>2
<1>10. ASSUME LeavesFiles(m) PROVE NoneTwice(Paths(all))
  <2>1. ASSUME NEW i \in DOMAIN all
        PROVE  \/ i \in DOMAIN own /\ all[i] = own[i]
               \/ i - Len(own) \in DOMAIN extra /\ all[i] = extra[i - Len(own)]
    BY <1>7, ConcatAt
  <2>2. ASSUME NEW i \in DOMAIN own, NEW j \in DOMAIN own, i # j PROVE own[i].path # own[j].path
    BY <1>1, <2>2 DEF NoneTwice, Paths
  <2>3. ASSUME NEW i \in DOMAIN own, NEW j \in DOMAIN extra PROVE own[i].path # extra[j].path
    <3>1. own[i].path \in OwnPaths
      <4>1. own[i] \in OwnMounts
        BY <1>1
      <4> QED
        BY <4>1 DEF OwnMounts, OwnPaths
    <3>2. extra[j].path \notin {WebConfigPath, ProbeConfigPath}
      BY <1>10 DEF LeavesFiles, ToSet, extra
    <3> QED
      BY <1>5, <3>1, <3>2 DEF OwnPaths
  <2>4. all \in Seq(E) /\ Len(own) \in Nat /\ DOMAIN all = 1..Len(all) /\ Len(all) \in Nat
    BY <1>7
  <2> HIDE DEF all
  <2>5. ASSUME NEW i \in DOMAIN all, NEW j \in DOMAIN all, i # j PROVE all[i].path # all[j].path
    <3>1. CASE i \in DOMAIN own /\ all[i] = own[i]
      BY <2>1, <2>2, <2>3, <2>5, <3>1
    <3>2. CASE i - Len(own) \in DOMAIN extra /\ all[i] = extra[i - Len(own)]
      <4>1. CASE j \in DOMAIN own /\ all[j] = own[j]
        BY <2>3, <3>2, <4>1
      <4>2. CASE j - Len(own) \in DOMAIN extra /\ all[j] = extra[j - Len(own)]
        <5>1. i - Len(own) # j - Len(own)
          BY <2>4, <2>5
        <5> QED
          BY <1>5, <3>2, <4>2, <5>1
      <4> QED
        BY <2>1, <4>1, <4>2
    <3> QED
      BY <2>1, <3>1, <3>2
  <2> QED
    BY <2>5 DEF NoneTwice, Paths
<1>11. LeavesFiles(m) => MountsRight(all, vs)
  BY <1>9, <1>10 DEF MountsRight, Paths
<1> QED
  BY <1>3, <1>8, <1>11 DEF own, extra, vs

\* What podTemplate decodes over the operator's mounts keeps paths and volumes.
LEMMA MergeMountsKeeps ==
  ASSUME NEW ours, NEW theirs \in Seq(MountType), theirs # <<>>, NEW vs, MountsRight(theirs, vs)
  PROVE  MountsRight(MergeMounts(ours, theirs), vs)
<1> DEFINE merged == MergeMounts(ours, theirs)
<1>1. merged = [i \in DOMAIN theirs |->
                  [theirs[i] EXCEPT !.sub = IF @ = "" /\ i <= Len(ours) THEN ours[i].sub ELSE @]]
  BY Zenon DEF MergeMounts
<1> HIDE DEF merged
<1>2. DOMAIN merged = DOMAIN theirs
  BY <1>1, Zenon
<1>3. ASSUME NEW i \in DOMAIN theirs
      PROVE  merged[i].path = theirs[i].path /\ merged[i].volume = theirs[i].volume
  <2>1. theirs[i] \in MountType
    OBVIOUS
  <2>2. ASSUME NEW x \in MountType, NEW s
        PROVE  [x EXCEPT !.sub = s].path = x.path /\ [x EXCEPT !.sub = s].volume = x.volume
    BY DEF MountType
  <2>3. PICK s : merged[i] = [theirs[i] EXCEPT !.sub = s]
    BY <1>1, Zenon
  <2> QED
    BY <2>1, <2>2, <2>3
<1>4. NoneTwice([i \in DOMAIN merged |-> merged[i].path])
  BY <1>2, <1>3 DEF MountsRight, NoneTwice
<1>5. \A x \in ToSet(merged) : \E v \in ToSet(vs) : v.name = x.volume
  BY <1>2, <1>3 DEF MountsRight, ToSet
<1> QED
  BY <1>4, <1>5 DEF MountsRight, merged

\* The API server accepts the template of every admitted manifest, whatever the user
\* adds of volumes and mounts and whatever switches add of their own.
THEOREM AlwaysWellFormed == Spec => []WellFormed
<1>1. Admitted /\ UpToDate /\ Typed(manifest) => WellFormed
  <2> SUFFICES ASSUME Admitted, UpToDate, Typed(manifest), Built PROVE WellFormed
    BY DEF WellFormed
  <2>1. HasTemplate(w, manifest) /\ Valid(manifest, w) /\ pod = Template(w, manifest)
    BY DEF Admitted, UpToDate, HasTemplate, Built
  <2>2. NoneTwice([i \in DOMAIN pod.volumes |-> pod.volumes[i].name])
    BY <2>1, FinalVolumes DEF Names
  <2>3. manifest.podTemplate.mounts = <<>> /\ LeavesFiles(manifest) => MountsRight(pod.mounts, pod.volumes)
    BY <2>1, FinalMounts
  <2>4. ASSUME manifest.podTemplate.mounts # <<>>, MountsRight(manifest.podTemplate.mounts, pod.volumes)
        PROVE  MountsRight(pod.mounts, pod.volumes)
    <3>1. manifest.podTemplate.mounts \in Seq(MountType)
      BY FieldsHaveTypes DEF IsPodTemplate
    <3>2. pod.mounts = MergeMounts(Mounts(Operators(w, manifest), manifest), manifest.podTemplate.mounts)
      BY <2>1 DEF Template
    <3> QED
      BY <2>4, <3>1, <3>2, MergeMountsKeeps
  <2> QED
    BY <2>2, <2>3, <2>4 DEF WellFormed
<1> QED
  BY <1>1, AlwaysAdmitted, AlwaysUpToDate, AlwaysTyped, PTL

-----------------------------------------------------------------------------
(* The environment entry by entry                                          *)

HostsName == "BINDPLANE_EVENT_BUS_HEALTH_REQUIRED_HOSTS"
Special == {"GOMAXPROCS", "GOMEMLIMIT", HostsName}

FileNames ==
  {"BINDPLANE_LDAP_TLS_CERT", "BINDPLANE_LDAP_TLS_KEY", "BINDPLANE_LDAP_TLS_CA",
   "BINDPLANE_TLS_CERT", "BINDPLANE_TLS_KEY", "BINDPLANE_TLS_CA",
   "BINDPLANE_POSTGRES_SSL_ROOT_CERT", "BINDPLANE_POSTGRES_SSL_CERT", "BINDPLANE_POSTGRES_SSL_KEY",
   "BINDPLANE_PROMETHEUS_TLS_CERT", "BINDPLANE_PROMETHEUS_TLS_KEY", "BINDPLANE_PROMETHEUS_TLS_CA",
   "BINDPLANE_NATS_TLS_CERT", "BINDPLANE_NATS_TLS_KEY", "BINDPLANE_NATS_TLS_CA",
   "BINDPLANE_TRANSFORM_AGENT_TLS_CERT", "BINDPLANE_TRANSFORM_AGENT_TLS_KEY", "BINDPLANE_TRANSFORM_AGENT_TLS_CA"}

\* One of the volumes V is mounted at dir and has the file.
InVolume(V, dir, file) == \E v \in V : dir = TLSDir(v.name) /\ file \in v.files

\* An entry as the operator makes them for m, with the volumes V: no name of the Go
\* runtime's; a Secret that is provided; a file that is there, under a name for files;
\* and the default number of hosts where that is asked for.
IsProper(e, m, V) ==
  /\ e.name \notin {"GOMAXPROCS", "GOMEMLIMIT"}
  /\ e.from \in {"value", "secret", "file"}
  /\ e.from = "secret" => e.at[1] = UserObject \/ Wants(e.at[1], Switched(m))
  /\ e.from = "file" => /\ e.name \in FileNames
                        /\ SecretsNamed(m) => InVolume(V, e.at[1], e.at[2])
  /\ e.name = HostsName /\ m.eventBus = "default" => e.value = DefaultRequiredHosts(m)

AllProper(s, m, V) == s \in Seq(ToSet(s)) /\ \A e \in ToSet(s) : IsProper(e, m, V)

LEMMA ProperConcat ==
  ASSUME NEW m, NEW V
  PROVE  \A s, t : AllProper(s, m, V) /\ AllProper(t, m, V) => AllProper(s \o t, m, V)
<1> SUFFICES ASSUME NEW s, NEW t, AllProper(s, m, V), AllProper(t, m, V) PROVE AllProper(s \o t, m, V)
  OBVIOUS
<1> DEFINE E == ToSet(s) \cup ToSet(t)
<1>1. s \in Seq(ToSet(s)) /\ t \in Seq(ToSet(t)) /\ \A e \in E : IsProper(e, m, V)
  BY DEF AllProper
<1>2. ASSUME NEW A, NEW B, A \subseteq B, NEW q \in Seq(A) PROVE q \in Seq(B)
  BY <1>2
<1>3. ToSet(s) \subseteq E /\ ToSet(t) \subseteq E
  OBVIOUS
<1> HIDE DEF E
<1>4. s \in Seq(E) /\ t \in Seq(E)
  BY <1>1, <1>2, <1>3
<1>5. ToSet(s \o t) = E
  BY <1>4, ToSetConcat DEF E
<1>6. s \o t \in Seq(E)
  BY <1>4
<1> QED
  BY <1>1, <1>5, <1>6 DEF AllProper

LEMMA ProperEmpty ==
  ASSUME NEW m, NEW V
  PROVE  AllProper(<<>>, m, V)
<1>1. <<>> \in Seq(ToSet(<<>>))
  OBVIOUS
<1>2. ToSet(<<>>) = {}
  BY ShortLists
<1> QED
  BY <1>1, <1>2 DEF AllProper

LEMMA ProperOne ==
  ASSUME NEW m, NEW V, NEW e, IsProper(e, m, V)
  PROVE  AllProper(<<e>>, m, V)
<1>1. ToSet(<<e>>) = {e}
  BY DEF ToSet
<1>2. <<e>> \in Seq({e})
  OBVIOUS
<1> QED
  BY <1>1, <1>2 DEF AllProper

LEMMA ProperThree ==
  ASSUME NEW m, NEW V, NEW a, NEW b, NEW c, IsProper(a, m, V), IsProper(b, m, V), IsProper(c, m, V)
  PROVE  AllProper(<<a, b, c>>, m, V)
<1>1. ToSet(<<a, b, c>>) = {a, b, c}
  BY DEF ToSet
<1>2. <<a, b, c>> \in Seq({a, b, c})
  OBVIOUS
<1> QED
  BY <1>1, <1>2 DEF AllProper

LEMMA ProperWhen ==
  ASSUME NEW m, NEW V, NEW c, NEW s, c => AllProper(s, m, V)
  PROVE  AllProper(When(c, s), m, V)
BY ProperEmpty DEF When

\* Entries by kind.
LEMMA ProperNumber ==
  ASSUME NEW m, NEW V, NEW n, n \notin Special, NEW value
  PROVE  AllProper(<<Number(n, value)>>, m, V)
<1>1. IsProper(Number(n, value), m, V)
  BY DEF IsProper, Number, Entry, Special
<1> QED
  BY <1>1, ProperOne

LEMMA ProperValue ==
  ASSUME NEW m, NEW V, NEW n, n \notin Special
  PROVE  AllProper(<<Value(n)>>, m, V)
BY ProperNumber DEF Value

LEMMA ProperValues ==
  ASSUME NEW m, NEW V, NEW N, NEW names \in Seq(N), N \cap Special = {}
  PROVE  AllProper(Values(names), m, V)
<1> DEFINE s == Values(names)
<1>1. Len(names) \in Nat /\ DOMAIN names = 1..Len(names) /\ \A i \in 1..Len(names) : names[i] \in N
  OBVIOUS
<1>2. s = [i \in 1..Len(names) |-> Value(names[i])]
  BY <1>1 DEF Values
<1>3. \A n \in N : IsProper(Value(n), m, V)
  BY DEF IsProper, Value, Number, Entry, Special
<1>4. DOMAIN s = 1..Len(names) /\ s = [i \in 1..Len(names) |-> s[i]] /\ \A i \in 1..Len(names) : IsProper(s[i], m, V)
  BY <1>1, <1>2, <1>3
<1> HIDE DEF s
<1>5. ToSet(s) = {s[i] : i \in 1..Len(names)}
  BY <1>4 DEF ToSet
<1>6. \A i \in 1..Len(names) : s[i] \in ToSet(s)
  BY <1>5
<1>7. s \in Seq(ToSet(s))
  BY <1>1, <1>4, <1>6
<1> QED
  BY <1>4, <1>5, <1>7 DEF AllProper, s

LEMMA ProperKey ==
  ASSUME NEW m, NEW V, NEW n, n \notin Special, NEW secret, secret = UserObject \/ Wants(secret, Switched(m))
  PROVE  AllProper(<<KeyOf(n, secret)>>, m, V)
<1>1. IsProper(KeyOf(n, secret), m, V)
  BY DEF IsProper, KeyOf, Entry, Special
<1> QED
  BY <1>1, ProperOne

LEMMA ProperSecretOrValue ==
  ASSUME NEW m, NEW V, NEW n, n \notin Special, NEW how
  PROVE  AllProper(SecretOrValue(n, how), m, V)
<1>1. AllProper(<<KeyOf(n, UserObject)>>, m, V)
  BY ProperKey
<1>2. AllProper(When(how = "plain", <<Value(n)>>), m, V)
  BY ProperValue, ProperWhen
<1> QED
  BY <1>1, <1>2 DEF SecretOrValue

LEMMA ProperFile ==
  ASSUME NEW m, NEW V, NEW n \in FileNames, NEW dir, NEW file, SecretsNamed(m) => InVolume(V, dir, file)
  PROVE  AllProper(<<File(n, dir, file)>>, m, V)
<1>1. n \notin Special
  BY DEF FileNames, Special, HostsName
<1>2. IsProper(File(n, dir, file), m, V)
  BY <1>1 DEF IsProper, File, Entry, Special
<1> QED
  BY <1>2, ProperOne

LEMMA ProperFiles ==
  ASSUME NEW m, NEW V, NEW names, NEW dir, NEW keys,
         names.CERT \in FileNames, names.KEY \in FileNames, names.CA \in FileNames,
         \A k \in keys : SecretsNamed(m) => InVolume(V, dir, k)
  PROVE  AllProper(Files(names, dir, keys), m, V)
<1>1. AllProper(When("CERT" \in keys, <<File(names.CERT, dir, "CERT")>>), m, V)
  BY ProperFile, ProperWhen
<1>2. AllProper(When("KEY" \in keys, <<File(names.KEY, dir, "KEY")>>), m, V)
  BY ProperFile, ProperWhen
<1>3. AllProper(When("CA" \in keys, <<File(names.CA, dir, "CA")>>), m, V)
  BY ProperFile, ProperWhen
<1> QED
  BY <1>1, <1>2, <1>3, ProperConcat, Zenon DEF Files

-----------------------------------------------------------------------------
(* Which names occur                                                       *)

Occurs(n, s) == \E e \in ToSet(s) : e.name = n

LEMMA OccursConcat ==
  ASSUME NEW m, NEW V, NEW n
  PROVE  \A s, t : AllProper(s, m, V) /\ AllProper(t, m, V) /\ (Occurs(n, s) \/ Occurs(n, t)) => Occurs(n, s \o t)
<1> SUFFICES ASSUME NEW s, NEW t, AllProper(s, m, V), AllProper(t, m, V), Occurs(n, s) \/ Occurs(n, t)
             PROVE  Occurs(n, s \o t)
  OBVIOUS
<1> DEFINE E == ToSet(s) \cup ToSet(t)
<1>1. s \in Seq(ToSet(s)) /\ t \in Seq(ToSet(t))
  BY DEF AllProper
<1>2. ASSUME NEW A, NEW B, A \subseteq B, NEW q \in Seq(A) PROVE q \in Seq(B)
  BY <1>2
<1>3. ToSet(s) \subseteq E /\ ToSet(t) \subseteq E
  OBVIOUS
<1> HIDE DEF E
<1>4. s \in Seq(E) /\ t \in Seq(E)
  BY <1>1, <1>2, <1>3
<1>5. ToSet(s \o t) = E
  BY <1>4, ToSetConcat DEF E
<1> QED
  BY <1>5 DEF Occurs, E

LEMMA OccursOne ==
  ASSUME NEW e
  PROVE  Occurs(e.name, <<e>>)
BY ShortLists DEF Occurs

\* What is given occurs.
LEMMA OccursGiven ==
  ASSUME NEW n, NEW secret, NEW how \in How, Given(how)
  PROVE  /\ Occurs(n, <<Value(n)>>) /\ Occurs(n, <<KeyOf(n, secret)>>)
         /\ Occurs(n, SecretOrValue(n, how))
<1>1. Value(n).name = n /\ \A o : KeyOf(n, o).name = n
  BY DEF Value, Number, KeyOf, Entry
<1>2. Occurs(n, <<Value(n)>>) /\ \A o : Occurs(n, <<KeyOf(n, o)>>)
  BY <1>1, OccursOne
<1>3. SecretOrValue(n, how) = <<Value(n)>> \/ SecretOrValue(n, how) = <<KeyOf(n, UserObject)>>
  BY DEF SecretOrValue, How, Given, When
<1> QED
  BY <1>2, <1>3

LEMMA OccursValue ==
  ASSUME NEW n, NEW c, c
  PROVE  Occurs(n, When(c, <<Value(n)>>))
<1>1. "ref" \in How /\ Given("ref")
  BY DEF How, Given
<1>2. Occurs(n, <<Value(n)>>)
  BY <1>1, OccursGiven
<1> QED
  BY <1>2 DEF When
\* Five parts in a row, and six.
LEMMA FiveInARow ==
  ASSUME NEW m, NEW V, NEW a, NEW b, NEW c, NEW d, NEW e,
         AllProper(a, m, V), AllProper(b, m, V), AllProper(c, m, V), AllProper(d, m, V), AllProper(e, m, V)
  PROVE  /\ AllProper(a \o b \o c \o d \o e, m, V)
         /\ \A n : Occurs(n, a) \/ Occurs(n, b) \/ Occurs(n, c) \/ Occurs(n, d) \/ Occurs(n, e)
                   => Occurs(n, a \o b \o c \o d \o e)
<1>1. AllProper(a \o b, m, V) /\ \A n : Occurs(n, a) \/ Occurs(n, b) => Occurs(n, a \o b)
  BY ProperConcat, OccursConcat, Zenon
<1>2. AllProper(a \o b \o c, m, V) /\ \A n : Occurs(n, a \o b) \/ Occurs(n, c) => Occurs(n, a \o b \o c)
  BY <1>1, ProperConcat, OccursConcat, Zenon
<1>3. /\ AllProper(a \o b \o c \o d, m, V)
      /\ \A n : Occurs(n, a \o b \o c) \/ Occurs(n, d) => Occurs(n, a \o b \o c \o d)
  BY <1>2, ProperConcat, OccursConcat, Zenon
<1>4. /\ AllProper(a \o b \o c \o d \o e, m, V)
      /\ \A n : Occurs(n, a \o b \o c \o d) \/ Occurs(n, e) => Occurs(n, a \o b \o c \o d \o e)
  BY <1>3, ProperConcat, OccursConcat, Zenon
<1> QED
  BY <1>1, <1>2, <1>3, <1>4, Zenon

LEMMA SixInARow ==
  ASSUME NEW m, NEW V, NEW a, NEW b, NEW c, NEW d, NEW e, NEW f,
         AllProper(a, m, V), AllProper(b, m, V), AllProper(c, m, V), AllProper(d, m, V), AllProper(e, m, V),
         AllProper(f, m, V)
  PROVE  /\ AllProper(a \o b \o c \o d \o e \o f, m, V)
         /\ \A n : Occurs(n, a) \/ Occurs(n, b) \/ Occurs(n, c) \/ Occurs(n, d) \/ Occurs(n, e) \/ Occurs(n, f)
                   => Occurs(n, a \o b \o c \o d \o e \o f)
<1>1. /\ AllProper(a \o b \o c \o d \o e, m, V)
      /\ \A n : Occurs(n, a) \/ Occurs(n, b) \/ Occurs(n, c) \/ Occurs(n, d) \/ Occurs(n, e)
                => Occurs(n, a \o b \o c \o d \o e)
  BY FiveInARow
<1>2. /\ AllProper(a \o b \o c \o d \o e \o f, m, V)
      /\ \A n : Occurs(n, a \o b \o c \o d \o e) \/ Occurs(n, f) => Occurs(n, a \o b \o c \o d \o e \o f)
  BY <1>1, ProperConcat, OccursConcat, Zenon
<1> QED
  BY <1>1, <1>2, Zenon

-----------------------------------------------------------------------------
(* The environment part by part                                            *)

\* A volume that is there when c holds.
LEMMA VolumeThere ==
  ASSUME NEW V, NEW c, c, NEW v, ToSet(When(c, <<v>>)) \subseteq V
  PROVE  v \in V
<1>1. When(c, <<v>>) = <<v>>
  BY DEF When
<1>2. ToSet(<<v>>) = {v}
  BY DEF ToSet
<1> QED
  BY <1>1, <1>2

\* The files of a volume, at its own directory.
LEMMA FilesThere ==
  ASSUME NEW V, NEW n, NEW object, NEW files, Volume(n, object, files) \in V, NEW k \in files
  PROVE  InVolume(V, TLSDir(n), k)
<1>1. Volume(n, object, files).name = n /\ Volume(n, object, files).files = files
  BY DEF Volume
<1> QED
  BY <1>1 DEF InVolume

\* Whatever may be given in two ways is given in one of the four.
LEMMA GivenSomehow ==
  ASSUME NEW m, Typed(m)
  PROVE  /\ m.license \in How /\ m.session \in How /\ m.username \in How /\ m.password \in How
         /\ m.ldap.bindUser \in How /\ m.ldap.bindPassword \in How
         /\ m.oidc.clientID \in How /\ m.oidc.clientSecret \in How
<1>1. ASSUME NEW f \in DOMAIN FieldTypes PROVE m[f] \in FieldTypes[f]
  <2>1. f \in Fields /\ f # "resources" /\ f # "podTemplate"
    BY DEF Fields, FieldTypes
  <2> QED
    BY <2>1 DEF Typed, HasType
<1>2. /\ m["license"] \in FieldTypes["license"] /\ m["session"] \in FieldTypes["session"]
      /\ m["username"] \in FieldTypes["username"] /\ m["password"] \in FieldTypes["password"]
      /\ m["ldap"] \in FieldTypes["ldap"] /\ m["oidc"] \in FieldTypes["oidc"]
  BY <1>1 DEF FieldTypes
<1>3. m.license \in How /\ m.session \in How /\ m.username \in How /\ m.password \in How
  BY <1>2 DEF FieldTypes
<1>4. m.ldap.bindUser \in How /\ m.ldap.bindPassword \in How
  BY <1>2 DEF FieldTypes
<1>5. m.oidc.clientID \in How /\ m.oidc.clientSecret \in How
  BY <1>2 DEF FieldTypes
<1> QED
  BY <1>3, <1>4, <1>5

\* The names each way of logging in needs.
SystemNames == {"BINDPLANE_USERNAME", "BINDPLANE_PASSWORD"}
LDAPNames == {"BINDPLANE_LDAP_SERVER", "BINDPLANE_LDAP_BASE_DN", "BINDPLANE_LDAP_BIND_USER",
              "BINDPLANE_LDAP_BIND_PASSWORD"}
OIDCNames == {"BINDPLANE_OIDC_ISSUER", "BINDPLANE_OIDC_OAUTH2_CLIENT_ID", "BINDPLANE_OIDC_OAUTH2_CLIENT_SECRET"}

LEMMA ProperLDAP ==
  ASSUME NEW m, NEW V, ToSet(LDAPVolumes(m)) \subseteq V
  PROVE  /\ AllProper(LDAPEnv(m), m, V)
         /\ Typed(m) /\ ValidLDAP(m) => \A n \in LDAPNames : Occurs(n, LDAPEnv(m))
<1> DEFINE keys == m.ldap.tls.keys
           a == When(m.ldap.server, <<Value("BINDPLANE_LDAP_SERVER")>>)
           b == When(m.ldap.baseDN, <<Value("BINDPLANE_LDAP_BASE_DN")>>)
           c == SecretOrValue("BINDPLANE_LDAP_BIND_USER", m.ldap.bindUser)
           d == SecretOrValue("BINDPLANE_LDAP_BIND_PASSWORD", m.ldap.bindPassword)
           e == Files(LDAPFiles, TLSDir("ldap-tls"), keys)
<1>1. LDAPNames \cap Special = {}
  BY DEF LDAPNames, Special, HostsName
<1>2. AllProper(a, m, V) /\ AllProper(b, m, V)
  BY <1>1, ProperValue, ProperWhen DEF LDAPNames
<1>3. AllProper(c, m, V) /\ AllProper(d, m, V)
  BY <1>1, ProperSecretOrValue DEF LDAPNames
<1>4. ASSUME NEW k \in keys, SecretsNamed(m) PROVE InVolume(V, TLSDir("ldap-tls"), k)
  <2>1. m.ldap.tls.secret
    BY <1>4 DEF SecretsNamed
  <2>2. Volume("ldap-tls", UserObject, keys) \in V
    BY <2>1, VolumeThere DEF LDAPVolumes
  <2> QED
    BY <2>2, FilesThere
<1>5. LDAPFiles.CERT \in FileNames /\ LDAPFiles.KEY \in FileNames /\ LDAPFiles.CA \in FileNames
  BY DEF LDAPFiles, FileNames
<1>6. AllProper(e, m, V)
  BY <1>4, <1>5, ProperFiles
<1>7. Typed(m) /\ ValidLDAP(m) =>
        /\ Occurs("BINDPLANE_LDAP_SERVER", a) /\ Occurs("BINDPLANE_LDAP_BASE_DN", b)
        /\ Occurs("BINDPLANE_LDAP_BIND_USER", c) /\ Occurs("BINDPLANE_LDAP_BIND_PASSWORD", d)
  BY GivenSomehow, OccursValue, OccursGiven DEF ValidLDAP
<1>8. LDAPEnv(m) = a \o b \o c \o d \o e
  BY Zenon DEF LDAPEnv
<1> HIDE DEF a, b, c, d, e
<1>9. /\ AllProper(LDAPEnv(m), m, V)
      /\ \A n : Occurs(n, a) \/ Occurs(n, b) \/ Occurs(n, c) \/ Occurs(n, d) => Occurs(n, LDAPEnv(m))
  BY <1>2, <1>3, <1>6, <1>8, FiveInARow
<1> QED
  BY <1>7, <1>9 DEF LDAPNames

LEMMA ProperOIDC ==
  ASSUME NEW m, NEW V
  PROVE  /\ AllProper(OIDCEnv(m), m, V)
         /\ Typed(m) /\ ValidOIDC(m) => \A n \in OIDCNames : Occurs(n, OIDCEnv(m))
<1> DEFINE a == SecretOrValue("BINDPLANE_OIDC_OAUTH2_CLIENT_ID", m.oidc.clientID)
           b == SecretOrValue("BINDPLANE_OIDC_OAUTH2_CLIENT_SECRET", m.oidc.clientSecret)
           c == When(m.oidc.issuer, <<Value("BINDPLANE_OIDC_ISSUER")>>)
<1>1. OIDCNames \cap Special = {}
  BY DEF OIDCNames, Special, HostsName
<1>2. AllProper(a, m, V) /\ AllProper(b, m, V) /\ AllProper(c, m, V)
  BY <1>1, ProperSecretOrValue, ProperValue, ProperWhen DEF OIDCNames
<1>3. Typed(m) /\ ValidOIDC(m) =>
        /\ Occurs("BINDPLANE_OIDC_OAUTH2_CLIENT_ID", a) /\ Occurs("BINDPLANE_OIDC_OAUTH2_CLIENT_SECRET", b)
        /\ Occurs("BINDPLANE_OIDC_ISSUER", c)
  BY GivenSomehow, OccursValue, OccursGiven DEF ValidOIDC
<1>4. OIDCEnv(m) = a \o b \o c
  BY Zenon DEF OIDCEnv
<1> HIDE DEF a, b, c
<1>5. AllProper(a \o b, m, V) /\ \A n : Occurs(n, a) \/ Occurs(n, b) => Occurs(n, a \o b)
  BY <1>2, ProperConcat, OccursConcat, Zenon
<1>6. AllProper(OIDCEnv(m), m, V) /\ \A n : Occurs(n, a \o b) \/ Occurs(n, c) => Occurs(n, OIDCEnv(m))
  BY <1>2, <1>4, <1>5, ProperConcat, OccursConcat, Zenon
<1> QED
  BY <1>3, <1>5, <1>6 DEF OIDCNames

\* Of an admitted manifest, what the chosen way of logging in needs is there.
LEMMA ProperAuth ==
  ASSUME NEW m, NEW V, ToSet(LDAPVolumes(m)) \subseteq V
  PROVE  /\ AllProper(AuthEnv(m), m, V)
         /\ Typed(m) /\ ValidAuth(m) =>
              /\ m.authType = "system" => \A n \in SystemNames : Occurs(n, AuthEnv(m))
              /\ m.authType \in {"ldap", "active-directory"} => \A n \in LDAPNames : Occurs(n, AuthEnv(m))
              /\ m.authType = "oidc" => \A n \in OIDCNames : Occurs(n, AuthEnv(m))
<1> DEFINE type == m.authType # ""
           a == When(type, <<Value("BINDPLANE_AUTH_TYPE")>>)
           b == SecretOrValue("BINDPLANE_USERNAME", m.username)
           c == SecretOrValue("BINDPLANE_PASSWORD", m.password)
<1>1. {"BINDPLANE_AUTH_TYPE", "BINDPLANE_USERNAME", "BINDPLANE_PASSWORD"} \cap Special = {}
  BY DEF Special, HostsName
<1>2. AuthEnv(m) = a \o b \o c \o LDAPEnv(m) \o OIDCEnv(m)
  BY Zenon DEF AuthEnv
<1> HIDE DEF type
<1>3. AllProper(a, m, V) /\ AllProper(b, m, V) /\ AllProper(c, m, V)
  BY <1>1, ProperSecretOrValue, ProperValue, ProperWhen
<1>4. Typed(m) /\ ValidAuth(m) /\ m.authType = "system" =>
        Occurs("BINDPLANE_USERNAME", b) /\ Occurs("BINDPLANE_PASSWORD", c)
  BY GivenSomehow, OccursGiven DEF ValidAuth
<1> HIDE DEF a, b, c
<1>5. /\ AllProper(AuthEnv(m), m, V)
      /\ \A n : Occurs(n, b) \/ Occurs(n, c) \/ Occurs(n, LDAPEnv(m)) \/ Occurs(n, OIDCEnv(m))
                => Occurs(n, AuthEnv(m))
  BY <1>2, <1>3, ProperLDAP, ProperOIDC, FiveInARow
<1> QED
  BY <1>4, <1>5, ProperLDAP, ProperOIDC DEF ValidAuth, SystemNames

LEMMA ProperSession ==
  ASSUME NEW m, NEW V
  PROVE  AllProper(SessionEnv(m), m, V) /\ (Typed(m) => Occurs("BINDPLANE_SESSION_SECRET", SessionEnv(m)))
<1> DEFINE own == <<KeyOf("BINDPLANE_SESSION_SECRET", "sessionSecret")>>
           users == SecretOrValue("BINDPLANE_SESSION_SECRET", m.session)
<1>1. "BINDPLANE_SESSION_SECRET" \notin Special
  BY DEF Special, HostsName
<1>2. m.session = "none" => Wants("sessionSecret", Switched(m))
  BY WantsIs DEF Switched, AllSwitches
<1>3. m.session = "none" => AllProper(own, m, V)
  BY <1>1, <1>2, ProperKey
<1>4. AllProper(users, m, V)
  BY <1>1, ProperSecretOrValue
<1>5. Occurs("BINDPLANE_SESSION_SECRET", own)
  <2>1. "ref" \in How /\ Given("ref")
    BY DEF How, Given
  <2> QED
    BY <2>1, OccursGiven
<1>6. Typed(m) /\ m.session # "none" => Occurs("BINDPLANE_SESSION_SECRET", users)
  BY GivenSomehow, OccursGiven DEF Given
<1>7. SessionEnv(m) = IF m.session # "none" THEN users ELSE own
  BY DEF SessionEnv
<1> HIDE DEF own, users
<1> QED
  BY <1>3, <1>4, <1>5, <1>6, <1>7

LEMMA ProperNetwork ==
  ASSUME NEW m, NEW V, ToSet(NetworkVolumes(m)) \subseteq V
  PROVE  AllProper(NetworkEnv(m), m, V) /\ Occurs("BINDPLANE_REMOTE_URL", NetworkEnv(m))
<1> DEFINE keys == m.network.keys
<1>1. ASSUME NetworkTLS(m), NEW k \in keys PROVE InVolume(V, TLSDir("network-tls"), k)
  <2>1. Volume("network-tls", UserObject, keys) \in V
    BY <1>1, VolumeThere DEF NetworkVolumes
  <2> QED
    BY <2>1, FilesThere
<1>2. NetworkFiles.CERT \in FileNames /\ NetworkFiles.KEY \in FileNames /\ NetworkFiles.CA \in FileNames
  BY DEF NetworkFiles, FileNames
<1>3. NetworkTLS(m) => AllProper(Files(NetworkFiles, TLSDir("network-tls"), keys), m, V)
  BY <1>1, <1>2, ProperFiles
<1>4. AllProper(When(NetworkTLS(m), Files(NetworkFiles, TLSDir("network-tls"), keys)), m, V)
  BY <1>3, ProperWhen
<1>5. "BINDPLANE_REMOTE_URL" \notin Special
  BY DEF Special, HostsName
<1> DEFINE s == When(NetworkTLS(m), Files(NetworkFiles, TLSDir("network-tls"), keys))
           url == <<Value("BINDPLANE_REMOTE_URL")>>
<1>6. AllProper(url, m, V) /\ Occurs("BINDPLANE_REMOTE_URL", url)
  <2>1. Value("BINDPLANE_REMOTE_URL").name = "BINDPLANE_REMOTE_URL"
    BY DEF Value, Number, Entry
  <2> QED
    BY <1>5, <2>1, ProperValue, OccursOne
<1>7. NetworkEnv(m) = s \o url
  BY Zenon DEF NetworkEnv
<1> HIDE DEF s, url
<1>8. AllProper(s, m, V)
  BY <1>4 DEF s
<1> QED
  BY <1>6, <1>7, <1>8, ProperConcat, OccursConcat, Zenon

LEMMA ProperPostgres ==
  ASSUME NEW m, NEW V, ToSet(PostgresVolumes(m)) \subseteq V
  PROVE  /\ AllProper(PostgresEnv(m), m, V)
         /\ ValidPostgres(m) => Occurs("BINDPLANE_POSTGRES_HOST", PostgresEnv(m))
<1> DEFINE keys == m.postgres.tls.keys
           dir == TLSDir("postgres-tls")
           root == <<File("BINDPLANE_POSTGRES_SSL_ROOT_CERT", dir, "CA")>>
           cert == When("CERT" \in keys, <<File("BINDPLANE_POSTGRES_SSL_CERT", dir, "CERT")>>)
           key == When("KEY" \in keys, <<File("BINDPLANE_POSTGRES_SSL_KEY", dir, "KEY")>>)
<1>1. ASSUME PostgresTLS(m), NEW k \in keys PROVE InVolume(V, dir, k)
  <2>1. Volume("postgres-tls", UserObject, keys) \in V
    BY <1>1, VolumeThere DEF PostgresVolumes
  <2> QED
    BY <2>1, FilesThere
<1>2. {"BINDPLANE_POSTGRES_SSL_ROOT_CERT", "BINDPLANE_POSTGRES_SSL_CERT", "BINDPLANE_POSTGRES_SSL_KEY"}
      \subseteq FileNames
  BY DEF FileNames
<1>3. PostgresTLS(m) => AllProper(root, m, V)
  <2>1. PostgresTLS(m) => "CA" \in keys
    BY DEF PostgresTLS
  <2> HIDE DEF dir
  <2> QED
    BY <1>1, <1>2, <2>1, ProperFile
<1>4. PostgresTLS(m) => AllProper(cert, m, V)
  <2> HIDE DEF dir
  <2> QED
    BY <1>1, <1>2, ProperFile, ProperWhen
<1>5. PostgresTLS(m) => AllProper(key, m, V)
  <2> HIDE DEF dir
  <2> QED
    BY <1>1, <1>2, ProperFile, ProperWhen
<1>6. AllProper(When(PostgresTLS(m), root \o cert \o key), m, V)
  <2> HIDE DEF root, cert, key
  <2>1. PostgresTLS(m) => AllProper(root \o cert \o key, m, V)
    BY <1>3, <1>4, <1>5, ProperConcat, Zenon
  <2> DEFINE s == root \o cert \o key
  <2> HIDE DEF s
  <2>2. AllProper(When(PostgresTLS(m), s), m, V)
    <3>1. PostgresTLS(m) => AllProper(s, m, V)
      BY <2>1 DEF s
    <3> QED
      BY <3>1, ProperWhen
  <2> QED
    BY <2>2 DEF s
<1>7. {"BINDPLANE_POSTGRES_HOST", "BINDPLANE_POSTGRES_SSL_MODE", "BINDPLANE_POSTGRES_USERNAME",
       "BINDPLANE_POSTGRES_PASSWORD"} \cap Special = {}
  BY DEF Special, HostsName
<1> DEFINE a == When(m.postgres.host, <<Value("BINDPLANE_POSTGRES_HOST")>>)
           b == <<Value("BINDPLANE_POSTGRES_SSL_MODE")>>
           c == When(PostgresTLS(m), root \o cert \o key)
           d == SecretOrValue("BINDPLANE_POSTGRES_USERNAME", m.postgres.username)
           e == SecretOrValue("BINDPLANE_POSTGRES_PASSWORD", m.postgres.password)
<1>8. AllProper(a, m, V) /\ AllProper(b, m, V)
  BY <1>7, ProperValue, ProperWhen
<1>9. AllProper(d, m, V) /\ AllProper(e, m, V)
  BY <1>7, ProperSecretOrValue
<1>10. ValidPostgres(m) => Occurs("BINDPLANE_POSTGRES_HOST", a)
  BY OccursValue DEF ValidPostgres
<1>11. PostgresEnv(m) = a \o b \o c \o d \o e
  BY Zenon DEF PostgresEnv
<1>12. AllProper(c, m, V)
  BY <1>6, Zenon
<1> HIDE DEF a, b, c, d, e
<1>13. AllProper(PostgresEnv(m), m, V) /\ \A n : Occurs(n, a) => Occurs(n, PostgresEnv(m))
  BY <1>8, <1>9, <1>11, <1>12, FiveInARow
<1> QED
  BY <1>10, <1>13

LEMMA ProperOtlp ==
  ASSUME NEW m, NEW V
  PROVE  /\ AllProper(TracingEnv(m), m, V) /\ AllProper(MetricsEnv(m), m, V) /\ AllProper(MiscEnv(m), m, V)
         /\ ValidTracing(m) /\ m.tracing.type = "otlp" => Occurs("BINDPLANE_TRACING_OTLP_ENDPOINT", TracingEnv(m))
         /\ ValidMetrics(m) /\ m.metrics.type = "otlp" => Occurs("BINDPLANE_METRICS_OTLP_ENDPOINT", MetricsEnv(m))
<1>1. /\ AllProper(TracingEnv(m), m, V)
      /\ ValidTracing(m) /\ m.tracing.type = "otlp" => Occurs("BINDPLANE_TRACING_OTLP_ENDPOINT", TracingEnv(m))
  <2> DEFINE c == m.tracing.type # ""
             d == m.tracing.type = "otlp" /\ m.tracing.endpoint
  <2>1. TracingEnv(m) = When(c, <<Value("BINDPLANE_TRACING_TYPE")>>)
                        \o When(d, <<Value("BINDPLANE_TRACING_OTLP_ENDPOINT")>>)
    BY Zenon DEF TracingEnv
  <2>2. ValidTracing(m) /\ m.tracing.type = "otlp" => d
    BY DEF ValidTracing
  <2> HIDE DEF c, d
  <2> DEFINE s == When(c, <<Value("BINDPLANE_TRACING_TYPE")>>)
             u == When(d, <<Value("BINDPLANE_TRACING_OTLP_ENDPOINT")>>)
  <2>3. {"BINDPLANE_TRACING_TYPE", "BINDPLANE_TRACING_OTLP_ENDPOINT"} \cap Special = {}
    BY DEF Special, HostsName
  <2>4. AllProper(s, m, V) /\ AllProper(u, m, V)
    BY <2>3, ProperValue, ProperWhen
  <2>5. d => Occurs("BINDPLANE_TRACING_OTLP_ENDPOINT", u)
    BY OccursValue
  <2>6. TracingEnv(m) = s \o u
    BY <2>1, Zenon
  <2> HIDE DEF s, u
  <2>7. AllProper(s \o u, m, V) /\ \A n : Occurs(n, u) => Occurs(n, s \o u)
    BY <2>4, ProperConcat, OccursConcat, Zenon
  <2> QED
    BY <2>2, <2>5, <2>6, <2>7
<1>2. /\ AllProper(MetricsEnv(m), m, V)
      /\ ValidMetrics(m) /\ m.metrics.type = "otlp" => Occurs("BINDPLANE_METRICS_OTLP_ENDPOINT", MetricsEnv(m))
  <2> DEFINE names == <<"BINDPLANE_METRICS_TYPE", "BINDPLANE_METRICS_INTERVAL">>
             N == {"BINDPLANE_METRICS_TYPE", "BINDPLANE_METRICS_INTERVAL"}
             otlp == When(m.metrics.endpoint, <<Value("BINDPLANE_METRICS_OTLP_ENDPOINT")>>)
             prometheus == <<Value("BINDPLANE_METRICS_PROMETHEUS_ENDPOINT")>>
                           \o SecretOrValue("BINDPLANE_METRICS_PROMETHEUS_PASSWORD", m.metrics.password)
  <2>1. names \in Seq(N) /\ N \cap Special = {}
    BY DEF Special, HostsName
  <2>2. AllProper(Values(names), m, V)
    <3> HIDE DEF names, N
    <3> QED
      BY <2>1, ProperValues
  <2>3. {"BINDPLANE_METRICS_OTLP_ENDPOINT", "BINDPLANE_METRICS_PROMETHEUS_ENDPOINT",
         "BINDPLANE_METRICS_PROMETHEUS_PASSWORD"} \cap Special = {}
    BY DEF Special, HostsName
  <2>4. AllProper(otlp, m, V)
    BY <2>3, ProperValue, ProperWhen
  <2>5. AllProper(prometheus, m, V)
    <3>1. AllProper(<<Value("BINDPLANE_METRICS_PROMETHEUS_ENDPOINT")>>, m, V)
      BY <2>3, ProperValue
    <3>2. AllProper(SecretOrValue("BINDPLANE_METRICS_PROMETHEUS_PASSWORD", m.metrics.password), m, V)
      BY <2>3, ProperSecretOrValue
    <3> QED
      BY <3>1, <3>2, ProperConcat, Zenon
  <2>6. MetricsEnv(m) = Values(names) \o (IF m.metrics.type = "otlp" THEN otlp ELSE prometheus)
    BY Zenon DEF MetricsEnv
  <2>7. m.metrics.endpoint => Occurs("BINDPLANE_METRICS_OTLP_ENDPOINT", otlp)
    BY OccursValue
  <2> HIDE DEF names, otlp, prometheus
  <2> DEFINE export == IF m.metrics.type = "otlp" THEN otlp ELSE prometheus
  <2>8. AllProper(export, m, V)
    BY <2>4, <2>5
  <2>9. ValidMetrics(m) /\ m.metrics.type = "otlp" => Occurs("BINDPLANE_METRICS_OTLP_ENDPOINT", export)
    BY <2>7 DEF ValidMetrics
  <2>10. MetricsEnv(m) = Values(names) \o export
    BY <2>6
  <2> HIDE DEF export
  <2>11. /\ AllProper(Values(names) \o export, m, V)
         /\ \A n : Occurs(n, export) => Occurs(n, Values(names) \o export)
    BY <2>2, <2>8, ProperConcat, OccursConcat, Zenon
  <2> QED
    BY <2>9, <2>10, <2>11
<1>3. AllProper(MiscEnv(m), m, V)
  <2> DEFINE a == Value("BINDPLANE_MAX_CONCURRENCY")
             b == Number("BINDPLANE_AGENTS_MAX_SIMULTANEOUS_CONNECTIONS",
                         IF m.connections > 0 THEN m.connections ELSE DefaultConnections)
             c == Value("BINDPLANE_AUDIT_TRAIL_RETENTION_DAYS")
  <2>1. IsProper(a, m, V) /\ IsProper(b, m, V) /\ IsProper(c, m, V)
    BY DEF IsProper, Value, Number, Entry, HostsName
  <2>2. MiscEnv(m) = <<a, b, c>>
    BY Zenon DEF MiscEnv
  <2> HIDE DEF a, b, c
  <2> QED
    BY <2>1, <2>2, ProperThree
<1> QED
  BY <1>1, <1>2, <1>3

\* The settings of spec.config; of an admitted manifest, all that are needed.
LEMMA ProperConfig ==
  ASSUME NEW m, NEW V,
         ToSet(LDAPVolumes(m)) \cup ToSet(NetworkVolumes(m)) \cup ToSet(PostgresVolumes(m)) \subseteq V
  PROVE  /\ AllProper(ConfigEnv(m), m, V)
         /\ \A c : Typed(m) /\ Valid(m, c) =>
              \A n \in Needed(m) \ {"BINDPLANE_STATUS_KEYS"} : Occurs(n, ConfigEnv(m))
<1> DEFINE license == SecretOrValue("BINDPLANE_LICENSE", m.license)
           store == <<Value("BINDPLANE_STORE_TYPE")>>
           given == m.syncInterval > 0
           sync == When(given, <<Value("BINDPLANE_AGENT_VERSIONS_SYNC_INTERVAL")>>)
           first == license \o AuthEnv(m) \o SessionEnv(m) \o NetworkEnv(m) \o store
<1>1. {"BINDPLANE_LICENSE", "BINDPLANE_STORE_TYPE", "BINDPLANE_AGENT_VERSIONS_SYNC_INTERVAL"} \cap Special = {}
  BY DEF Special, HostsName
<1>2. ConfigEnv(m) = first \o PostgresEnv(m) \o TracingEnv(m) \o MetricsEnv(m) \o MiscEnv(m) \o sync
  BY DEF ConfigEnv
<1> HIDE DEF given
<1>3. AllProper(license, m, V) /\ AllProper(store, m, V) /\ AllProper(sync, m, V)
  BY <1>1, ProperSecretOrValue, ProperValue, ProperWhen
<1>4. Typed(m) /\ ValidLicense(m) => Occurs("BINDPLANE_LICENSE", license)
  BY GivenSomehow, OccursGiven DEF ValidLicense, Given
<1> HIDE DEF license, store, sync
<1>5. /\ AllProper(AuthEnv(m), m, V) /\ AllProper(SessionEnv(m), m, V)
      /\ AllProper(NetworkEnv(m), m, V) /\ AllProper(PostgresEnv(m), m, V)
  BY ProperAuth, ProperSession, ProperNetwork, ProperPostgres
<1>6. AllProper(TracingEnv(m), m, V) /\ AllProper(MetricsEnv(m), m, V) /\ AllProper(MiscEnv(m), m, V)
  BY ProperOtlp
<1>7. /\ AllProper(first, m, V)
      /\ \A n : Occurs(n, license) \/ Occurs(n, AuthEnv(m)) \/ Occurs(n, SessionEnv(m)) \/ Occurs(n, NetworkEnv(m))
                => Occurs(n, first)
  BY <1>3, <1>5, FiveInARow
<1> HIDE DEF first
<1>8. /\ AllProper(ConfigEnv(m), m, V)
      /\ \A n : Occurs(n, first) \/ Occurs(n, PostgresEnv(m)) \/ Occurs(n, TracingEnv(m)) \/ Occurs(n, MetricsEnv(m))
                => Occurs(n, ConfigEnv(m))
  BY <1>2, <1>3, <1>5, <1>6, <1>7, SixInARow
<1>9. ASSUME NEW c, Typed(m), Valid(m, c), NEW n \in Needed(m), n # "BINDPLANE_STATUS_KEYS"
      PROVE  Occurs(n, ConfigEnv(m))
  <2>1. ValidLicense(m) /\ ValidAuth(m) /\ ValidMetrics(m) /\ ValidTracing(m) /\ ValidPostgres(m)
    BY <1>9, ValidParts
  <2>2. CASE n \in {"BINDPLANE_LICENSE", "BINDPLANE_SESSION_SECRET", "BINDPLANE_POSTGRES_HOST", "BINDPLANE_REMOTE_URL"}
    <3>1. Occurs("BINDPLANE_LICENSE", ConfigEnv(m))
      BY <1>4, <1>7, <1>8, <1>9, <2>1
    <3>2. Occurs("BINDPLANE_SESSION_SECRET", ConfigEnv(m))
      BY <1>7, <1>8, <1>9, ProperSession
    <3>3. Occurs("BINDPLANE_REMOTE_URL", ConfigEnv(m))
      BY <1>7, <1>8, ProperNetwork
    <3>4. Occurs("BINDPLANE_POSTGRES_HOST", ConfigEnv(m))
      BY <1>8, <2>1, ProperPostgres
    <3> QED
      BY <2>2, <3>1, <3>2, <3>3, <3>4
  <2>3. CASE \/ m.authType = "system" /\ n \in SystemNames
             \/ m.authType \in {"ldap", "active-directory"} /\ n \in LDAPNames
             \/ m.authType = "oidc" /\ n \in OIDCNames
    <3>1. Occurs(n, AuthEnv(m))
      BY <1>9, <2>1, <2>3, ProperAuth
    <3> QED
      BY <1>7, <1>8, <3>1
  <2>4. CASE \/ m.metrics.type = "otlp" /\ n = "BINDPLANE_METRICS_OTLP_ENDPOINT"
             \/ m.tracing.type = "otlp" /\ n = "BINDPLANE_TRACING_OTLP_ENDPOINT"
    <3>1. Occurs(n, MetricsEnv(m)) \/ Occurs(n, TracingEnv(m))
      BY <2>1, <2>4, ProperOtlp
    <3> QED
      BY <1>8, <3>1
  <2> QED
    BY <1>9, <2>2, <2>3, <2>4 DEF Needed, SystemNames, LDAPNames, OIDCNames
<1> QED
  BY <1>8, <1>9

\* A certificate's files in the volume of that certificate, when it is there.
LEMMA ProperCertificate ==
  ASSUME NEW m, NEW V, NEW c, NEW n, NEW object, NEW names,
         ToSet(When(c, <<Volume(n, object, Certificate)>>)) \subseteq V,
         names.CERT \in FileNames, names.KEY \in FileNames, names.CA \in FileNames
  PROVE  c => AllProper(Files(names, TLSDir(n), {"CERT", "KEY", "CA"}), m, V)
<1> SUFFICES ASSUME c PROVE AllProper(Files(names, TLSDir(n), {"CERT", "KEY", "CA"}), m, V)
  OBVIOUS
<1> DEFINE v == Volume(n, object, Certificate)
<1>1. v \in V
  <2> HIDE DEF v
  <2>1. ToSet(When(c, <<v>>)) \subseteq V
    BY DEF v
  <2> QED
    BY <2>1, VolumeThere
<1>2. ASSUME NEW k \in {"CERT", "KEY", "CA"} PROVE InVolume(V, TLSDir(n), k)
  BY <1>1, FilesThere DEF Certificate
<1> QED
  BY <1>2, ProperFiles

LEMMA ProperTSDB ==
  ASSUME NEW m, NEW V, ToSet(TSDBClientVolumes(m)) \subseteq V
  PROVE  AllProper(TSDBEnv(m), m, V)
<1> DEFINE client == ClientTLS(Switched(m))
           c == client # "none"
           object == IF client = "certManager" THEN "clientCert" ELSE UserObject
           files == Files(TSDBClientFiles, TLSDir("tsdb-remote-write-tls"), {"CERT", "KEY", "CA"})
           names == <<"BINDPLANE_PROMETHEUS_ENABLE_REMOTE", "BINDPLANE_PROMETHEUS_HOST", "BINDPLANE_PROMETHEUS_PORT">>
           writes == <<"BINDPLANE_PROMETHEUS_REMOTE_WRITE_HOST", "BINDPLANE_PROMETHEUS_REMOTE_WRITE_PORT",
                       "BINDPLANE_PROMETHEUS_REMOTE_WRITE_ENDPOINT">>
           N == {"BINDPLANE_PROMETHEUS_ENABLE_REMOTE", "BINDPLANE_PROMETHEUS_HOST", "BINDPLANE_PROMETHEUS_PORT",
                 "BINDPLANE_PROMETHEUS_REMOTE_WRITE_HOST", "BINDPLANE_PROMETHEUS_REMOTE_WRITE_PORT",
                 "BINDPLANE_PROMETHEUS_REMOTE_WRITE_ENDPOINT"}
           auth == <<Value("BINDPLANE_PROMETHEUS_AUTH_TYPE"),
                     KeyOf("BINDPLANE_PROMETHEUS_AUTH_USERNAME", "basicAuth"),
                     KeyOf("BINDPLANE_PROMETHEUS_AUTH_PASSWORD", "basicAuth")>>
           remote == When(m.tsdb = "remoteWrite", Values(writes))
<1>1. AllProper(TSDBClientTLSEnv(m), m, V)
  <2>1. /\ TSDBClientFiles.CERT \in FileNames /\ TSDBClientFiles.KEY \in FileNames
        /\ TSDBClientFiles.CA \in FileNames /\ "BINDPLANE_PROMETHEUS_ENABLE_TLS" \notin Special
    BY DEF TSDBClientFiles, FileNames, Special, HostsName
  <2>2. TSDBClientVolumes(m) = When(c, <<Volume("tsdb-remote-write-tls", object, Certificate)>>)
    BY Zenon DEF TSDBClientVolumes
  <2>3. TSDBClientTLSEnv(m) = When(c, <<Value("BINDPLANE_PROMETHEUS_ENABLE_TLS")>> \o files)
    BY Zenon DEF TSDBClientTLSEnv
  <2> HIDE DEF c, object
  <2>4. c => AllProper(files, m, V)
    BY <2>1, <2>2, ProperCertificate
  <2>5. AllProper(<<Value("BINDPLANE_PROMETHEUS_ENABLE_TLS")>>, m, V)
    BY <2>1, ProperValue
  <2> HIDE DEF files
  <2>6. c => AllProper(<<Value("BINDPLANE_PROMETHEUS_ENABLE_TLS")>> \o files, m, V)
    BY <2>4, <2>5, ProperConcat, Zenon
  <2> QED
    BY <2>3, <2>6, ProperWhen
<1>2. names \in Seq(N) /\ writes \in Seq(N) /\ N \cap Special = {}
  BY DEF Special, HostsName
<1>3. AllProper(Values(names), m, V) /\ AllProper(Values(writes), m, V)
  <2> HIDE DEF names, writes, N
  <2> QED
    BY <1>2, ProperValues
<1>4. AllProper(remote, m, V)
  <2> HIDE DEF writes
  <2> QED
    BY <1>3, ProperWhen
<1>5. ~Remote(Switched(m)) => AllProper(auth, m, V)
  <2> SUFFICES ASSUME ~Remote(Switched(m)) PROVE AllProper(auth, m, V)
    OBVIOUS
  <2>1. Wants("basicAuth", Switched(m))
    BY WantsIs
  <2> DEFINE x == Value("BINDPLANE_PROMETHEUS_AUTH_TYPE")
             y == KeyOf("BINDPLANE_PROMETHEUS_AUTH_USERNAME", "basicAuth")
             z == KeyOf("BINDPLANE_PROMETHEUS_AUTH_PASSWORD", "basicAuth")
  <2>2. IsProper(x, m, V) /\ IsProper(y, m, V) /\ IsProper(z, m, V)
    BY <2>1 DEF IsProper, Value, Number, KeyOf, Entry, HostsName
  <2> HIDE DEF x, y, z
  <2>3. AllProper(<<x, y, z>>, m, V)
    BY <2>2, ProperThree
  <2> QED
    BY <2>3 DEF x, y, z
<1>6. TSDBEnv(m) = Values(names) \o (IF Remote(Switched(m)) THEN remote ELSE auth) \o TSDBClientTLSEnv(m)
  BY Zenon DEF TSDBEnv
<1> HIDE DEF names, remote, auth
<1>7. AllProper(IF Remote(Switched(m)) THEN remote ELSE auth, m, V)
  BY <1>4, <1>5
<1> QED
  BY <1>1, <1>3, <1>6, <1>7, ProperConcat, Zenon

LEMMA ProperAgent ==
  ASSUME NEW m, NEW V, ToSet(AgentVolumes(m)) \subseteq V
  PROVE  AllProper(AgentTLSEnv(m), m, V) /\ AllProper(AgentEnv(m), m, V)
<1> DEFINE c == m.agentTLS = "named"
           files == Files(AgentFiles, TLSDir("transform-agent-tls"), {"CERT", "KEY", "CA"})
           names == <<"BINDPLANE_TRANSFORM_AGENT_ENABLE_REMOTE", "BINDPLANE_TRANSFORM_AGENT_REMOTE_AGENTS">>
           N == {"BINDPLANE_TRANSFORM_AGENT_ENABLE_REMOTE", "BINDPLANE_TRANSFORM_AGENT_REMOTE_AGENTS"}
<1>1. AgentFiles.CERT \in FileNames /\ AgentFiles.KEY \in FileNames /\ AgentFiles.CA \in FileNames
  BY DEF AgentFiles, FileNames
<1>2. names \in Seq(N) /\ N \cap Special = {}
  BY DEF Special, HostsName
<1>3. AgentVolumes(m) = When(c, <<Volume("transform-agent-tls", "agentCert", Certificate)>>)
      /\ AgentTLSEnv(m) = When(c, files) /\ AgentEnv(m) = Values(names)
  BY Zenon DEF AgentVolumes, AgentTLSEnv, AgentEnv
<1> HIDE DEF c, names, N
<1>4. c => AllProper(files, m, V)
  BY <1>1, <1>3, ProperCertificate
<1> HIDE DEF files
<1>5. AllProper(When(c, files), m, V)
  BY <1>4, ProperWhen
<1>6. AllProper(Values(names), m, V)
  BY <1>2, ProperValues
<1> QED
  BY <1>3, <1>5, <1>6

LEMMA ProperStatus ==
  ASSUME NEW m, NEW V
  PROVE  AllProper(StatusEnv(m), m, V) /\ (~m.noStatus => Occurs("BINDPLANE_STATUS_KEYS", StatusEnv(m)))
<1> DEFINE ref == <<KeyOf("BINDPLANE_STATUS_KEYS", UserObject)>>
           inline == <<Value("BINDPLANE_STATUS_KEYS")>>
           own == <<KeyOf("BINDPLANE_STATUS_KEYS", "statusSecret")>>
           keys == IF m.statusRef THEN ref ELSE IF m.statusKeys # "none" THEN inline ELSE own
<1>1. "BINDPLANE_STATUS_KEYS" \notin Special /\ "BINDPLANE_STATUS_ENABLED" \notin Special
  BY DEF Special, HostsName
<1>2. AllProper(<<Value("BINDPLANE_STATUS_ENABLED")>>, m, V) /\ AllProper(ref, m, V) /\ AllProper(inline, m, V)
  BY <1>1, ProperValue, ProperKey
<1>3. ASSUME ~m.noStatus, ~m.statusRef, ~(m.statusKeys # "none") PROVE AllProper(own, m, V)
  <2>1. Switched(m) \cap {"noStatus", "userStatus"} = {}
    BY <1>3 DEF Switched, AllSwitches
  <2>2. Wants("statusSecret", Switched(m))
    BY <2>1, WantsIs DEF OwnStatusKeys
  <2> QED
    BY <1>1, <2>2, ProperKey
<1>4. StatusEnv(m) = <<Value("BINDPLANE_STATUS_ENABLED")>> \o When(~m.noStatus, keys)
  BY Zenon DEF StatusEnv
<1>5. ~m.noStatus => AllProper(keys, m, V)
  <2> HIDE DEF ref, inline, own
  <2> QED
    BY <1>2, <1>3
<1>6. Occurs("BINDPLANE_STATUS_KEYS", keys)
  <2>1. "ref" \in How /\ Given("ref")
    BY DEF How, Given
  <2>2. /\ Occurs("BINDPLANE_STATUS_KEYS", ref) /\ Occurs("BINDPLANE_STATUS_KEYS", inline)
        /\ Occurs("BINDPLANE_STATUS_KEYS", own)
    BY <2>1, OccursGiven
  <2> HIDE DEF ref, inline, own
  <2> QED
    BY <2>2
<1> DEFINE enabled == <<Value("BINDPLANE_STATUS_ENABLED")>>
           s == When(~m.noStatus, keys)
<1>7. StatusEnv(m) = enabled \o s /\ AllProper(enabled, m, V)
  BY <1>2, <1>4
<1> HIDE DEF keys, enabled
<1>8. AllProper(s, m, V)
  BY <1>5, ProperWhen
<1>9. ~m.noStatus => Occurs("BINDPLANE_STATUS_KEYS", s)
  BY <1>6 DEF When
<1> HIDE DEF s
<1>10. AllProper(enabled \o s, m, V) /\ \A n : Occurs(n, s) => Occurs(n, enabled \o s)
  BY <1>7, <1>8, ProperConcat, OccursConcat, Zenon
<1> QED
  BY <1>7, <1>9, <1>10

\* The default number of required hosts is what it is when it is asked for.
LEMMA ProperEventBus ==
  ASSUME NEW m, NEW V
  PROVE  AllProper(EventBusEnv(m), m, V) /\ (m.eventBus # "none" => Occurs(HostsName, EventBusEnv(m)))
<1> DEFINE e == Number(HostsName, IF m.eventBus = "default" THEN DefaultRequiredHosts(m) ELSE 1)
<1>1. IsProper(e, m, V)
  BY DEF IsProper, Number, Entry, HostsName
<1>2. EventBusEnv(m) = When(m.eventBus # "none", <<e>>)
  BY Zenon DEF EventBusEnv, HostsName
<1>3. e.name = HostsName
  BY DEF Number, Entry
<1> HIDE DEF e
<1>4. Occurs(HostsName, <<e>>)
  BY <1>3, OccursOne
<1>5. m.eventBus # "none" => Occurs(HostsName, EventBusEnv(m))
  BY <1>2, <1>4 DEF When
<1>6. AllProper(EventBusEnv(m), m, V)
  BY <1>1, <1>2, ProperOne, ProperWhen
<1> QED
  BY <1>5, <1>6

LEMMA ProperNATS ==
  ASSUME NEW m, NEW V, m.natsTLS => ToSet(NATSVolumes(m)) \subseteq V
  PROVE  AllProper(NATSClientEnv(m), m, V) /\ AllProper(NATSServerEnv(m), m, V)
<1> DEFINE files == Files(NATSFiles, TLSDir("nats-tls"), {"CERT", "KEY", "CA"})
           client == <<"BINDPLANE_EVENT_BUS_TYPE", "BINDPLANE_NATS_CLIENT_NAME", "BINDPLANE_NATS_CLIENT_ENDPOINT",
                       "BINDPLANE_NATS_CLIENT_SUBJECT">>
           server == <<"BINDPLANE_MODE", "BINDPLANE_EVENT_BUS_TYPE", "BINDPLANE_NATS_SERVER_ENABLE",
                       "BINDPLANE_NATS_SERVER_NAME", "BINDPLANE_NATS_CLIENT_NAME", "BINDPLANE_NATS_CLIENT_ENDPOINT">>
           routes == <<Number("BINDPLANE_NATS_SERVER_CLUSTER_ROUTES", m.natsReplicas)>>
           N == {"BINDPLANE_EVENT_BUS_TYPE", "BINDPLANE_NATS_CLIENT_NAME", "BINDPLANE_NATS_CLIENT_ENDPOINT",
                 "BINDPLANE_NATS_CLIENT_SUBJECT", "BINDPLANE_MODE", "BINDPLANE_NATS_SERVER_ENABLE",
                 "BINDPLANE_NATS_SERVER_NAME"}
           enable == <<Value("BINDPLANE_NATS_ENABLE_TLS")>>
<1>1. /\ NATSFiles.CERT \in FileNames /\ NATSFiles.KEY \in FileNames /\ NATSFiles.CA \in FileNames
      /\ {"BINDPLANE_NATS_ENABLE_TLS", "BINDPLANE_NATS_SERVER_CLUSTER_ROUTES"} \cap Special = {}
  BY DEF NATSFiles, FileNames, Special, HostsName
<1>2. client \in Seq(N) /\ server \in Seq(N) /\ N \cap Special = {}
  BY DEF Special, HostsName
<1>3. /\ NATSTLSEnv(m) = When(m.natsTLS, enable \o files)
      /\ NATSClientEnv(m) = Values(client) \o NATSTLSEnv(m)
      /\ NATSServerEnv(m) = Values(server) \o routes \o NATSTLSEnv(m)
  BY Zenon DEF NATSTLSEnv, NATSClientEnv, NATSServerEnv
<1>4. AllProper(Values(client), m, V) /\ AllProper(Values(server), m, V)
  <2> HIDE DEF client, server, N
  <2> QED
    BY <1>2, ProperValues
<1>5. AllProper(enable, m, V) /\ AllProper(routes, m, V)
  BY <1>1, ProperValue, ProperNumber
<1>6. m.natsTLS => AllProper(files, m, V)
  <2>1. m.natsTLS => ToSet(When(m.natsTLS, <<Volume("nats-tls", "natsCert", Certificate)>>)) \subseteq V
    BY DEF NATSVolumes
  <2> QED
    BY <1>1, <2>1, ProperCertificate
<1> HIDE DEF files, client, server, routes, enable
<1>7. m.natsTLS => AllProper(enable \o files, m, V)
  BY <1>5, <1>6, ProperConcat, Zenon
<1>8. AllProper(NATSTLSEnv(m), m, V)
  BY <1>3, <1>7, ProperWhen
<1> QED
  BY <1>3, <1>4, <1>5, <1>8, ProperConcat, Zenon

\* What the common part of the environment has files of.
CommonVolumes(m) ==
  ToSet(LDAPVolumes(m)) \cup ToSet(NetworkVolumes(m)) \cup ToSet(PostgresVolumes(m))
  \cup ToSet(TSDBClientVolumes(m)) \cup ToSet(AgentVolumes(m))

LEMMA VolumesHold ==
  ASSUME NEW m, Typed(m)
  PROVE  /\ ToSet(ConfigVolumes(m)) = CommonVolumes(m) \cup ToSet(NATSVolumes(m))
         /\ ToSet(MigrateVolumes(m)) = CommonVolumes(m)
<1> DEFINE E == BackedVolumes(m)
           s1 == LDAPVolumes(m)
           s2 == NetworkVolumes(m)
           s3 == PostgresVolumes(m)
           s4 == TSDBClientVolumes(m)
           s5 == NATSVolumes(m)
           s6 == AgentVolumes(m)
<1>1. s1 \in Seq(E) /\ s2 \in Seq(E) /\ s3 \in Seq(E) /\ s4 \in Seq(E) /\ s5 \in Seq(E) /\ s6 \in Seq(E)
  BY EachListed DEF Lists
<1>2. ConfigVolumes(m) = s1 \o s2 \o s3 \o s4 \o s5 \o s6 /\ MigrateVolumes(m) = s1 \o s2 \o s3 \o s4 \o s6
  BY Zenon DEF ConfigVolumes, MigrateVolumes
<1>3. CommonVolumes(m) = ToSet(s1) \cup ToSet(s2) \cup ToSet(s3) \cup ToSet(s4) \cup ToSet(s6)
  BY DEF CommonVolumes
<1> HIDE DEF E, s1, s2, s3, s4, s5, s6
<1>4. ASSUME NEW s \in Seq(E), NEW t \in Seq(E) PROVE s \o t \in Seq(E) /\ ToSet(s \o t) = ToSet(s) \cup ToSet(t)
  BY ToSetConcat
<1>5. s1 \o s2 \in Seq(E) /\ ToSet(s1 \o s2) = ToSet(s1) \cup ToSet(s2)
  BY <1>1, <1>4
<1>6. s1 \o s2 \o s3 \in Seq(E) /\ ToSet(s1 \o s2 \o s3) = ToSet(s1) \cup ToSet(s2) \cup ToSet(s3)
  BY <1>1, <1>4, <1>5
<1> DEFINE s == s1 \o s2 \o s3 \o s4
<1>7. s \in Seq(E) /\ ToSet(s) = ToSet(s1) \cup ToSet(s2) \cup ToSet(s3) \cup ToSet(s4)
  BY <1>1, <1>4, <1>6
<1> HIDE DEF s
<1>8. ToSet(s \o s6) = ToSet(s) \cup ToSet(s6)
  BY <1>1, <1>4, <1>7
<1>9. ToSet(s \o s5 \o s6) = ToSet(s) \cup ToSet(s5) \cup ToSet(s6)
  <2>1. s \o s5 \in Seq(E) /\ ToSet(s \o s5) = ToSet(s) \cup ToSet(s5)
    BY <1>1, <1>4, <1>7
  <2> DEFINE u == s \o s5
  <2> HIDE DEF u
  <2>2. u \in Seq(E) /\ ToSet(u) = ToSet(s) \cup ToSet(s5)
    BY <2>1 DEF u
  <2>3. ToSet(u \o s6) = ToSet(u) \cup ToSet(s6)
    BY <1>1, <1>4, <2>2
  <2> QED
    BY <2>2, <2>3 DEF u
<1>10. ConfigVolumes(m) = s \o s5 \o s6 /\ MigrateVolumes(m) = s \o s6
  BY <1>2 DEF s
<1> HIDE DEF s1, s2, s3, s4, s5, s6
<1>11. ToSet(s \o s6) = CommonVolumes(m)
  BY <1>3, <1>7, <1>8
<1>12. ToSet(s \o s5 \o s6) = CommonVolumes(m) \cup ToSet(s5)
  BY <1>3, <1>7, <1>9
<1> QED
  BY <1>10, <1>11, <1>12 DEF s5

LEMMA ProperCommon ==
  ASSUME NEW m, NEW V, CommonVolumes(m) \subseteq V
  PROVE  /\ AllProper(CommonEnv(m), m, V)
         /\ \A c : Typed(m) /\ Valid(m, c) => \A n \in Needed(m) : Occurs(n, CommonEnv(m))
         /\ m.eventBus = "default" => Occurs(HostsName, CommonEnv(m))
<1> DEFINE names == <<"BINDPLANE_LOGGING_LEVEL", "BINDPLANE_LOGGING_TYPE">>
           N == {"BINDPLANE_LOGGING_LEVEL", "BINDPLANE_LOGGING_TYPE"}
<1>1. names \in Seq(N) /\ N \cap Special = {}
  BY DEF Special, HostsName
<1>2. CommonEnv(m) = ConfigEnv(m) \o TSDBEnv(m) \o AgentEnv(m) \o AgentTLSEnv(m) \o StatusEnv(m)
                     \o Values(names) \o EventBusEnv(m)
  BY Zenon DEF CommonEnv
<1> HIDE DEF names, N
<1>3. AllProper(Values(names), m, V)
  BY <1>1, ProperValues
<1>4. /\ ToSet(LDAPVolumes(m)) \cup ToSet(NetworkVolumes(m)) \cup ToSet(PostgresVolumes(m)) \subseteq V
      /\ ToSet(TSDBClientVolumes(m)) \subseteq V /\ ToSet(AgentVolumes(m)) \subseteq V
  BY DEF CommonVolumes
<1>5. AllProper(ConfigEnv(m), m, V) /\ AllProper(TSDBEnv(m), m, V)
  BY <1>4, ProperConfig, ProperTSDB
<1>6. AllProper(AgentEnv(m), m, V) /\ AllProper(AgentTLSEnv(m), m, V)
  BY <1>4, ProperAgent
<1>7. AllProper(StatusEnv(m), m, V) /\ AllProper(EventBusEnv(m), m, V)
  BY ProperStatus, ProperEventBus
<1> DEFINE first == ConfigEnv(m) \o TSDBEnv(m) \o AgentEnv(m) \o AgentTLSEnv(m) \o StatusEnv(m)
           logging == Values(names)
<1>8. CommonEnv(m) = first \o logging \o EventBusEnv(m) /\ AllProper(logging, m, V)
  BY <1>2, <1>3, Zenon
<1>9. /\ AllProper(first, m, V)
      /\ \A n : Occurs(n, ConfigEnv(m)) \/ Occurs(n, StatusEnv(m)) => Occurs(n, first)
  BY <1>5, <1>6, <1>7, FiveInARow
<1> HIDE DEF first, logging
<1>10. AllProper(first \o logging, m, V) /\ \A n : Occurs(n, first) => Occurs(n, first \o logging)
  BY <1>8, <1>9, ProperConcat, OccursConcat, Zenon
<1>11. /\ AllProper(CommonEnv(m), m, V)
       /\ \A n : Occurs(n, first \o logging) \/ Occurs(n, EventBusEnv(m)) => Occurs(n, CommonEnv(m))
  BY <1>7, <1>8, <1>10, ProperConcat, OccursConcat, Zenon
<1>12. ASSUME NEW c, Typed(m), Valid(m, c), NEW n \in Needed(m) PROVE Occurs(n, CommonEnv(m))
  <2>1. CASE n # "BINDPLANE_STATUS_KEYS"
    <3>1. Occurs(n, ConfigEnv(m))
      BY <1>4, <1>12, <2>1, ProperConfig
    <3> QED
      BY <1>9, <1>10, <1>11, <3>1
  <2>2. CASE n = "BINDPLANE_STATUS_KEYS"
    <3>1. ~m.noStatus
      BY <1>12, <2>2 DEF Needed
    <3>2. Occurs(n, StatusEnv(m))
      BY <2>2, <3>1, ProperStatus
    <3> QED
      BY <1>9, <1>10, <1>11, <3>2
  <2> QED
    BY <2>1, <2>2
<1>13. m.eventBus = "default" => Occurs(HostsName, CommonEnv(m))
  BY <1>11, ProperEventBus
<1> QED
  BY <1>11, <1>12, <1>13

LEMMA ProperKubernetes ==
  ASSUME NEW m, NEW V
  PROVE  AllProper(KubernetesEnv, m, V)
<1> DEFINE names == <<"KUBERNETES_NAMESPACE_NAME", "KUBERNETES_POD_NAME", "KUBERNETES_CONTAINER_NAME">>
           N == {"KUBERNETES_NAMESPACE_NAME", "KUBERNETES_POD_NAME", "KUBERNETES_CONTAINER_NAME"}
<1>1. names \in Seq(N) /\ N \cap Special = {}
  BY DEF Special, HostsName
<1>2. KubernetesEnv = Values(names)
  BY Zenon DEF KubernetesEnv
<1> HIDE DEF names, N
<1> QED
  BY <1>1, <1>2, ProperValues

\* The parts a component's environment is made of, with the component's own volumes.
LEMMA ProperParts ==
  ASSUME NEW c \in Components, NEW m, Typed(m), NEW V, V = ToSet(OwnVolumes(c, m))
  PROVE  /\ AllProper(Mode, m, V) /\ AllProper(OpAMPOverride(m), m, V)
         /\ c \in Bindplane => AllProper(CommonEnv(m), m, V)
         /\ c \in {"node", "opamp", "jobs", "nats"} =>
              AllProper(NATSClientEnv(m), m, V) /\ AllProper(NATSServerEnv(m), m, V)
<1>1. AllProper(Mode, m, V)
  <2>1. "BINDPLANE_MODE" \notin Special
    BY DEF Special, HostsName
  <2> QED
    BY <2>1, ProperValue DEF Mode
<1>2. AllProper(OpAMPOverride(m), m, V)
  <2> DEFINE d == m.opampConnections > 0
             e == <<Number("BINDPLANE_AGENTS_MAX_SIMULTANEOUS_CONNECTIONS", m.opampConnections)>>
  <2>1. "BINDPLANE_AGENTS_MAX_SIMULTANEOUS_CONNECTIONS" \notin Special
    BY DEF Special, HostsName
  <2>2. OpAMPOverride(m) = When(d, e)
    BY DEF OpAMPOverride
  <2>3. AllProper(e, m, V)
    BY <2>1, ProperNumber
  <2> HIDE DEF d, e
  <2> QED
    BY <2>2, <2>3, ProperWhen
<1>3. c \in {"node", "opamp", "jobs", "nats"} => V = CommonVolumes(m) \cup ToSet(NATSVolumes(m))
  BY VolumesHold DEF OwnVolumes
<1>4. c = "migrate" => V = CommonVolumes(m)
  BY VolumesHold DEF OwnVolumes
<1>5. c \in Bindplane => AllProper(CommonEnv(m), m, V)
  <2>1. c \in Bindplane => CommonVolumes(m) \subseteq V
    BY <1>3, <1>4 DEF Bindplane, Components
  <2> QED
    BY <2>1, ProperCommon
<1>6. c \in {"node", "opamp", "jobs", "nats"} =>
        AllProper(NATSClientEnv(m), m, V) /\ AllProper(NATSServerEnv(m), m, V)
  <2>1. c \in {"node", "opamp", "jobs", "nats"} => ToSet(NATSVolumes(m)) \subseteq V
    BY <1>3
  <2> QED
    BY <2>1, ProperNATS
<1> QED
  BY <1>1, <1>2, <1>5, <1>6

Connections == "BINDPLANE_AGENTS_MAX_SIMULTANEOUS_CONNECTIONS"

\* The operator's environment of a component is a proper one; that of the TSDB names
\* no files at all; the common part is in all of Bindplane's; and OpAMP's own number of
\* connections comes after the common one.
LEMMA ProperOwn ==
  ASSUME NEW c \in Components, NEW m, Typed(m), NEW own, own = Operators(c, m).env
  PROVE  /\ AllProper(own, m, ToSet(OwnVolumes(c, m)))
         /\ c = "tsdb" => AllProper(own, m, {})
         /\ c \in Bindplane => \A n : Occurs(n, CommonEnv(m)) => Occurs(n, own)
         /\ c = "opamp" /\ m.opampConnections > 0 =>
              Named(own, Connections) # {} /\ Effective(own, Connections) = Number(Connections, m.opampConnections)
<1> DEFINE V == ToSet(OwnVolumes(c, m))
           bindplane == Mode \o CommonEnv(m) \o NATSClientEnv(m)
<1>1. own = KubernetesEnv \o OwnEnv(c, m)
  BY PartsOf
<1>2. AllProper(KubernetesEnv, m, V) /\ AllProper(KubernetesEnv, m, {})
  BY ProperKubernetes
<1>3. /\ AllProper(Mode, m, V) /\ AllProper(OpAMPOverride(m), m, V)
      /\ c \in Bindplane => AllProper(CommonEnv(m), m, V)
      /\ c \in {"node", "opamp", "jobs", "nats"} =>
           AllProper(NATSClientEnv(m), m, V) /\ AllProper(NATSServerEnv(m), m, V)
  BY ProperParts
<1>4. c = "tsdb" => AllProper(OwnEnv(c, m), m, V) /\ AllProper(OwnEnv(c, m), m, {})
  BY ProperEmpty DEF OwnEnv
<1>5. c = "transformAgent" => AllProper(OwnEnv(c, m), m, V)
  BY ProperAgent DEF OwnEnv, OwnVolumes
<1> HIDE DEF V
<1>6. c \in {"node", "jobs", "opamp"} =>
        AllProper(bindplane, m, V) /\ \A n : Occurs(n, CommonEnv(m)) => Occurs(n, bindplane)
  <2> SUFFICES ASSUME c \in {"node", "jobs", "opamp"}
               PROVE  AllProper(bindplane, m, V) /\ \A n : Occurs(n, CommonEnv(m)) => Occurs(n, bindplane)
    OBVIOUS
  <2>1. AllProper(Mode, m, V) /\ AllProper(CommonEnv(m), m, V) /\ AllProper(NATSClientEnv(m), m, V)
    BY <1>3 DEF Bindplane, Components
  <2>2. /\ AllProper(Mode \o CommonEnv(m), m, V)
        /\ \A n : Occurs(n, CommonEnv(m)) => Occurs(n, Mode \o CommonEnv(m))
    BY <2>1, ProperConcat, OccursConcat, Zenon
  <2> QED
    BY <2>1, <2>2, ProperConcat, OccursConcat, Zenon
<1>7. /\ c \in {"node", "jobs"} => OwnEnv(c, m) = bindplane
      /\ c = "opamp" => OwnEnv(c, m) = bindplane \o OpAMPOverride(m)
      /\ c = "migrate" => OwnEnv(c, m) = Mode \o CommonEnv(m)
      /\ c = "nats" => OwnEnv(c, m) = NATSServerEnv(m) \o CommonEnv(m)
  BY DEF OwnEnv
<1> HIDE DEF bindplane
<1>8. c \in Bindplane =>
        AllProper(OwnEnv(c, m), m, V) /\ \A n : Occurs(n, CommonEnv(m)) => Occurs(n, OwnEnv(c, m))
  <2>1. CASE c \in {"node", "jobs"}
    BY <1>6, <1>7, <2>1
  <2>2. CASE c = "opamp"
    <3>1. /\ AllProper(bindplane \o OpAMPOverride(m), m, V)
          /\ \A n : Occurs(n, bindplane) => Occurs(n, bindplane \o OpAMPOverride(m))
      BY <1>3, <1>6, <2>2, ProperConcat, OccursConcat, Zenon
    <3> QED
      BY <1>6, <1>7, <2>2, <3>1
  <2>3. CASE c = "migrate"
    <3>1. AllProper(Mode, m, V) /\ AllProper(CommonEnv(m), m, V) /\ OwnEnv(c, m) = Mode \o CommonEnv(m)
      BY <1>3, <1>7, <2>3 DEF Bindplane, Components
    <3> QED
      BY <3>1, ProperConcat, OccursConcat, Zenon
  <2>4. CASE c = "nats"
    <3>1. AllProper(NATSServerEnv(m), m, V) /\ AllProper(CommonEnv(m), m, V)
          /\ OwnEnv(c, m) = NATSServerEnv(m) \o CommonEnv(m)
      BY <1>3, <1>7, <2>4 DEF Bindplane, Components
    <3> QED
      BY <3>1, ProperConcat, OccursConcat, Zenon
  <2> QED
    BY <2>1, <2>2, <2>3, <2>4 DEF Bindplane, Components
<1>9. AllProper(OwnEnv(c, m), m, V)
  BY <1>4, <1>5, <1>8 DEF Bindplane
<1>10. /\ AllProper(own, m, V)
       /\ \A n : Occurs(n, OwnEnv(c, m)) => Occurs(n, own)
  BY <1>1, <1>2, <1>9, ProperConcat, OccursConcat, Zenon
<1>11. c = "tsdb" => AllProper(own, m, {})
  BY <1>1, <1>2, <1>4, ProperConcat, Zenon
<1>12. ASSUME c = "opamp", m.opampConnections > 0
       PROVE  /\ Named(own, Connections) # {}
              /\ Effective(own, Connections) = Number(Connections, m.opampConnections)
  <2> DEFINE e == Number(Connections, m.opampConnections)
             F == ToSet(KubernetesEnv) \cup ToSet(bindplane) \cup {e}
             t == <<e>>
             s == bindplane \o t
  <2>1. OpAMPOverride(m) = t /\ e.name = Connections
    BY <1>12 DEF OpAMPOverride, When, Connections, Number, Entry
  <2> HIDE DEF e
  <2>2. KubernetesEnv \in Seq(F) /\ bindplane \in Seq(F) /\ t \in Seq(F)
    <3>1. ASSUME NEW A, NEW B, A \subseteq B, NEW q \in Seq(A) PROVE q \in Seq(B)
      BY <3>1
    <3>2. KubernetesEnv \in Seq(ToSet(KubernetesEnv)) /\ bindplane \in Seq(ToSet(bindplane))
      BY <1>2, <1>6, <1>12 DEF AllProper
    <3> QED
      BY <3>1, <3>2
  <2>3. Named(t, Connections) # {} /\ Effective(t, Connections) = e
    BY <2>1, LastOfOne
  <2>4. own = KubernetesEnv \o s
    BY <1>1, <1>7, <1>12, <2>1
  <2> HIDE DEF F, t
  <2>5. s \in Seq(F) /\ Named(s, Connections) # {} /\ Effective(s, Connections) = e
    BY <2>2, <2>3, EffectiveAfter, NamedConcat
  <2> HIDE DEF s
  <2>6. Named(own, Connections) # {} /\ Effective(own, Connections) = e
    BY <2>2, <2>4, <2>5, EffectiveAfter, NamedConcat
  <2> QED
    BY <2>6 DEF e
<1>13. c \in Bindplane => \A n : Occurs(n, CommonEnv(m)) => Occurs(n, own)
  BY <1>8, <1>10
<1> QED
  BY <1>10, <1>11, <1>12, <1>13 DEF V

-----------------------------------------------------------------------------
(* The final environment                                                   *)

\* An entry of a new name goes to the end, where it counts; for other names nothing
\* changes.
LEMMA UpsertIs ==
  ASSUME NEW E, NEW s \in Seq(E), NEW e \in E, NEW n, e.name = n, Named(s, n) = {}
  PROVE  /\ Upsert(s, e) \in Seq(E) /\ ToSet(Upsert(s, e)) = ToSet(s) \cup {e}
         /\ Effective(Upsert(s, e), n) = e
         /\ \A k : k # n => /\ Effective(Upsert(s, e), k) = Effective(s, k)
                            /\ Named(Upsert(s, e), k) = {} <=> Named(s, k) = {}
<1> DEFINE t == <<e>>
<1>1. t \in Seq(E) /\ DOMAIN t = {1} /\ t[1] = e /\ 1 \in DOMAIN t /\ ToSet(t) = {e}
  BY ShortLists
<1>2. Upsert(s, e) = s \o t
  BY DEF Upsert
<1> HIDE DEF t
<1>3. ToSet(s \o t) = ToSet(s) \cup {e} /\ s \o t \in Seq(E)
  BY <1>1, ToSetConcat
<1>4. Effective(s \o t, n) = e
  <2>1. Named(t, n) # {} /\ Effective(t, n) = e
    BY LastOfOne DEF t
  <2> QED
    BY <1>1, <2>1, EffectiveAfter
<1>5. ASSUME NEW k, k # n
      PROVE  /\ Effective(s \o t, k) = Effective(s, k)
             /\ Named(s \o t, k) = {} <=> Named(s, k) = {}
  <2>1. Named(t, k) = {}
    BY <1>1, <1>5 DEF Named
  <2> QED
    BY <1>1, <2>1, EffectiveAfter, NamedConcat
<1> QED
  BY <1>2, <1>3, <1>4, <1>5

Threads(r) == Number("GOMAXPROCS", WholeCPUs(Granted(r, "cpuLimit", "cpuRequest")))
Memory(r) == Number("GOMEMLIMIT", WithHeadroom(Granted(r, "memLimit", "memRequest")))

\* The two settings of the Go runtime, where there were none.
LEMMA WithGoEnvIs ==
  ASSUME NEW E, NEW s \in Seq(E), Named(s, "GOMAXPROCS") = {}, Named(s, "GOMEMLIMIT") = {}, NEW r
  PROVE  /\ ToSet(WithGoEnv(s, r)) \subseteq ToSet(s) \cup {Threads(r), Memory(r)}
         /\ Effective(WithGoEnv(s, r), "GOMAXPROCS")
              = IF Granted(r, "cpuLimit", "cpuRequest") > 0 THEN Threads(r)
                ELSE Entry("GOMAXPROCS", "nowhere", <<>>, 0)
         /\ Effective(WithGoEnv(s, r), "GOMEMLIMIT")
              = IF Granted(r, "memLimit", "memRequest") > 0 THEN Memory(r)
                ELSE Entry("GOMEMLIMIT", "nowhere", <<>>, 0)
         /\ \A k : k \notin {"GOMAXPROCS", "GOMEMLIMIT"} => Effective(WithGoEnv(s, r), k) = Effective(s, k)
<1> DEFINE cpu == Granted(r, "cpuLimit", "cpuRequest") > 0
           mem == Granted(r, "memLimit", "memRequest") > 0
           F == E \cup {Threads(r), Memory(r)}
           p == IF cpu THEN Upsert(s, Threads(r)) ELSE s
           q == IF mem THEN Upsert(p, Memory(r)) ELSE p
           nothing(n) == Entry(n, "nowhere", <<>>, 0)
<1>1. s \in Seq(F) /\ Threads(r) \in F /\ Memory(r) \in F
  <2>1. ASSUME NEW G, E \subseteq G PROVE s \in Seq(G)
    BY <2>1
  <2> QED
    BY <2>1
<1>2. WithGoEnv(s, r) = q
  BY DEF WithGoEnv, Threads, Memory
<1>3. Threads(r).name = "GOMAXPROCS" /\ Memory(r).name = "GOMEMLIMIT"
  BY DEF Threads, Memory, Number, Entry
<1>4. Effective(s, "GOMAXPROCS") = nothing("GOMAXPROCS") /\ Effective(s, "GOMEMLIMIT") = nothing("GOMEMLIMIT")
  BY DEF Effective
<1> HIDE DEF cpu, mem, F, q, nothing
<1>5. /\ p \in Seq(F) /\ ToSet(p) \subseteq ToSet(s) \cup {Threads(r)}
      /\ Effective(p, "GOMAXPROCS") = IF cpu THEN Threads(r) ELSE nothing("GOMAXPROCS")
      /\ \A k : k # "GOMAXPROCS" => /\ Effective(p, k) = Effective(s, k)
                                    /\ Named(p, k) = {} <=> Named(s, k) = {}
  <2>1. CASE cpu
    BY <1>1, <1>3, <2>1, UpsertIs
  <2>2. CASE ~cpu
    BY <1>1, <1>4, <2>2
  <2> QED
    BY <2>1, <2>2
<1> HIDE DEF p
<1>6. Named(p, "GOMEMLIMIT") = {}
  BY <1>5
<1>7. /\ ToSet(q) \subseteq ToSet(p) \cup {Memory(r)}
      /\ Effective(q, "GOMEMLIMIT") = IF mem THEN Memory(r) ELSE nothing("GOMEMLIMIT")
      /\ \A k : k # "GOMEMLIMIT" => Effective(q, k) = Effective(p, k)
  <2>1. CASE mem
    <3>1. q = Upsert(p, Memory(r))
      BY <2>1 DEF q
    <3>2. /\ ToSet(Upsert(p, Memory(r))) = ToSet(p) \cup {Memory(r)}
          /\ Effective(Upsert(p, Memory(r)), "GOMEMLIMIT") = Memory(r)
          /\ \A k : k # "GOMEMLIMIT" => Effective(Upsert(p, Memory(r)), k) = Effective(p, k)
      BY <1>1, <1>3, <1>5, <1>6, UpsertIs
    <3> QED
      BY <2>1, <3>1, <3>2
  <2>2. CASE ~mem
    <3>1. q = p
      BY <2>2 DEF q
    <3>2. Effective(p, "GOMEMLIMIT") = nothing("GOMEMLIMIT")
      BY <1>4, <1>5
    <3> QED
      BY <2>2, <3>1, <3>2
  <2> QED
    BY <2>1, <2>2
<1>8. ToSet(q) \subseteq ToSet(s) \cup {Threads(r), Memory(r)}
  BY <1>5, <1>7
<1>9. Effective(q, "GOMAXPROCS") = IF cpu THEN Threads(r) ELSE nothing("GOMAXPROCS")
  BY <1>5, <1>7
<1>10. \A k : k \notin {"GOMAXPROCS", "GOMEMLIMIT"} => Effective(q, k) = Effective(s, k)
  BY <1>5, <1>7
<1> QED
  BY <1>2, <1>7, <1>8, <1>9, <1>10 DEF cpu, mem, nothing

UserEnv(m) == [i \in DOMAIN m.extraEnv |-> FromUser(m.extraEnv[i])]

\* The user's entries come first, under none of the names of the Go runtime.
LEMMA UserEnvIs ==
  ASSUME NEW c, NEW m, Typed(m), Valid(m, c)
  PROVE  /\ UserEnv(m) \in Seq({FromUser(n) : n \in STRING})
         /\ Named(UserEnv(m), "GOMAXPROCS") = {} /\ Named(UserEnv(m), "GOMEMLIMIT") = {}
<1>1. m.extraEnv \in Seq(STRING) /\ ValidExtraEnv(m)
  BY FieldsHaveTypes, ValidParts
<1>2. \A i \in DOMAIN m.extraEnv : m.extraEnv[i] \in STRING /\ m.extraEnv[i] \notin {"GOMAXPROCS", "GOMEMLIMIT"}
  BY <1>1 DEF ValidExtraEnv, ReservedEnv
<1>3. DOMAIN UserEnv(m) = DOMAIN m.extraEnv
      /\ \A i \in DOMAIN m.extraEnv : UserEnv(m)[i] = FromUser(m.extraEnv[i])
  BY DEF UserEnv
<1>4. \A n : FromUser(n).name = n
  BY DEF FromUser, Entry
<1>5. \A i \in DOMAIN UserEnv(m) : UserEnv(m)[i].name \notin {"GOMAXPROCS", "GOMEMLIMIT"}
  BY <1>2, <1>3, <1>4
<1>6. UserEnv(m) \in Seq({FromUser(n) : n \in STRING})
  <2> DEFINE U == {FromUser(n) : n \in STRING}
  <2>1. \A i \in DOMAIN m.extraEnv : UserEnv(m)[i] \in U
    BY <1>2, <1>3
  <2> HIDE DEF U
  <2>2. Len(m.extraEnv) \in Nat /\ DOMAIN m.extraEnv = 1..Len(m.extraEnv)
    BY <1>1
  <2>3. UserEnv(m) = [i \in 1..Len(m.extraEnv) |-> UserEnv(m)[i]]
    BY <2>2, <1>3 DEF UserEnv
  <2>4. UserEnv(m) \in Seq(U)
    BY <1>3, <2>1, <2>2, <2>3
  <2> QED
    BY <2>4 DEF U
<1> QED
  BY <1>5, <1>6 DEF Named

\* The operator's environment has no entry of the Go runtime's before they are added.
LEMMA NoGoEnv ==
  ASSUME NEW m, NEW V, NEW s, AllProper(s, m, V)
  PROVE  Named(s, "GOMAXPROCS") = {} /\ Named(s, "GOMEMLIMIT") = {}
<1>1. \A i \in DOMAIN s : s[i] \in ToSet(s)
  BY DEF ToSet
<1>2. \A i \in DOMAIN s : s[i].name \notin {"GOMAXPROCS", "GOMEMLIMIT"}
  BY <1>1 DEF AllProper, IsProper
<1> QED
  BY <1>2 DEF Named

\* The entries of the template: the user's, the operator's and the Go runtime's; and
\* what counts for a name among them.
LEMMA EnvIs ==
  ASSUME NEW c, NEW m, HasTemplate(c, m), Typed(m), Valid(m, c),
         NEW t, t = Template(c, m), NEW own, own = Operators(c, m).env
  PROVE  /\ \A e \in ToSet(t.env) :
              \/ e \in ToSet(own) \/ e.from = "user" \/ e.from = "value"
         /\ \A n : Named(own, n) # {} => /\ Effective(t.env, n) = Effective(own, n)
                                         /\ Effective(own, n) \in ToSet(own)
                                         /\ Effective(own, n).name = n
         /\ Effective(t.env, "GOMAXPROCS")
              = IF Granted(t.resources, "cpuLimit", "cpuRequest") > 0 THEN Threads(t.resources)
                ELSE Entry("GOMAXPROCS", "nowhere", <<>>, 0)
         /\ Effective(t.env, "GOMEMLIMIT")
              = IF Granted(t.resources, "memLimit", "memRequest") > 0 THEN Memory(t.resources)
                ELSE Entry("GOMEMLIMIT", "nowhere", <<>>, 0)
<1> DEFINE U == {FromUser(n) : n \in STRING}
           E == U \cup ToSet(own)
           user == UserEnv(m)
           r == t.resources
<1>1. AllProper(own, m, ToSet(OwnVolumes(c, m)))
  BY ProperOwn DEF HasTemplate
<1>2. user \in Seq(U) /\ Named(user, "GOMAXPROCS") = {} /\ Named(user, "GOMEMLIMIT") = {}
  BY UserEnvIs
<1>3. own \in Seq(ToSet(own)) /\ Named(own, "GOMAXPROCS") = {} /\ Named(own, "GOMEMLIMIT") = {}
  BY <1>1, NoGoEnv DEF AllProper
<1>4. t.env = WithGoEnv(user \o own, r)
  BY DEF Template, Environment, UserEnv
<1>5. ASSUME NEW e \in U PROVE e.from = "user"
  BY DEF FromUser, Entry
<1> HIDE DEF U, user, r
<1>6. user \in Seq(E) /\ own \in Seq(E)
  <2>1. ASSUME NEW A, NEW B, A \subseteq B, NEW q \in Seq(A) PROVE q \in Seq(B)
    BY <2>1
  <2> QED
    BY <1>2, <1>3, <2>1
<1> HIDE DEF E
<1> DEFINE all == user \o own
<1>7. all \in Seq(E) /\ ToSet(all) = ToSet(user) \cup ToSet(own)
  BY <1>6, ToSetConcat
<1>8. Named(all, "GOMAXPROCS") = {} /\ Named(all, "GOMEMLIMIT") = {}
  BY <1>2, <1>3, <1>6, NamedConcat
<1>9. ASSUME NEW n, Named(own, n) # {}
      PROVE  /\ Effective(all, n) = Effective(own, n) /\ n \notin {"GOMAXPROCS", "GOMEMLIMIT"}
             /\ Effective(own, n) \in ToSet(own) /\ Effective(own, n).name = n
  <2>1. Effective(all, n) = Effective(own, n)
    BY <1>6, <1>9, EffectiveAfter
  <2>2. PICK i \in DOMAIN own : own[i].name = n /\ LastNamed(own, n) = own[i]
    BY <1>3, <1>9, LastNamedIs
  <2>3. Effective(own, n) = own[i] /\ own[i] \in ToSet(own)
    BY <1>9, <2>2 DEF Effective, ToSet
  <2> QED
    BY <1>3, <1>9, <2>1, <2>2, <2>3
<1> HIDE DEF all
<1>10. t.env = WithGoEnv(all, r)
  BY <1>4 DEF all
<1>11. /\ ToSet(t.env) \subseteq ToSet(all) \cup {Threads(r), Memory(r)}
       /\ Effective(t.env, "GOMAXPROCS")
            = IF Granted(r, "cpuLimit", "cpuRequest") > 0 THEN Threads(r)
              ELSE Entry("GOMAXPROCS", "nowhere", <<>>, 0)
       /\ Effective(t.env, "GOMEMLIMIT")
            = IF Granted(r, "memLimit", "memRequest") > 0 THEN Memory(r)
              ELSE Entry("GOMEMLIMIT", "nowhere", <<>>, 0)
       /\ \A k : k \notin {"GOMAXPROCS", "GOMEMLIMIT"} => Effective(t.env, k) = Effective(all, k)
  BY <1>7, <1>8, <1>10, WithGoEnvIs
<1>12. Threads(r).from = "value" /\ Memory(r).from = "value"
  BY DEF Threads, Memory, Number, Entry
<1>13. ToSet(user) \subseteq U
  BY <1>2, ToSetFinite
<1>14. \A e \in ToSet(t.env) : e \in ToSet(own) \/ e.from = "user" \/ e.from = "value"
  BY <1>5, <1>7, <1>11, <1>12, <1>13
<1>15. \A n : Named(own, n) # {} => /\ Effective(t.env, n) = Effective(own, n)
                                    /\ Effective(own, n) \in ToSet(own)
                                    /\ Effective(own, n).name = n
  BY <1>9, <1>11
<1> QED
  BY <1>11, <1>14, <1>15 DEF r

\* Whoever set them, the resources are natural numbers.
LEMMA ResourcesAre ==
  ASSUME NEW c \in Components, NEW m, Typed(m), NEW r, r = Template(c, m).resources
  PROVE  Granted(r, "cpuLimit", "cpuRequest") \in Nat /\ Granted(r, "memLimit", "memRequest") \in Nat
<1> DEFINE a == Resources(Operators(c, m), m)
           b == m.podTemplate.resources
<1>1. IsResources(a)
  BY PartsOf, FieldsHaveTypes DEF Resources
<1>2. IsResources(b)
  BY FieldsHaveTypes DEF IsPodTemplate
<1>3. r = mergeMaps(a, b)
  BY DEF Template
<1> HIDE DEF a, b
<1>4. \A f \in DOMAIN r : r[f] \in Nat
  BY <1>1, <1>2, <1>3 DEF IsResources, mergeMaps
<1> QED
  BY <1>4 DEF Granted, Has

\* GOMAXPROCS and GOMEMLIMIT fit the final resources of every component, whatever the
\* user sets of them (applyGoRuntimeEnvVars).
THEOREM AlwaysGoLimits == Spec => []GoLimits
<1>1. Admitted /\ UpToDate /\ Typed(manifest) => GoLimits
  <2> SUFFICES ASSUME Admitted, UpToDate, Typed(manifest), Built PROVE GoLimits
    BY DEF GoLimits
  <2> DEFINE cpu == Granted(pod.resources, "cpuLimit", "cpuRequest")
             mem == Granted(pod.resources, "memLimit", "memRequest")
             procs == Effective(pod.env, "GOMAXPROCS")
             limit == Effective(pod.env, "GOMEMLIMIT")
  <2>1. HasTemplate(w, manifest) /\ Valid(manifest, w) /\ pod = Template(w, manifest)
    BY DEF Admitted, UpToDate, HasTemplate, Built
  <2>2. /\ procs = IF cpu > 0 THEN Threads(pod.resources) ELSE Entry("GOMAXPROCS", "nowhere", <<>>, 0)
        /\ limit = IF mem > 0 THEN Memory(pod.resources) ELSE Entry("GOMEMLIMIT", "nowhere", <<>>, 0)
    BY <2>1, EnvIs
  <2>3. cpu \in Nat /\ mem \in Nat
    BY <2>1, ResourcesAre DEF HasTemplate
  <2>4. Threads(pod.resources).value = WholeCPUs(cpu) /\ Memory(pod.resources).value = WithHeadroom(mem)
    BY DEF Threads, Memory, Number, Entry
  <2>5. /\ Entry("GOMAXPROCS", "nowhere", <<>>, 0).from = "nowhere"
        /\ Entry("GOMEMLIMIT", "nowhere", <<>>, 0).from = "nowhere"
    BY DEF Entry
  <2> HIDE DEF cpu, mem, procs, limit
  <2>6. IF cpu = 0 THEN procs.from = "nowhere" ELSE 1000 * procs.value >= cpu /\ 1000 * (procs.value - 1) < cpu
    <3>1. CASE cpu = 0
      BY <2>2, <2>5, <3>1
    <3>2. CASE cpu # 0
      <4>1. procs.value = WholeCPUs(cpu)
        BY <2>2, <2>3, <2>4, <3>2
      <4>2. 1000 * WholeCPUs(cpu) >= cpu /\ 1000 * (WholeCPUs(cpu) - 1) < cpu
        BY <2>3, <3>2, EnoughThreads
      <4> QED
        BY <3>2, <4>1, <4>2
    <3> QED
      BY <3>1, <3>2
  <2>7. IF mem = 0 THEN limit.from = "nowhere" ELSE limit.value \in 1..mem /\ 10 * limit.value >= 9 * mem
    <3>1. CASE mem = 0
      BY <2>2, <2>5, <3>1
    <3>2. CASE mem # 0
      <4>1. limit.value = WithHeadroom(mem)
        BY <2>2, <2>3, <2>4, <3>2
      <4>2. WithHeadroom(mem) \in 1..mem /\ 10 * WithHeadroom(mem) >= 9 * mem
        BY <2>3, <3>2, HeadroomWithinLimit
      <4> QED
        BY <3>2, <4>1, <4>2
    <3> QED
      BY <3>1, <3>2
  <2> QED
    BY <2>6, <2>7 DEF GoLimits, cpu, mem, procs, limit
<1> QED
  BY <1>1, AlwaysAdmitted, AlwaysUpToDate, AlwaysTyped, PTL

\* No pod refers to a generated object that the manifest has Reconcile not keep.
THEOREM RefsAlwaysProvided == Spec => []RefsProvided
<1>1. Admitted /\ UpToDate /\ Typed(manifest) => RefsProvided
  <2> SUFFICES ASSUME Admitted, UpToDate, Typed(manifest), Built PROVE RefsProvided
    BY DEF RefsProvided
  <2> DEFINE own == Operators(w, manifest).env
             V == ToSet(OwnVolumes(w, manifest))
  <2>1. HasTemplate(w, manifest) /\ Valid(manifest, w) /\ pod = Template(w, manifest)
    BY DEF Admitted, UpToDate, HasTemplate, Built
  <2>2. ASSUME NEW v \in ToSet(pod.volumes), v.object \notin {UserObject, "claim"}
        PROVE  Wants(v.object, Switched(manifest))
    <3>1. v \in BackedVolumes(manifest) \/ v \in UserVolumes
      BY <2>1, FinalVolumes
    <3> QED
      BY <2>2, <3>1 DEF BackedVolumes, UserVolumes
  <2>3. \A e \in ToSet(pod.env) : e \in ToSet(own) \/ e.from = "user" \/ e.from = "value"
    BY <2>1, EnvIs
  <2>4. \A e \in ToSet(own) : IsProper(e, manifest, V)
    BY <2>1, ProperOwn DEF HasTemplate, AllProper
  <2>5. ASSUME NEW e \in ToSet(pod.env), e.from = "secret", e.at[1] # UserObject
        PROVE  Wants(e.at[1], Switched(manifest))
    BY <2>3, <2>4, <2>5 DEF IsProper
  <2> QED
    BY <2>2, <2>5 DEF RefsProvided
<1> QED
  BY <1>1, AlwaysAdmitted, AlwaysUpToDate, AlwaysTyped, PTL

-----------------------------------------------------------------------------
(* Files                                                                   *)

\* A volume and a mount of it.
LEMMA FileThere ==
  ASSUME NEW t, NEW n, NEW dir, NEW file, NEW v \in ToSet(t.volumes), v.name = n, file \in v.files
  PROVE  /\ Mount(n, dir, "") \in ToSet(t.mounts) => HasFile(t, dir, file)
         /\ Mount(n, dir, file) \in ToSet(t.mounts) => HasSingle(t, dir, file)
<1>1. ASSUME NEW sub
      PROVE  Mount(n, dir, sub).volume = n /\ Mount(n, dir, sub).path = dir /\ Mount(n, dir, sub).sub = sub
  BY DEF Mount
<1>2. (\E x \in ToSet(t.mounts) : x.volume = n /\ x.path = dir /\ x.sub = file) => HasSingle(t, dir, file)
  BY Zenon DEF HasSingle
<1>3. (\E x \in ToSet(t.mounts) : x.volume = n /\ x.path = dir /\ x.sub = "") => HasFile(t, dir, file)
  BY Zenon DEF HasFile
<1>4. Mount(n, dir, "") \in ToSet(t.mounts) => HasFile(t, dir, file)
  BY <1>1, <1>3, Zenon
<1>5. Mount(n, dir, file) \in ToSet(t.mounts) => HasSingle(t, dir, file)
  BY <1>1, <1>2, Zenon
<1> QED
  BY <1>4, <1>5, Zenon

\* While podTemplate leaves them alone, the volumes and mounts of the operator's are
\* all there in the end.
LEMMA OwnStay ==
  ASSUME NEW c, NEW m, HasTemplate(c, m), Typed(m), Valid(m, c), LeavesVolumes(c, m), NEW t, t = Template(c, m)
  PROVE  /\ ToSet(OwnVolumes(c, m)) \subseteq ToSet(t.volumes)
         /\ ToSet(Operators(c, m).mounts) \subseteq ToSet(t.mounts)
<1>1. m.podTemplate.mounts = <<>>
      /\ \A v \in ToSet(m.podTemplate.volumes) : Named(OwnVolumes(c, m), v.name) = {}
  BY PartsOf DEF LeavesVolumes, HasTemplate
<1>2. ASSUME NEW v \in ToSet(OwnVolumes(c, m)) PROVE v \in ToSet(t.volumes)
  <2>1. Named(OwnVolumes(c, m), v.name) # {}
    BY DEF Named, ToSet
  <2>2. Named(m.podTemplate.volumes, v.name) = {}
    <3> SUFFICES ASSUME NEW i \in DOMAIN m.podTemplate.volumes, m.podTemplate.volumes[i].name = v.name
                 PROVE  FALSE
      BY DEF Named
    <3>1. m.podTemplate.volumes[i] \in ToSet(m.podTemplate.volumes)
      BY DEF ToSet
    <3> QED
      BY <1>1, <2>1, <3>1
  <2> QED
    BY <2>2, FinalVolumes
<1>3. ToSet(Operators(c, m).mounts) \subseteq ToSet(t.mounts)
  BY <1>1, FinalMounts
<1> QED
  BY <1>2, <1>3

\* A volume of a container of Bindplane's is mounted at its own directory.
LEMMA OwnInPlace ==
  ASSUME NEW c \in Components \ {"tsdb"}, NEW m, Typed(m), NEW v \in ToSet(OwnVolumes(c, m))
  PROVE  Mount(v.name, TLSDir(v.name), "") \in ToSet(Operators(c, m).mounts)
<1> DEFINE vs == OwnVolumes(c, m)
<1>1. Operators(c, m).mounts = InPlace(vs)
  BY PartsOf
<1> HIDE DEF vs
<1>2. PICK i \in DOMAIN vs : vs[i] = v
  BY DEF ToSet, vs
<1>3. i \in DOMAIN InPlace(vs) /\ InPlace(vs)[i] = Mounted(v.name)
  BY <1>2 DEF InPlace
<1>4. Mounted(v.name) \in ToSet(InPlace(vs))
  BY <1>3 DEF ToSet
<1> QED
  BY <1>1, <1>4, Zenon DEF Mounted

\* The files the TSDB's command line and configuration name.
LEMMA TSDBFilesThere ==
  ASSUME NEW m, Typed(m), SecretsNamed(m), NEW t,
         TSDBVolumeSet(m) \subseteq ToSet(t.volumes), TSDBMountSet(m) \subseteq ToSet(t.mounts)
  PROVE  /\ HasSingle(t, WebConfigPath, "web.yml") /\ HasSingle(t, ProbeConfigPath, "probe-http.yml")
         /\ \A f \in TSDBFiles(m) : HasFile(t, f[1], f[2])
<1> DEFINE server == ServerTLS(Switched(m))
           webConfig == Volume("tsdb-web-config", "webConfig", {"web.yml", "probe-http.yml"})
           auth == Volume("tsdb-probe-auth", "basicAuth", {"username", "password"})
           web == Volume("tsdb-web-server-tls", "serverCert", Certificate)
           probe == Volume("tsdb-probe-client-tls", "probeCert", Certificate)
           tls == Volume("tsdb-tls", UserObject, IF m.serverTLS.ca THEN Certificate ELSE {"CERT", "KEY"})
<1>1. /\ webConfig \in ToSet(t.volumes) /\ auth \in ToSet(t.volumes)
      /\ server = "certManager" => web \in ToSet(t.volumes) /\ probe \in ToSet(t.volumes)
      /\ server = "secret" => tls \in ToSet(t.volumes)
  BY Zenon DEF TSDBVolumeSet
<1>2. /\ Mount("tsdb-web-config", WebConfigPath, "web.yml") \in ToSet(t.mounts)
      /\ Mount("tsdb-web-config", ProbeConfigPath, "probe-http.yml") \in ToSet(t.mounts)
      /\ Mount("tsdb-probe-auth", "/etc/tsdb-probe-auth", "") \in ToSet(t.mounts)
      /\ server = "certManager" => Mount("tsdb-web-server-tls", "/etc/tsdb-web-tls", "") \in ToSet(t.mounts)
      /\ server = "certManager" => Mount("tsdb-probe-client-tls", "/etc/tsdb-probe-client", "") \in ToSet(t.mounts)
      /\ server = "secret" => Mount("tsdb-tls", "/etc/tsdb-tls", "") \in ToSet(t.mounts)
  BY Zenon DEF TSDBMountSet
<1>3. /\ webConfig.name = "tsdb-web-config" /\ webConfig.files = {"web.yml", "probe-http.yml"}
      /\ auth.name = "tsdb-probe-auth" /\ auth.files = {"username", "password"}
      /\ web.name = "tsdb-web-server-tls" /\ web.files = Certificate
      /\ probe.name = "tsdb-probe-client-tls" /\ probe.files = Certificate
      /\ tls.name = "tsdb-tls" /\ tls.files = IF m.serverTLS.ca THEN Certificate ELSE {"CERT", "KEY"}
  BY DEF Volume
<1> HIDE DEF server, webConfig, auth, web, probe, tls
<1>4. HasSingle(t, WebConfigPath, "web.yml") /\ HasSingle(t, ProbeConfigPath, "probe-http.yml")
  BY <1>1, <1>2, <1>3, FileThere, Zenon
<1>5. ASSUME NEW k \in {"username", "password"} PROVE HasFile(t, "/etc/tsdb-probe-auth", k)
  BY <1>1, <1>2, <1>3, FileThere, Zenon
<1>6. ASSUME server = "certManager", NEW k \in Certificate
      PROVE  HasFile(t, "/etc/tsdb-web-tls", k) /\ HasFile(t, "/etc/tsdb-probe-client", k)
  BY <1>1, <1>2, <1>3, <1>6, FileThere, Zenon
<1>7. ASSUME server = "secret", NEW k \in tls.files PROVE HasFile(t, "/etc/tsdb-tls", k)
  BY <1>1, <1>2, <1>3, <1>7, FileThere, Zenon
<1>8. server # "certManager" /\ m.serverTLS.ca => server = "secret"
  BY DEF SecretsNamed, server, ServerTLS, Switched, AllSwitches
<1>9. {"CERT", "KEY"} \subseteq Certificate
  BY DEF Certificate
<1>10. ASSUME NEW f \in TSDBFiles(m)
       PROVE  \/ f[1] = "/etc/tsdb-probe-auth" /\ f[2] \in {"username", "password"}
              \/ server = "certManager" /\ f[1] \in {"/etc/tsdb-web-tls", "/etc/tsdb-probe-client"} /\ f[2] \in Certificate
              \/ server = "secret" /\ f[1] = "/etc/tsdb-tls" /\ f[2] \in tls.files
  BY <1>3, <1>8, <1>9 DEF TSDBFiles, server
<1>11. ASSUME NEW f \in TSDBFiles(m) PROVE HasFile(t, f[1], f[2])
  BY <1>5, <1>6, <1>7, <1>10, Zenon
<1> QED
  BY <1>4, <1>11

\* Every file a pod is told of is there, for every admitted manifest with its Secrets
\* named whose podTemplate leaves the operator's volumes and mounts alone.
THEOREM FilesAlwaysMounted == Spec => []FilesMounted
<1>1. Admitted /\ UpToDate /\ Typed(manifest) => FilesMounted
  <2> SUFFICES ASSUME Admitted, UpToDate, Typed(manifest), Built, LeavesVolumes(w, manifest),
                      SecretsNamed(manifest)
               PROVE  FilesMounted
    BY Zenon DEF FilesMounted
  <2> DEFINE own == Operators(w, manifest).env
             V == ToSet(OwnVolumes(w, manifest))
  <2>1. HasTemplate(w, manifest) /\ Valid(manifest, w) /\ pod = Template(w, manifest) /\ w \in Components
    BY DEF Admitted, UpToDate, HasTemplate, Built
  <2>2. V \subseteq ToSet(pod.volumes) /\ ToSet(Operators(w, manifest).mounts) \subseteq ToSet(pod.mounts)
    BY <2>1, OwnStay
  <2>3. ASSUME NEW e \in ToSet(pod.env), e.from = "file" PROVE HasFile(pod, e.at[1], e.at[2])
    <3>1. e \in ToSet(own)
      <4>1. e \in ToSet(own) \/ e.from = "user" \/ e.from = "value"
        BY <2>1, EnvIs
      <4> QED
        BY <2>3, <4>1
    <3>2. IsProper(e, manifest, V) /\ (w = "tsdb" => IsProper(e, manifest, {}))
      BY <2>1, <3>1, ProperOwn DEF AllProper
    <3>3. InVolume(V, e.at[1], e.at[2]) /\ w # "tsdb"
      <4>1. ASSUME NEW W, IsProper(e, manifest, W) PROVE InVolume(W, e.at[1], e.at[2])
        BY <2>3, <4>1 DEF IsProper
      <4>2. ~InVolume({}, e.at[1], e.at[2])
        BY DEF InVolume
      <4> QED
        BY <3>2, <4>1, <4>2, Zenon
    <3>4. PICK v \in V : e.at[1] = TLSDir(v.name) /\ e.at[2] \in v.files
      BY <3>3 DEF InVolume
    <3>5. Mount(v.name, TLSDir(v.name), "") \in ToSet(Operators(w, manifest).mounts)
      BY <2>1, <3>3, OwnInPlace, Zenon
    <3> QED
      BY <2>2, <3>4, <3>5, FileThere, Zenon
  <2>4. w = "tsdb" => /\ HasSingle(pod, WebConfigPath, "web.yml")
                      /\ HasSingle(pod, ProbeConfigPath, "probe-http.yml")
                      /\ \A f \in TSDBFiles(manifest) : HasFile(pod, f[1], f[2])
    <3> SUFFICES ASSUME w = "tsdb"
                 PROVE  /\ HasSingle(pod, WebConfigPath, "web.yml")
                        /\ HasSingle(pod, ProbeConfigPath, "probe-http.yml")
                        /\ \A f \in TSDBFiles(manifest) : HasFile(pod, f[1], f[2])
      BY Zenon
    <3>1. V = TSDBVolumeSet(manifest) /\ ToSet(Operators(w, manifest).mounts) = TSDBMountSet(manifest)
      BY <2>1, PartsOf, TSDBParts DEF OwnVolumes
    <3> QED
      BY <2>2, <3>1, TSDBFilesThere, Zenon
  <2> QED
    BY <2>3, <2>4, Zenon DEF FilesMounted
<1> QED
  BY <1>1, AlwaysAdmitted, AlwaysUpToDate, AlwaysTyped, PTL
-----------------------------------------------------------------------------
(* What counts                                                             *)

\* Of a name the operator sets, its own last entry counts.
LEMMA OwnLast ==
  ASSUME NEW d, NEW x, HasTemplate(d, x), Typed(x), Valid(x, d),
         NEW n, Named(Operators(d, x).env, n) # {}
  PROVE  /\ Effective(Template(d, x).env, n) = Effective(Operators(d, x).env, n)
         /\ Effective(Operators(d, x).env, n) \in ToSet(Operators(d, x).env)
         /\ Effective(Operators(d, x).env, n).name = n
<1>1. PICK t : t = Template(d, x)
  OBVIOUS
<1>2. PICK own : own = Operators(d, x).env
  OBVIOUS
<1>3. Effective(t.env, n) = Effective(own, n) /\ Effective(own, n) \in ToSet(own) /\ Effective(own, n).name = n
  BY <1>1, <1>2, EnvIs, SMTT(30)
<1> QED
  BY <1>1, <1>2, <1>3

\* Of a name the operator sets, the entry that counts is a proper one of its own.
LEMMA OwnCounts ==
  ASSUME NEW c, NEW m, HasTemplate(c, m), Typed(m), Valid(m, c),
         NEW own, own = Operators(c, m).env, NEW n, Occurs(n, own),
         NEW x, x = Effective(Template(c, m).env, n)
  PROVE  x.name = n /\ IsProper(x, m, ToSet(OwnVolumes(c, m))) /\ x = Effective(own, n)
<1>1. AllProper(own, m, ToSet(OwnVolumes(c, m)))
  BY ProperOwn DEF HasTemplate
<1>2. PICK e \in ToSet(own) : e.name = n
  BY DEF Occurs
<1>3. PICK i \in DOMAIN own : own[i] = e
  BY <1>2 DEF ToSet
<1>4. Named(own, n) # {}
  BY <1>2, <1>3 DEF Named
<1>5. /\ Effective(Template(c, m).env, n) = Effective(Operators(c, m).env, n)
      /\ Effective(Operators(c, m).env, n) \in ToSet(Operators(c, m).env)
      /\ Effective(Operators(c, m).env, n).name = n
  BY <1>4, OwnLast
<1> QED
  BY <1>1, <1>5 DEF AllProper

\* The operator's entries win over extraEnv, and OpAMP's own number of connections
\* wins over the common one.
THEOREM OperatorAlwaysWins == Spec => []OperatorWins
<1>1. Admitted /\ UpToDate /\ Typed(manifest) => OperatorWins
  <2> SUFFICES ASSUME Admitted, UpToDate, Typed(manifest), Built PROVE OperatorWins
    BY DEF OperatorWins
  <2> DEFINE own == Operators(w, manifest).env
  <2>1. HasTemplate(w, manifest) /\ Valid(manifest, w) /\ pod = Template(w, manifest) /\ w \in Components
    BY DEF Admitted, UpToDate, HasTemplate, Built
  <2>2. ASSUME NEW e \in ToSet(own) PROVE Effective(pod.env, e.name).from # "user"
    <3>1. Occurs(e.name, own)
      BY <2>2 DEF Occurs
    <3>2. IsProper(Effective(pod.env, e.name), manifest, ToSet(OwnVolumes(w, manifest)))
      BY <2>1, <3>1, OwnCounts
    <3> QED
      BY <3>2 DEF IsProper
  <2>3. ASSUME w = "opamp", manifest.opampConnections > 0
        PROVE  Effective(pod.env, Connections).value = manifest.opampConnections
    <3>1. /\ Named(own, Connections) # {}
          /\ Effective(own, Connections) = Number(Connections, manifest.opampConnections)
      BY <2>1, <2>3, ProperOwn
    <3>2. Effective(pod.env, Connections) = Effective(own, Connections)
      BY <2>1, <3>1, EnvIs
    <3> QED
      BY <3>1, <3>2 DEF Number, Entry
  <2> QED
    BY <2>2, <2>3 DEF OperatorWins, Connections
<1> QED
  BY <1>1, AlwaysAdmitted, AlwaysUpToDate, AlwaysTyped, PTL

\* All that an admitted manifest needs of the environment is in every Bindplane
\* container, whatever the user adds.
THEOREM AlwaysComplete == Spec => []Complete
<1>1. Admitted /\ UpToDate /\ Typed(manifest) => Complete
  <2> SUFFICES ASSUME Admitted, UpToDate, Typed(manifest), w \in Bindplane, NEW n \in Needed(manifest)
               PROVE  Effective(pod.env, n).from \in {"value", "secret"}
    BY DEF Complete
  <2> DEFINE own == Operators(w, manifest).env
             x == Effective(pod.env, n)
  <2>1. HasTemplate(w, manifest) /\ Valid(manifest, w) /\ pod = Template(w, manifest) /\ w \in Components
    BY DEF Admitted, UpToDate, HasTemplate, Bindplane
  <2>2. CommonVolumes(manifest) \subseteq CommonVolumes(manifest)
    OBVIOUS
  <2>3. Occurs(n, CommonEnv(manifest))
    BY <2>1, <2>2, ProperCommon
  <2>4. Occurs(n, own)
    BY <2>1, <2>3, ProperOwn
  <2>5. x.name = n /\ IsProper(x, manifest, ToSet(OwnVolumes(w, manifest)))
    BY <2>1, <2>4, OwnCounts
  <2>6. Needed(manifest) \cap FileNames = {}
    BY DEF Needed, FileNames
  <2> HIDE DEF x
  <2>7. x.from \in {"value", "secret", "file"} /\ (x.from = "file" => x.name \in FileNames)
    BY <2>5 DEF IsProper
  <2>8. n \notin FileNames
    BY <2>6
  <2>9. x.from \in {"value", "secret"}
    BY <2>5, <2>7, <2>8
  <2> QED
    BY <2>9 DEF x
<1> QED
  BY <1>1, AlwaysAdmitted, AlwaysUpToDate, AlwaysTyped, PTL

\* By default the event bus is healthy only where a majority of the hosts is, and can
\* be, in every Bindplane container and whatever the user adds (defaultRequiredHosts).
THEOREM MajorityAlwaysRequired == Spec => []MajorityRequired
<1>1. Admitted /\ UpToDate /\ Typed(manifest) => MajorityRequired
  <2> SUFFICES ASSUME Admitted, UpToDate, Typed(manifest), w \in Bindplane, manifest.eventBus = "default"
               PROVE  LET e == Effective(pod.env, HostsName) IN
                      2 * e.value > Hosts(manifest) /\ e.value <= Hosts(manifest)
    BY Zenon DEF MajorityRequired, HostsName
  <2> DEFINE own == Operators(w, manifest).env
             x == Effective(pod.env, HostsName)
  <2>1. HasTemplate(w, manifest) /\ Valid(manifest, w) /\ pod = Template(w, manifest) /\ w \in Components
    BY DEF Admitted, UpToDate, HasTemplate, Bindplane
  <2>2. CommonVolumes(manifest) \subseteq CommonVolumes(manifest)
    OBVIOUS
  <2>3. Occurs(HostsName, CommonEnv(manifest))
    BY <2>2, ProperCommon
  <2>4. Occurs(HostsName, own)
    BY <2>1, <2>3, ProperOwn
  <2>5. x.name = HostsName /\ IsProper(x, manifest, ToSet(OwnVolumes(w, manifest)))
    BY <2>1, <2>4, OwnCounts
  <2> HIDE DEF x
  <2>6. x.value = DefaultRequiredHosts(manifest)
    BY <2>5 DEF IsProper
  <2>7. manifest.replicas \in Nat /\ manifest.natsReplicas \in Nat
    <3>1. manifest.replicas \in Int /\ manifest.natsReplicas \in Int
      BY FieldsHaveTypes
    <3>2. manifest.replicas >= 1 /\ manifest.natsReplicas >= 1
      BY <2>1, ValidParts DEF ValidReplicas
    <3> QED
      BY <3>1, <3>2
  <2>8. /\ 2 * DefaultRequiredHosts(manifest) > Hosts(manifest)
        /\ DefaultRequiredHosts(manifest) <= Hosts(manifest)
    BY <2>7, DefaultIsMajority
  <2>9. 2 * x.value > Hosts(manifest) /\ x.value <= Hosts(manifest)
    BY <2>6, <2>8, Zenon
  <2> QED
    BY <2>9 DEF x
<1> QED
  BY <1>1, AlwaysAdmitted, AlwaysUpToDate, AlwaysTyped, PTL
=============================================================================
