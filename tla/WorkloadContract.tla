--------------------------- MODULE WorkloadContract ---------------------------
(***************************************************************************)
(* What the documentation promises of the workloads the operator runs      *)
(* (docs/configuration/configuration.md, autoscaling.md): each follows the *)
(* spec the user writes, an autoscaler has full control of the replicas of *)
(* the one it scales, and switching a part over deletes the workload the   *)
(* spec no longer calls for.                                               *)
(*                                                                         *)
(* The operator sees the spec some time after it was written, and works    *)
(* for one it has seen: it may skip a spec, and never goes back to an      *)
(* older one.                                                              *)
(***************************************************************************)
CONSTANTS
  Specs,            \* what a user may ask for: a version, and more
  Workloads,        \* the workloads the operator may run
  Sizes,            \* the numbers of replicas they may have
  Wanted(_),        \* the workloads a spec calls for
  Autoscaled(_, _), \* whether a spec leaves a workload's replicas to an autoscaler
  Replicas(_, _)    \* how many replicas a spec calls for otherwise

VARIABLES
  latest,   \* the spec the user wrote last
  seen,     \* the one the operator saw last
  serving,  \* the one it is working for
  running   \* each workload, as it is

contractVars == <<latest, seen, serving, running>>

Gone == [there |-> FALSE]

Made(v, n) == [there |-> TRUE, version |-> v, replicas |-> n]

Init ==
  /\ latest \in Specs /\ seen = latest /\ serving = latest
  /\ running = [w \in Workloads |-> Gone]

Ask(s) ==
  /\ latest' = s
  /\ UNCHANGED <<seen, serving, running>>

\* With every step the operator may go on to a spec it has seen since.
Advance ==
  /\ seen' \in {seen, latest}
  /\ serving' \in {serving, seen'}
  /\ UNCHANGED latest

Replace(w, o) == running' = [running EXCEPT ![w] = o]

Create(w, n) ==
  /\ w \in Wanted(serving)
  /\ ~running[w].there
  /\ Autoscaled(w, serving) \/ n = Replicas(w, serving)
  /\ Replace(w, Made(serving.version, n))
  /\ Advance

\* The replicas of an autoscaled workload stay as they are.
Update(w) ==
  /\ w \in Wanted(serving)
  /\ running[w].there
  /\ Replace(w, Made(serving.version, IF Autoscaled(w, serving) THEN running[w].replicas
                                      ELSE Replicas(w, serving)))
  /\ Advance

Delete(w) ==
  /\ w \notin Wanted(serving)
  /\ Replace(w, Gone)
  /\ Advance

Move ==
  /\ Advance
  /\ UNCHANGED running

\* The autoscaler scales what the user has told it to.
Scale(w, n) ==
  /\ running[w].there /\ Autoscaled(w, latest)
  /\ Replace(w, Made(running[w].version, n))
  /\ UNCHANGED <<latest, seen, serving>>

Next ==
  \/ \E s \in Specs : Ask(s)
  \/ \E w \in Workloads :
       \/ Update(w) \/ Delete(w)
       \/ \E n \in Sizes : Create(w, n) \/ Scale(w, n)
  \/ Move

Spec == Init /\ [][Next]_contractVars
=============================================================================
