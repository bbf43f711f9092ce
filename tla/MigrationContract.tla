-------------------------- MODULE MigrationContract --------------------------
(***************************************************************************)
(* What the operator promises about database migrations and rollouts       *)
(* (docs/configuration/configuration.md, "Migration contract"), with no    *)
(* word of Jobs, resourceVersions or requeues: an image is handed to the   *)
(* downstream workloads one after the other, in the order of Order, and    *)
(* only an image whose migration has succeeded, or for which the user has  *)
(* waived the check, is handed out at all.                                 *)
(*                                                                         *)
(* The operator works in rounds and learns of changes late.  It may pass   *)
(* over a workload whose latest change it has not noticed; noticing makes  *)
(* another round due, and that debt is only paid by beginning one.         *)
(***************************************************************************)
EXTENDS Naturals, Sequences

CONSTANTS
  Versions,   \* the images the migrate Job and the workloads may run
  None,       \* "not deployed"
  Workloads,  \* the downstream workloads behind the gate
  Order       \* the order in which one reconcile updates them

VARIABLES
  migrated,   \* images for which a migrate Job has succeeded
  waived,     \* images the user asked for while skip-migrate-check was set
  deployed,   \* the image each workload was last given
  unseen,     \* workloads with a change the operator has not noticed
  due         \* another round is owed

contractVars == <<migrated, waived, deployed, unseen, due>>

Init ==
  /\ migrated = {}
  /\ waived \in SUBSET Versions
  /\ deployed = [w \in Workloads |-> None]
  /\ unseen = {}
  /\ due = TRUE

Migrate(v) ==
  /\ migrated' = migrated \cup {v}
  /\ UNCHANGED <<waived, deployed, unseen, due>>

Waive(v) ==
  /\ waived' = waived \cup {v}
  /\ UNCHANGED <<migrated, deployed, unseen, due>>

\* Every workload before the i-th has image v, unless a change of it has not
\* been noticed, or has and another round is owed for it.
Reached(i, v) ==
  \A j \in 1..(i - 1) : deployed[Order[j]] = v \/ Order[j] \in unseen \/ due

\* The i-th workload is given an admitted image when its turn has come; the
\* operator knows its state, and does not learn at once that it changed it.
Deploy(i, v) ==
  /\ v \in migrated \cup waived
  /\ Order[i] \notin unseen
  /\ Reached(i, v)
  /\ deployed' = [deployed EXCEPT ![Order[i]] = v]
  /\ unseen' = IF deployed[Order[i]] = v THEN unseen ELSE unseen \cup {Order[i]}
  /\ due' \in {due, TRUE}
  /\ UNCHANGED <<migrated, waived>>

\* Something else about the workload changes.
Change(w) ==
  /\ deployed[w] # None
  /\ unseen' = unseen \cup {w}
  /\ UNCHANGED <<migrated, waived, deployed, due>>

\* The operator learns of the changes of the workloads of N, one in a watch
\* event, all of them when it lists them afresh, and owes a round.
Notice(N) ==
  /\ unseen' = unseen \ N
  /\ due' = TRUE
  /\ UNCHANGED <<migrated, waived, deployed>>

\* A round begins: the debt is paid.
Begin ==
  /\ due
  /\ due' = FALSE
  /\ UNCHANGED <<migrated, waived, deployed, unseen>>

Next ==
  \/ \E v \in Versions : Migrate(v) \/ Waive(v)
  \/ \E i \in DOMAIN Order, v \in Versions : Deploy(i, v)
  \/ \E w \in Workloads : Change(w)
  \/ \E N \in SUBSET Workloads : Notice(N)
  \/ Begin

Spec == Init /\ [][Next]_contractVars
=============================================================================
