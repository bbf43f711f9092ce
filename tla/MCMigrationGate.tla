--------------------------- MODULE MCMigrationGate ---------------------------
(* Instances of MigrationGate for TLC.  Two images are enough to tell the
   wanted one from a stale one, two workloads to have a first and a last. *)
EXTENDS MigrationGate

CONSTANTS v1, v2, jobs, node

TwoVersions == {v1, v2}
TwoWorkloads == {jobs, node}
JobsThenNode == <<jobs, node>>
=============================================================================
