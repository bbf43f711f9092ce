SPECIFICATION FairSpec
CONSTANTS
  v1 = v1
  v2 = v2
  jobs = jobs
  node = node
  None = None
  Versions <- TwoVersions
  Workloads <- TwoWorkloads
  Order <- JobsThenNode
  FirstVersion = v1
  MaxEdits = 2
  MaxFaults = 1
  MaxFailures = 1
  MaxEvents = 2
INVARIANTS
  TypeOK
  GateSafety
  RecordedConfirmed
  ReconciledTruthful
  DeleteHitsObserved
  NoLostWakeup
PROPERTIES
  ImplementsContract
  Settles
CHECK_DEADLOCK FALSE
