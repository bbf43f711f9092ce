SPECIFICATION Spec
CONSTANTS
  v1 = v1
  v2 = v2
  jobs = jobs
  node = node
  None = None
  Versions <- TwoVersions
  Workloads <- TwoWorkloads
  Order <- JobsThenNode
  FirstVersion = v1
  MaxEdits = 1
  MaxFaults = 0
  MaxFailures = 0
  MaxEvents = 1
INVARIANT RecordsLiveJob
CHECK_DEADLOCK FALSE
