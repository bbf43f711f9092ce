SPECIFICATION Spec
CONSTANTS
  v1 = v1
  v2 = v2
  jobs = jobs
  node = node
  None = None
  Versions <- TwoVersions
  Workloads <- TwoWorkloads
  Order <- JobsThenNode
  FirstVersion = v1
  MaxEdits = 2
  MaxFaults = 0
  MaxFailures = 0
  MaxEvents = 2
INVARIANT RunsOnItsSchema
CHECK_DEADLOCK FALSE
