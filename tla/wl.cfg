SPECIFICATION FairSpec
CONSTANTS
  Tracked = {"node", "rollout"}
  Versions = {"v1", "v2"}
  NodeReplicas = {1, 2}
  HPAReplicas = {1, 2}
  Switches = {"rollout", "autoscaling"}
  FirstVersion = "v1"
  FirstReplicas = 1
  FirstOn = {{}, {"rollout"}, {"autoscaling"}}
  MaxEdits = 2
  MaxFaults = 1
INVARIANTS
  TypeOK
  NoLostWakeup
PROPERTIES
  KeepsContract
  Settles
  BecomesReady
CHECK_DEADLOCK FALSE
