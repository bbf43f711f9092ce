SPECIFICATION Spec
CONSTANTS
  Tracked = {"node", "rollout", "opamp"}
  Versions = {"v1"}
  NodeReplicas = {1, 2}
  HPAReplicas = {1, 2}
  Switches = {"rollout", "autoscaling", "opamp"}
  FirstVersion = "v1"
  FirstReplicas = 1
  FirstOn = {{}, {"rollout"}}
  MaxEdits = 1
  MaxFaults = 0
INVARIANTS
  ReadyShown
CHECK_DEADLOCK FALSE
