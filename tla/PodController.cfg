CHECK_DEADLOCK FALSE
SPECIFICATION MCSpec
CONSTANTS
  DaemonSets = {"nsx-node-agent"}
  Deployments = {"nsx-ncp"}
  NodeAgentDs = "nsx-node-agent"
  Pods = {"p"}
  None = None
  Resync = 1
  ProgressTimeout = 1
  DsStatuses <- MCDsStatuses
  DepStatuses <- MCDepStatuses
  Generations = {1, 2}
  MaxTime = 5
  MaxChanges = 2
  MaxFaults = 1
INVARIANTS
  TypeOK
  HungHonest
  HungInTime
  RestartedInTime
