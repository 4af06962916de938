SPECIFICATION Spec
CONSTANTS
  Nodes <- OneNode
  Pods = {1, 2}
  NodeOf <- AllOnOneNode
  Containers = {"c1", "c2"}
  Grace = 2
  Resync = 1
  None = None
  MaxTime = 7
  LastChange = 4
  MaxChanges = 3
  MaxFaults = 1
  MaxRestarts = 1
INVARIANTS TypeOK RestHonest
PROPERTIES NeverTooEarly
CHECK_DEADLOCK FALSE
