CHECK_DEADLOCK FALSE
SPECIFICATION MCSpec
CONSTANTS
  n1 = n1
  n2 = n2
  p1 = p1
  p2 = p2
  a1 = a1
  a2 = a2
  Nodes = {n1, n2}
  Ports = {p1, p2}
  Addresses = {a1, a2}
  AddressSets <- Sets
  None = None
  MaxChanges = 1
  MaxFaults = 1
INVARIANT ClearedWhenOff
