CHECK_DEADLOCK FALSE
SPECIFICATION FairSpec
CONSTANTS
  v4 = v4
  v6 = v6
  IPs <- Both
  IPv6 <- OnlyV6
  ServicePorts <- Entries
  None = None
  MaxChanges = 2
  MaxFaults = 1
INVARIANTS
  TypeOK
  RestInStep
PROPERTY
  EventuallyInStep
