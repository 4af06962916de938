\* A conflict on ncp-install after the ClusterOperator is updated.
SPECIFICATION FairSpec
CONSTANTS
  Reasons = {"r1"}
  ConfigReasons <- MCAnyReason
  NoReason = "none"
  MaxAttempts = 4
  MaxCalls = 1
  MaxFaults = 0
PROPERTIES EventuallyCopied
