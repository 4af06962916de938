\* Every interleaving of two calls or rollout changes with a fault, under the resync,
\* the informers and the mutex holder being fair.
SPECIFICATION FairSpec
CONSTANTS
  Reasons = {"r1", "r2"}
  ConfigReasons <- MCConfigReasons
  NoReason = "none"
  MaxAttempts = 2
  MaxCalls = 2
  MaxFaults = 1
INVARIANTS TypeOK K8sNotAvailableWhileProgressing
PROPERTIES SummarySpec EventuallyPublished EventuallyAvailable
