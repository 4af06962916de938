\* A change, a failed call, a restart: two in all, with fairness; the cache lags.
SPECIFICATION FairSpec
CONSTANTS
  UserConfigs <- MCFewConfigs
  FirstConfigs <- MCFirstConfigs
  NoSecret = "nosecret"
  Secrets = {"nosecret"}
  Templates = {t1}
  Networks = {"b"}
  Numbers = {"1500", "9000"}
  None = None
  MaxEdits = 1
  MaxErrors = 1
  MaxCrashes = 1
  MaxEvents = 2
PROPERTIES EventuallyDeployed
ACTION_CONSTRAINT MCLateNews
CHECK_DEADLOCK FALSE
