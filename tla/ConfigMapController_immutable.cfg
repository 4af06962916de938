\* One change, one failed read, one restart: a change of coe.cluster is applied.
SPECIFICATION Spec
CONSTANTS
  UserConfigs <- MCFewConfigs
  FirstConfigs <- MCFirstConfigs
  NoSecret = "nosecret"
  Secrets = {"nosecret", "s1"}
  Templates = {t1}
  Networks = {"b"}
  Numbers = {"1500", "9000"}
  None = None
  MaxEdits = 1
  MaxErrors = 1
  MaxCrashes = 1
  MaxEvents = 3
PROPERTIES ImmutableAlwaysKept
CHECK_DEADLOCK FALSE
