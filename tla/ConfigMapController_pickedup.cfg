\* Two changes, one failed call: changes that are never picked up.
SPECIFICATION Spec
CONSTANTS
  UserConfigs <- MCFewConfigs
  FirstConfigs <- MCFirstConfigs
  NoSecret = "nosecret"
  Secrets = {"nosecret", "s1"}
  Templates = {t1}
  Networks = {"b"}
  Numbers = {"1500", "9000"}
  None = None
  MaxEdits = 2
  MaxErrors = 1
  MaxCrashes = 0
  MaxEvents = 3
INVARIANTS ChangesPickedUp
CHECK_DEADLOCK FALSE
