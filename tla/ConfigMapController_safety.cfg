\* Changes of any input, deletions, a failed call, a restart: two in all; the cache lags.
SPECIFICATION Spec
CONSTANTS
  UserConfigs <- MCUserConfigs
  FirstConfigs <- MCFirstConfigs
  NoSecret = nosecret
  Secrets = {nosecret, s1, s2}
  Templates = {t1, t2}
  Networks = {b1, b2}
  Numbers = {"1500", "9000"}
  None = None
  MaxEdits = 2
  MaxErrors = 1
  MaxCrashes = 1
  MaxEvents = 2
INVARIANTS TypeOK ConfigPickedUp SecretPickedUp NetworkMTUPublished NeverRestsSilently
PROPERTIES ImmutableKept
SYMMETRY MCSymmetry
ACTION_CONSTRAINT MCLateNews
CHECK_DEADLOCK FALSE
