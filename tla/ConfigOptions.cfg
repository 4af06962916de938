\* Every configuration within three edits of a typical one, on both platforms.
SPECIFICATION Spec
CONSTANTS
  MaxEdits = 3
INVARIANTS ChangesFound RestartFindsNoChange DefaultsYieldToUser
CHECK_DEADLOCK FALSE
