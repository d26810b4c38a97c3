SPECIFICATION Spec
CONSTANTS
  Sessions = {"pi1", "pi2"}
  Callers <- TheCallers
  Existing = 2
  Slots = 3
  MaxRuns = 1
  MaxRestores = 2
  MaxCommands = 1
  MaxMoves = 2
CHECK_DEADLOCK FALSE
PROPERTIES RetentionKeeps
