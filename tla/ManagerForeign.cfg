SPECIFICATION Spec
CONSTANTS
  Worlds = {"request"}
  MaxCommands = 2
  MaxChanges = 1
CHECK_DEADLOCK FALSE
INVARIANTS NoForeignCommand
