SPECIFICATION SessionFairSpec
CONSTANTS
  Runs = {"r1", "r2"}
  MaxPrompts = 2
  MaxUserTurns = 1
CHECK_DEADLOCK FALSE
INVARIANTS NoTurnForNobody
PROPERTIES PromptSettles SessionReturns
