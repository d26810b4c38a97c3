SPECIFICATION FairSpec
CONSTANTS
  Worlds = {"question", "exact", "recovery", "request", "lineage", "exports", "live"}
  MaxCommands = 2
  MaxChanges = 1
CHECK_DEADLOCK FALSE
INVARIANTS RefusedHasNoEffect ActsOnWhatWasSeen ReportedEffectIsReal DraftKept
PROPERTIES SentIsReported
