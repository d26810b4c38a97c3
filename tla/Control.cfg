SPECIFICATION FairSpec
CONSTANTS
  o1 = o1
  o2 = o2
  m1 = m1
  m2 = m2
  m3 = m3
  None = None
  Targets = {m1, m2, m3}
  Setups <- AllSetups
CHECK_DEADLOCK FALSE
INVARIANTS SteeredNotReplayable AckBeforeAction OneDeliveryPerId RerouteTakesEffect
PROPERTIES SteeredBeforeEnd OccurrenceMovesOn
