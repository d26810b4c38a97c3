SPECIFICATION FairSpec
CONSTANTS
  MaxEvents = 3
  BatchLimit = 2
  StreamFailureLimit = 2
  MaxPollFailures = 1
  MaxMoves = 2
CHECK_DEADLOCK FALSE
INVARIANTS TypeOK InOrderOnce
PROPERTIES ImplementsDelivery EventsKeepArriving
