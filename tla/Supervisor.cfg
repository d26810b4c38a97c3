SPECIFICATION FairSpec
CONSTANT Setups <- AllSetups
CHECK_DEADLOCK FALSE
INVARIANTS OneStory CancelledIsConfirmed
PROPERTIES CancelOrFailureEnds ObserverSettles
