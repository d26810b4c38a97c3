SPECIFICATION FairSpec
CONSTANTS
  run = run
  command = command
  Endpoints = {"a", "b"}
  Keys = {run, command}
  Members = {run}
  Overview = Overview
  None = None
  Setups <- SafetySetups
CHECK_DEADLOCK FALSE
INVARIANTS NoLostInvalidation BindingsAreSeparate 
PROPERTIES EventuallyFresh
