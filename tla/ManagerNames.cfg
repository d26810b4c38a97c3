SPECIFICATION Spec
CONSTANTS
  run = run
  command = command
  Endpoints = {"a", "b"}
  Keys = {run, command}
  Members = {run}
  Overview = Overview
  None = None
  Setups <- NamesSetups
CHECK_DEADLOCK FALSE
INVARIANT NamesAreOfBinding
