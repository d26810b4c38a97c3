SPECIFICATION Spec
CONSTANTS
  q1 = q1
  q2 = q2
  q3 = q3
  ask = ask
  None = None
  Questions = {q1, q2, q3, ask}
  Persons = {ask}
  Values = {0, 1}
  Programs <- AllPrograms
CHECK_DEADLOCK FALSE
INVARIANTS LineageStopsAtEffects PersonAnswersAreLocal CompletedRunCounts
