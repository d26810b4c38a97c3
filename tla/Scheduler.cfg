SPECIFICATION FairSpec
CONSTANTS
  m1 = m1
  m2 = m2
  pane = pane
  qa = qa
  qb = qb
  qc = qc
  Unpinned = Unpinned
  NoLane = NoLane
  Models = {m1, m2}
  Lanes = {pane}
  Questions = {qa, qb, qc}
  Plans <- MCPlans
  LaneOf <- MCLaneOf
  Inherited <- MCInherited
INVARIANTS
  TypeOK
  EffectsFollowSuccess
  OneTurnPerLane
  ReuseStaysInEpoch
  SingleFlight
  NoOrphanWorkers
PROPERTIES
  RunEnds
  ImplementsPlanOrder
