SPECIFICATION FairSpec
CONSTANTS
  p0 = p0  d0 = d0  d1 = d1
  Frontend = Frontend
  multi_turn = multi_turn  stress = stress
  Workers <- ThreeWorkers
  Scenarios <- TwoScenarios
INVARIANTS
  TypeOK
  NothingLeftRunning
  NoLiveOverlap
  EveryScenarioReported
  ReadyBeforeLoad
PROPERTIES
  SlotsReleased
