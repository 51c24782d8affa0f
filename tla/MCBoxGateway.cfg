CONSTANTS
  Boxes = {b1}
  Experiments = {e1}
  NoBox = NoBox
  NoExp = NoExp
  Capacity = 1
  StaleAfter = 1
  OfflineLimit = 1
  MaxCalls = 2
  MaxPending = 1
SPECIFICATION FairSpec
INVARIANTS
  ExperimentFollowsTask
  WorkIsNotForgotten
  ReportsAreAccepted
PROPERTIES
  TimeoutMeansSilence
  ProgressIsMonotone
  AbandonedWorkEnds
