SPECIFICATION Spec
CONSTANTS
  Items = {1, 2, 3}
  MaxDate = 3
  MaxRounds = 2
  PageSize = 1
  MaxPages = 2
  Interval = 1
  Kinds <- MCKinds
  Limits = {0, 1}
  MaxParts = 2
  PartPages = 2
  Batches = 3
  MaxBatchFiles = 1
  PartsPerCycle = 2
  Recent = 1
  Levels = {0, 1, 2}
  Threshold <- MCThreshold
  Repeat = 2
  Timers = {1, 2}
  Runs = {x1, x2}
  PaTime = 2
  PaSteps = 3
  Callers = {p1}
  Rows = {1, 2}
  Sources = {"s1", "s2", "w1"}
  TypeOf <- MCTypeOf
  HotLimit = 1
  ResultLimit = 2
  MaxFailed = 1
INVARIANTS
  WatermarkCovers
  BatchesAreListed
  
  
SYMMETRY MCSymmetry
CHECK_DEADLOCK FALSE
