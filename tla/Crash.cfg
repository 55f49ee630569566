SPECIFICATION Spec
CONSTANTS
  Queries = {q1, q2}
  MaxActive = 1
  Seeds <- MCSeeds
  Online <- MCOnline
  Modes = {"keyword", "llm", "hybrid"}
  Scores = {1, 3, 6}
  L1Score = 4
  L2Score = 3
  Baseline = 3
  TopScore = 7
  TopK = 2
  MaxOnline = 3
  MaxAnalyzed = 2
  Verifying = {TRUE, FALSE}
  Tools = {c1, c2}
  Signatures = {"s", "sx"}
  Like <- MCLike
  FirstTop = 2
  MergeTop = 2
  Grades = {1, 2, 3}
  KnownGrade = 2
  HighGrade = 3
  MaxIssues = 3
  MaxLines = 6
  RipWindow = 3
  TraceWindow = 4
  OomWindow = 1
  Back = 2
  CropMin = 2
  Functions = {"f", "g", "kfree"}
  Freeing = {"kfree"}
  Writing = {"g"}
  Times = {1, 2}
  MaxFrames = 3
  SectionNames = {"host", "cause"}
  MaxWrites = 5
  BlockLines = 3
  FirstLines = {0, 1, 2, 5}
  MaxKeys = 2
INVARIANTS
  
  KnownIsRecognised
  FeaturesAreSound
  ReportIsSound
CHECK_DEADLOCK FALSE
