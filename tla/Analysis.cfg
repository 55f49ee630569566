SPECIFICATION Spec
CONSTANTS
  FileKinds = {"text", "vmcore", "image", "other"}
  MaxLines = 3
  Times = {1, 3}
  ChunkSize = 2
  Delta = 1
  Texts = {a, b}
  Models = {m, n}
  Workers = {w1, w2}
  Providers = {"openapi", "ascending"}
  MaxTexts = 3
  VectorBatch = 2
  Tries = 2
  LogCounts = {1, 2, 3, 4, 6}
  MaxRounds = 1
  AnomalyCount = 1
  Logs = {1, 2}
  Chunks = 2
  QueueSize = 1
  Kinds = {"keywords", "embedding", "llm"}
  Contents = {"x", "y"}
  Keywords = {"k", "l"}
  FilesOf <- MCFiles
  FileLogs = 3
  MaxScore = 2
  PickCount = 2
  CopyPercent = 50
  Analysts = {a1, a2}
  LogFiles = {"f"}
  P0Counts = {0, 1, 2}
  Cooldown = 2
  KeptEntries = 2
  LockWaits = 2
  PostTries = 2
  MaxNow = 3
  MaxRuns = 4
  MaxOverlapping = 2
  ScanKeys = {"x", "y"}
  ScanLines = 4
  Frequent = 3
  Results = 5
  BatchSize = 2
  Rank <- MCRank
  Limits = {0, 2, 3}
  MaxErrors = 3
INVARIANTS
  NothingLost
  VectorsAreOwn
  ClustersAreSound
  PickIsKept
  TextIsWhole
  ResultsAreKept
  StacksReported
  
SYMMETRY MCSymmetry
CHECK_DEADLOCK FALSE
