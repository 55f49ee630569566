SPECIFICATION Spec
CONSTANTS
  Plans <- MCPlans
  Contents <- MCContents
  MainFields <- MCMainFields
  SubFields <- MCSubFields
  KeyNames <- MCKeyNames
  DefaultOrder <- MCDefaultOrder
  SemiCap = 3
  InChunk = 1
  MaxSize = 2
  Statements <- MCStatements
  Tables <- MCTables
  ProbeCap = 2
  BatchSize = 1
  SubCap = 3
  IdCap = 1
  SqlSize = 2
  Attempts = 3
  Replies = {a1, a2, a3}
  MaxRounds = 2
  Sources = {d1, d2}
  Rules = {r1}
  Calls = {c1, c2}
  KBs = {k1, k2}
  NoKB = NoKB
  NoCallOf = NoCallOf
INVARIANTS
  
  
  AnswerIsWhole
  RepliesCount
  ReportedIsFound
CHECK_DEADLOCK FALSE
