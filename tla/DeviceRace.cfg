SPECIFICATION Spec
CONSTANTS
  Runs = {r1, r2}
  Devices = {1, 2}
  Wishes <- MCWishes
  Container <- MCContainer
  MaxCommands = 3
  NoRun = NoRun
  CutFile = CutFile
  Pids = {1, 2, 3}
  Npus = {1, 2}
  Wanted = {1, 2}
  Others <- MCOthers
  Retries = 2
  Grace = 2
  MaxStarts = 2
  Requests = 2
  Selections <- MCSelections
  MaxAttempts = 2
  MaxSamples = 2
  Bounds = 2
  Percents = {50, 90, 99}
  MaxObserved = 3
  MaxScrapes = 3
  Shells = {s1, s2}
  MaxCreated = 2
  MaxTyped = 4
INVARIANT AllOrNothing
SYMMETRY MCSymmetry
CHECK_DEADLOCK FALSE
