SPECIFICATION ScreenSpec
CONSTANTS
  None = None
  MaxTabs = 2
  MaxSeq = 3
  MaxEdits = 2
  Cell = {a, b}
  Ping = p
  Run = {r1, r2, r3}
  MaxStops = 2
  Tab = {nb1, ai}
  HomeTab = nb1
  AiTab = ai
  Ask = {k1, k2}
  MaxCells = 4
  MaxMenus = 2
  MaxEntries = 4
  MaxImageBytes = 3
  MaxControls = 3
  MaxRev = 8
  MaxAsks = 5
  MaxAdopted = 3
  Session = {s1, s2}
  Call = {c1, c2}
  Dir = {d1, d2}
  Name = {f}
  MaxFetches = 2
  MaxJobs = 1
INVARIANTS
  DraftsAreSaved
  
  
  ViewIsCurrent
  ThreadInOrder
  DestroyedAsApproved
  
PROPERTIES
  AnswersLandByTheirCell
  KeepsDocuments
CHECK_DEADLOCK FALSE
