SPECIFICATION FairSpec
CONSTANTS
  p1 = p1
  p2 = p2
  c0 = c0
  c4 = c4
  Procs = {p1, p2}
  NoProc = NoProc
  Contracts = {c0, c4}
  BlockedAt <- Blocking
  Absent = Absent
  Bare = Bare
  Torn = Torn
  MaxMishaps = 2
INVARIANTS TypeOK DirectoryIsAPrefix ReportStaysValid
PROPERTIES OnlyTheHolderWrites FinishedOrCut
CHECK_DEADLOCK FALSE
