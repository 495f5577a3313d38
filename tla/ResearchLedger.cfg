SPECIFICATION FairSpec
CHECK_DEADLOCK FALSE
CONSTANTS
  Procs = {p1, p2}
  Decisions = {d1, d2}
  Outcomes = {o1}
  NoProc = NoProc
  MaxTime = 1
  MaxCalls = 5
  MaxMishaps = 1
INVARIANTS TypeOK SealIsTrue
PROPERTIES CallsReturn
