SPECIFICATION Spec
CONSTANTS
  r1 = r1
  r2 = r2
  s1 = s1
  s2 = s2
  o1 = o1
  o2 = o2
  Runs = {r1, r2}
  Shards = {s1}
  Outputs = {o1, o2}
  NoRun = NoRun
  NoShard = NoShard
  NoOutput = NoOutput
  MaxTime = 2
  MaxGeneration = 3
  MaxCrashes = 1
INVARIANTS TypeOK RowValid WorkIsFenced
PROPERTIES AttemptsAreCounted KeepsPromise CompletedIsImmutable FinishedIsFinal
SYMMETRY RunSymmetry
