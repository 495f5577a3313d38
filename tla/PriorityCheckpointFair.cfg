SPECIFICATION FairSpec
CONSTANTS
  r1 = r1
  r2 = r2
  s1 = s1
  s2 = s2
  o1 = o1
  o2 = o2
  Runs = {r1}
  Shards = {s1, s2}
  Outputs = {o1}
  NoRun = NoRun
  NoShard = NoShard
  NoOutput = NoOutput
  MaxTime = 1
  MaxGeneration = 3
  MaxCrashes = 1
PROPERTIES FinishedOrExhausted
