SPECIFICATION FairSpec
CONSTANTS
  p1 = p1
  p2 = p2
  p3 = p3
  hostA = hostA
  hostB = hostB
  Procs = {p1, p2}
  HostOf <- OneHost
  LocalIdentity = {p1}
  Priority <- PairPriorities
  Generations = {1, 2}
  Expectations = {NoExpectation, 1}
  NoExpectation = NoExpectation
  NoProc = NoProc
  NoLease = NoLease
  Duration = 1
  MaxTime = 2
  MaxTenures = 2
INVARIANTS TypeOK MutualExclusion LeaseValid
PROPERTIES ReplacedOnlyWhenAbandoned PreemptionIsKept KeepsService DeadLeaseIsRecovered
CHECK_DEADLOCK FALSE
