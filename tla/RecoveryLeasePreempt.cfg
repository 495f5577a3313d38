SPECIFICATION Spec
CONSTANTS
  p1 = p1
  p2 = p2
  p3 = p3
  hostA = hostA
  hostB = hostB
  Procs = {p1, p3}
  HostOf <- TwoHosts
  LocalIdentity = {p1}
  Priority <- TwoPriorities
  Generations = {1}
  Expectations = {NoExpectation}
  NoExpectation = NoExpectation
  NoProc = NoProc
  NoLease = NoLease
  Duration = 1
  MaxTime = 2
  MaxTenures = 2

PROPERTIES PreemptionHitsTheLeaseRead
CHECK_DEADLOCK FALSE
