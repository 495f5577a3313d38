SPECIFICATION Spec
CHECK_DEADLOCK FALSE
CONSTANTS
  Ledgers = {l1}
  Claims = {c1}
  Nothing = Nothing
  MaxTime = 1
  MaxWrites = 3
SYMMETRY ClaimSymmetry
INVARIANTS TypeOK LogVerifies WithdrawnIsFinal AcceptedSealIsTrue
PROPERTIES AcknowledgedStays
