SPECIFICATION Spec
CONSTANTS
  r1 = r1
  r2 = r2
  Faults = {1, 2}
  ClassOf <- TransientAndSecret
  Runs = {r1, r2}
  NoIncident = NoIncident
  Window = 1
  Grace = 1
  Suppression = 2
  MaxTime = 2
  MaxGranted = 4
SYMMETRY RunSymmetry
INVARIANTS TypeOK IncidentsAreTrue
PROPERTIES NothingIsForgotten ThirdFailureIsFinal
