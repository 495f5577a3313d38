SPECIFICATION Spec
CONSTANTS
  r1 = r1
  r2 = r2
  Faults = {1, 2}
  ClassOf <- TwoTransient
  Runs = {r1, r2}
  NoIncident = NoIncident
  Window = 2
  Grace = 1
  Suppression = 1
  MaxTime = 2
  MaxGranted = 4
PROPERTIES NoSecondDispatch
