SPECIFICATION FairSpec
CONSTANTS
  r1 = r1
  r2 = r2
  Faults = {1}
  ClassOf <- OneTransient
  Runs = {r1}
  NoIncident = NoIncident
  Window = 1
  Grace = 1
  Suppression = 1
  MaxTime = 3
  MaxGranted = 3
PROPERTIES ExhaustedIsAlerted MissedEventIsRecovered
