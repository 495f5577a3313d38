SPECIFICATION BundleSpec
CONSTANTS
  NumSources = 3
  Reserves <- TwoReserves
  Catalogs <- CatalogsWithIntegration
  Connectors <- SomeConnectors
  Integrated <- OnlyIntegration
  Calls = {c1, c2}
  Outsider = Outsider
  NumFiles = 1
  MaxMishaps = 2
  MaxDomains = 2
  MaxWall = 2
INVARIANTS BundleTypeOK ReportReconciles SourcesFailOver PlanKeepsReserves AnswersAreTrue
PROPERTIES PublishedIsFinal
CHECK_DEADLOCK FALSE
