SPECIFICATION BenchSpec
CONSTANTS
  Sweeps <- MCSweeps
  Released <- MCReleased
  Rows <- MCRows
  Edited <- MCEdited
  Builds <- MCBuilds
  MaxRecords = 2
  MaxSteps = 3
INVARIANTS
  GreenIsBacked
PROPERTIES
  FixPublishes
