SPECIFICATION ReportSpec
CONSTANTS
  N = 4
  Limit = 3
  Permits = 1
  MaxRuns = 2
  Faulty = {2, 3}
  hole = hole
  Value <- MCValue
  Hole <- hole
  Languages = {"Rust", "C"}
  Reference = "Rust"
  BuildSteps <- MCBuildSteps
  Produces <- MCProduces
  Hashes = {"x", "y"}
  NoHash = "empty"
  Releases <- MCReleases
  Options <- MCOptions
  Outcomes <- MCOutcomes
  Lost <- MCLost
  Gone <- MCGone
  Broken <- MCBroken
INVARIANTS
  PermitsConserved
  VerdictObserved
  ReportWhole
PROPERTIES
  NoOvertaking
  ReportEnds
  Refines
