CONSTANTS
  Null = Null
  NoProbe = NoProbe
  Seeds <- MCSeeds
  BootstrapSeed = 42
  Draws <- MCDraws
  Resamples = 7
  PResamples = 9
  Cut = 4
  Drop = 1
  Rise = 1
  RiseParts = 4
  Allowance = 1
  Configs <- MCConfigs
  Scored <- MCScored
  Variants = 3
  ImageCount = 3
  Basis <- MCBasis
  BasisUnit = 100
SPECIFICATION MCSpec
INVARIANTS
  ReadersAgree
  NeverBetterDominated
  LabelsHold
  CodesAreReal
  TestsAgree
  GatesHold
  NothingInvented
  OneInstrument
