CONSTANTS
  Height = 2
  Width = 2
  Freqs <- MCFreqs
  Basis <- MCBasis
  Sel <- MCSel
  Live <- MCLive
  MaxIdx = 6
  Deq <- MCDeq
  ScaleMax = 3
  ScaleStep = 1
  ScaleGrid <- MCLinear
  DcMax = 3
  DcStep = 2
  RefineDelta = 2
  RefinePasses = 3
  Inputs <- MCInputs
SPECIFICATION Spec
INVARIANTS
  ScoredIsDecoded
  EndsAtOptimum
