CONSTANTS
  Tunables <- SweptAndShipped
  Tiers = {0, 1, 2}
  Aspects <- MCAspects
  Merged <- MCMerged
  Bytes0 <- MCBytes0
  Lengths <- MCLengths
  BaseSize <- MCBaseSize
  SEL_Q = 3
  SEL_W = 4
  ANISO_Q12 = 10
  SEL_HV_Q12 = 1
SPECIFICATION Spec
INVARIANTS
  ExactBudget
  RoundTrip
  TsAgrees
