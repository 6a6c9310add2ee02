CONSTANTS
  c1 = c1
  c2 = c2
  w1 = w1
  w2 = w2
  good = good
  other = other
  crash = crash
  bad = bad
  None = None
  Calls = {c1, c2}
  Workers = {w1, w2}
  Images <- MCImages
  Valid <- MCValid
  Faulty <- MCFaulty
  Batches <- MCBatches
  Encode <- MCEncode
SPECIFICATION LiveSpec
INVARIANTS
  InOrder
  RejectedUndispatched
  Tracked
PROPERTIES
  Refines
  DropEnds
