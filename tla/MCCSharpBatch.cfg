CONSTANTS
  c1 = c1
  c2 = c2
  w1 = w1
  w2 = w2
  Null = Null
  Calls = {c1, c2}
  Workers = {w1, w2}
  MaxTier = 4
  IntBits = 8
  Images <- AllImages
  Encode <- AllEncode
  Batches <- MCBatches
SPECIFICATION LiveSpec
INVARIANTS
  NoSignalAfterDispose
PROPERTIES
  Refines
  CallsEnd
