CONSTANTS
  p1 = p1
  p2 = p2
  t1 = t1
  t2 = t2
  t3 = t3
  x1 = x1
  NotComputed = NotComputed
  Torn = Torn
  NoPage = NoPage
  Procs = {p1, p2}
  Tasks = {t1, t2, t3}
  Pairs = {x1}
  LastBinary = 2
  Modes = {TRUE, FALSE}
  Owner <- MCOwner
  Metrics <- MCMetrics
  Always <- MCAlways
  Requests <- MCRequests
  Score <- MCScore
SYMMETRY Symmetry
SPECIFICATION MCSpec
INVARIANTS
  ScoresGenuine
  ColumnsAreHonest
