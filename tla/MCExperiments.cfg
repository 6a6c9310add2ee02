SPECIFICATION Spec
CONSTANTS
  Images <- MCImages
  Prefix <- MCPrefix
  Table <- MCTable
  Declared <- MCDeclared
  Withdrawn = {}
  Sources = 1
  Retries = 1
  Commands <- MCCommands
  Arms = 2
  Decisions = {"D1"}
  MaxEdits = 1
  MaxRuns = 2
  Tables <- MCTables
  Kind <- MCKind
  Source <- MCSource
  Uncovered = {"tuned"}
  Lists <- MCLists
  MaxSlips = 1
  Figures <- MCFigures
  File <- MCFile
  Cites <- MCCites
  Shaped <- MCFigures
  Claims = {"margin"}
INVARIANTS
  SealKept
  PinnedScored
  GreenMeansChecked
  QuotesAreMeasured
PROPERTIES
  ReadingKept
  RunsEnd
