SPECIFICATION Spec
CONSTANTS
  Main = "main"
  Children = {"directory"}
  Urls = {search, member}
  Handoffs = 2
  MaxActs = 2
  MaxMoves = 3
INVARIANT EveryDocumentReports
SYMMETRY Symmetry
CHECK_DEADLOCK FALSE
