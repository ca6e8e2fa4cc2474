SPECIFICATION Spec
CONSTANTS
  Main = "main"
  Children = {"directory"}
  Urls = {search, member}
  Handoffs = 2
  MaxActs = 2
  MaxMoves = 3
INVARIANTS
  TypeOK
  DocumentsFoundReport
  WrittenIsTheirs
  FoundIsHeardAtFirst
  EndsWhereTheyEnded
SYMMETRY Symmetry
CHECK_DEADLOCK FALSE
