SPECIFICATION Spec
CONSTANTS
  MaxReadable = 4
  MinInteractive = 2
  UnnamedTenths = 4
  Short = {"-"}
  Normal <- MCNormal
  Pages <- MCPages
  ValueShaped <- MCValueShaped
  Within <- MCWithin
INVARIANT TakesTheRecordedOne
