SPECIFICATION Spec
CONSTANTS
  Pages <- MCPages
  Home <- MCHome
  Leads <- MCLeads
  ValueShaped <- MCValueShaped
  Within <- MCWithin
  Members <- MCMembers
  Example = "12345"
  RecordOf <- MCRecordOf
  Mirror <- MCMirror
  Renewed <- MCRenewed
  Plans <- MCPlans
  Other = "1234"
  MaxAttempts = 5
  MaxMishaps = 1
INVARIANT RightRecord
CHECK_DEADLOCK FALSE
