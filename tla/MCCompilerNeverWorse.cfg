SPECIFICATION LabelledSpec
CONSTANTS
  Pages <- MCPages
  Home <- MCHome
  Leads <- MCLeads
  ValueShaped <- MCValueShaped
  Within <- MCWithin
  Members <- MCMembers
  Example = "12345"
  RecordOf <- MCRecordOf
  Mirror <- MCMirror
  Renewed <- MCRenewed
  Plans <- MCPlans
  Other = "22841"
  MaxAttempts = 6
  MaxMishaps = 1
INVARIANT NeverWorse
CHECK_DEADLOCK FALSE
