CONSTANTS
  Operator = {o1}
  N = 1
SPECIFICATION FairSpec
PROPERTY PerformedIsNotRepeated
