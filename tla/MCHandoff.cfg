CONSTANTS
  Operator = {o1, o2}
  N = 1
SPECIFICATION Spec
INVARIANTS
  TypeOK
  YieldedUntilResumed
  AnnouncedAfterYield
  SkipsOnlyOnWord
  OneRetry
  SuccessAccountsForEveryStep
PROPERTY OnlyPeopleMoveALease
