CONSTANTS
  Capability <- SignInAndRead
  Digests = {d1, d2}
SPECIFICATION FairSpec
INVARIANTS
  TypeOK
  SessionClosed
  EvidenceForEveryAttempt
  HandoffsAreReported
  AuthExpiredMeansSignedOut
  StalledMeansNoVisibleMove
  OutputsOfASuccess
PROPERTY KeepsContract
