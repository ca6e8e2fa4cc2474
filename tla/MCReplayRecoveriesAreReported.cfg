CONSTANTS
  Capability <- ReadOne
  Digests = {d1, d2}
SPECIFICATION FairSpec
INVARIANT RecoveriesAreReported
