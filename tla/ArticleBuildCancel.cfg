\* What the docs say of cancelled jobs.
CONSTANTS
  Jobs = {j1}
  Workers = {w1}
  Keys = {}
  NoWorker = NoWorker
  NoKey = NoKey
  CanClaim <- MCCanClaim
  AttemptLimits = {2}
  Timeout = 2
  LeaseTerms = {1}
  Delays = {0}
  Publications = {p1}
  NoBuild = NoBuild
SPECIFICATION BSpec
INVARIANTS
  BuildNeedsJob
