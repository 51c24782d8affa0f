\* Two processors, two requests, two evaluations, one change.
CONSTANTS
  Jobs = {j1, j2}
  Workers = {w1}
  Keys = {}
  NoWorker = NoWorker
  NoKey = NoKey
  CanClaim <- MCCanClaim
  AttemptLimits = {1}
  Timeout = 1
  LeaseTerms = {1}
  Delays = {0}
  Requests = {r1, r2}
  Processors = {p1, p2}
  NoRequest = NoRequest
  NoProcessor = NoProcessor
  NoEvaluation = NoEvaluation
  MaxChanges = 1
  Postponements = {1}
  MinInterval = {0, 1}
  AssemblyLease = 1
  RetryDelay = 0
  Prompt = FALSE
SYMMETRY MCSymmetry
SPECIFICATION PSpec
INVARIANTS
  TriggersAnswered
  NoDuplicateWork
