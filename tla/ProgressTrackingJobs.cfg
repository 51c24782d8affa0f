\* The jobs of evaluations: retries, cancellations, timeouts, crashes of processors.
CONSTANTS
  Jobs = {j1}
  Workers = {w1}
  Keys = {}
  NoWorker = NoWorker
  NoKey = NoKey
  CanClaim <- MCCanClaim
  AttemptLimits = {2}
  Timeout = 2
  LeaseTerms = {1}
  Delays = {0}
  Requests = {r1}
  Processors = {p1, p2}
  NoRequest = NoRequest
  NoProcessor = NoProcessor
  NoEvaluation = NoEvaluation
  MaxChanges = 1
  Postponements = {0, 1}
  MinInterval = {0, 1}
  AssemblyLease = 2
  RetryDelay = 0
  Prompt = TRUE
SPECIFICATION PFairSpec
INVARIANTS
  ClaimIsAccepted
  EndedEvaluationHasEndedJob
PROPERTIES
  RequestsAreSettled
