\* Crashes, and requests that arrive after their client gave up.
CONSTANTS
  Jobs = {j1}
  Workers = {w1, w2}
  Keys = {}
  NoWorker = NoWorker
  NoKey = NoKey
  NoJob = NoJob
  CanClaim <- MCCanClaim
  AttemptLimits = {2}
  Timeout = 3
  LeaseTerms = {2}
  Delays = {0}
  Lease = 2
  MaxLate = 1
  MaxCrashes = 1
SPECIFICATION WFairSpec
INVARIANTS
  OneHandlerPerAttempt
  LeaseIsOfThisAttempt
  LeaseOutlivesHandler
PROPERTIES
  EveryJobEndsWithWorkers
