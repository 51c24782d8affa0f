\* Safety of the queue: two workers, two jobs that may share a key.
CONSTANTS
  Jobs = {j1, j2}
  Workers = {w1, w2}
  Keys = {k1}
  NoWorker = NoWorker
  NoKey = NoKey
  CanClaim <- MCCanClaim
  AttemptLimits = {2}
  Timeout = 3
  LeaseTerms = {2}
  Delays = {0}
SYMMETRY MCSymmetry
SPECIFICATION Spec
INVARIANTS
  TypeOK
  AttemptBudget
  OneWorkerPerAttempt
PROPERTIES
  CancellationWins
  TerminalIsFinal
