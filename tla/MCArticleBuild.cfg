\* Three builds: the test of the template, a publication, a retry or preview.
\* A claim under the same id is also how a restarted worker takes a job over.
CONSTANTS
  Jobs = {j1, j2, j3}
  Workers = {w1}
  Keys = {}
  NoWorker = NoWorker
  NoKey = NoKey
  CanClaim <- MCCanClaim
  AttemptLimits = {2}
  Timeout = 2
  LeaseTerms = {1}
  Delays = {0}
  Publications = {p1}
  NoBuild = NoBuild
SYMMETRY MCSymmetry
SPECIFICATION BSpec
INVARIANTS
  PublicationFollowsBuild
  CompletedHasEnded
  NoBuildIsStranded
