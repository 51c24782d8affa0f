CONSTANTS
  Experiments = {e1}
  NoExp = NoExp
  Writers = {w1, w2}
  Syncs = {s1}
  Core = Core
  NoOwner = NoOwner
  NoCommit = NoCommit
  MaxCommits = 3
  MaxRequests = 2
SYMMETRY MCSymmetry
SPECIFICATION Spec
INVARIANTS
  ResultIsArchivedOnce
  AnnouncedIsSynced
CHECK_DEADLOCK FALSE
