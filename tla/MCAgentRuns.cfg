\* Two people answer two approvals of one Run; stop, stream and polls interfere.
CONSTANTS
  Approvers = {c1, c2}
  Callers = {g1}
  Sources = {"message", "progress_evaluation"}
  Endings = {"completed"}
  NoApprover = NoApprover
  MaxRequests = 2
  MaxSequence = 2
SYMMETRY MCApproverSymmetry
SPECIFICATION ASpec
INVARIANTS
  ATypeOK
  NoApprovalIsForgotten
  OnlyTheOldestIsClaimed
  OneVoice
PROPERTIES
  ClosedIsFinal
\* A Run that has ended, or was never started, stays as it is.
CHECK_DEADLOCK FALSE
