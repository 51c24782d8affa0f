---------------------------- MODULE MCAgentRuns ----------------------------
(* Small instances of AgentRuns. *)
EXTENDS AgentRuns, TLC

MCApproverSymmetry == Permutations(Approvers)
=============================================================================
