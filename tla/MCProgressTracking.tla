------------------------- MODULE MCProgressTracking -------------------------
(* Small instances of ProgressTracking. *)
EXTENDS ProgressTracking, TLC

MCCanClaim == Workers \X Jobs
MCSymmetry == Permutations(Jobs) \cup Permutations(Requests) \cup Permutations(Processors)
=============================================================================
