---------------------------- MODULE MCJobWorker -----------------------------
(* Small instances of JobWorker. *)
EXTENDS JobWorker, TLC

MCCanClaim == Workers \X Jobs
MCSymmetry == Permutations(Workers) \cup Permutations(Jobs)
=============================================================================
