----------------------------- MODULE MCJobQueue -----------------------------
(* Small instances of JobQueue. *)
EXTENDS JobQueue, TLC

\* Every worker serves every job.
MCCanClaim == Workers \X Jobs
MCSymmetry == Permutations(Workers)
=============================================================================
