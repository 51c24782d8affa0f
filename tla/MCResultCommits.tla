--------------------------- MODULE MCResultCommits ---------------------------
(* Small instances of ResultCommits. *)
EXTENDS ResultCommits, TLC

MCSymmetry == Permutations(Writers)
=============================================================================
