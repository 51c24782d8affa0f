--------------------------- MODULE MCArticleBuild ---------------------------
(* Small instances of ArticleBuild. *)
EXTENDS ArticleBuild, TLC

MCCanClaim == Workers \X Jobs
MCSymmetry == Permutations(Jobs) \cup Permutations(Workers)
=============================================================================
