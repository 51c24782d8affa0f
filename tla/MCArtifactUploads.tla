------------------------- MODULE MCArtifactUploads -------------------------
(* Small instances of ArtifactUploads: all uploads have the same content. *)
EXTENDS ArtifactUploads, TLC

CONSTANTS u1, u2, u3, a1, a2, d1

MCOf == [u \in Uploads |-> IF u = u2 THEN a2 ELSE a1]
MCFirstOf == [a \in Artifacts |-> IF a = a2 THEN u2 ELSE u1]
MCContentOf == [u \in Uploads |-> d1]
MCSymmetry == Permutations(Clients)
=============================================================================
