---------------------------- MODULE MCBoxGateway ----------------------------
(* Small instances of BoxGateway. *)
EXTENDS BoxGateway
=============================================================================
