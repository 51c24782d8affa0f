------------------------------ MODULE MCOutbox ------------------------------
(* Small instances of Outbox. *)
EXTENDS Outbox, TLC

\* One consumer is registered for each event, the others are not.
MCMatches == {pair \in Events \X Consumers : pair[2] = CHOOSE c \in Consumers : TRUE}
=============================================================================
