--------------------------- MODULE EventDelivery ----------------------------
(***************************************************************************)
(* What the outbox promises to the modules that write events and to the    *)
(* consumers that read them (docs/api/events.md): an event committed with  *)
(* its state change is owed to every consumer registered for it, a         *)
(* delivery counts only after the consumer has run, and what is owed is    *)
(* delivered or, when the attempts are used up, given up; nothing else     *)
(* ever settles it.                                                        *)
(***************************************************************************)
CONSTANTS
  Events,
  Consumers,
  Matches       \* <<event, consumer>>: the consumer is registered for the event

VARIABLES
  fate,         \* what has become of each event for each consumer
  ran           \* the consumer has run successfully for the event

absVars == <<fate, ran>>

Fates == {"none", "owed", "delivered", "abandoned"}
Pairs == Events \X Consumers

AbsInit ==
  /\ fate = [pair \in Pairs |-> "none"]
  /\ ran = {}

Commit(e) ==
  /\ \A c \in Consumers : fate[<<e, c>>] = "none"
  /\ fate' = [pair \in Pairs |-> IF pair[1] = e /\ pair \in Matches
                                 THEN "owed" ELSE fate[pair]]
  /\ UNCHANGED ran

\* A consumer may run again, even after its delivery has been settled.
RunConsumer(pair) ==
  /\ fate[pair] # "none"
  /\ ran' = ran \cup {pair}
  /\ UNCHANGED fate

Deliver(pair) ==
  /\ fate[pair] = "owed"
  /\ pair \in ran
  /\ fate' = [fate EXCEPT ![pair] = "delivered"]
  /\ UNCHANGED ran

Abandon(lost) ==
  /\ \A pair \in lost : fate[pair] = "owed"
  /\ fate' = [pair \in Pairs |-> IF pair \in lost THEN "abandoned" ELSE fate[pair]]
  /\ UNCHANGED ran

AbsNext ==
  \/ \E e \in Events : Commit(e)
  \/ \E pair \in Pairs : RunConsumer(pair) \/ Deliver(pair)
  \/ \E lost \in SUBSET Pairs : Abandon(lost)

AbsSpec == AbsInit /\ [][AbsNext]_absVars
=============================================================================
