--------------------------- MODULE ApprovalQueue ----------------------------
(***************************************************************************)
(* What Core promises about the approvals of a Run (docs/development/       *)
(* agent.md, Pinned approval limitation): they keep the order in which     *)
(* they were recorded, only the oldest open one is claimed, by one person  *)
(* at a time, and what is closed stays closed.  One that is claimed may    *)
(* be given back, claimed by another person once the first one sends       *)
(* nothing, or closed, alone or with all the others.                       *)
(***************************************************************************)
CONSTANTS
  Approvals,
  People

VARIABLES
  fate,       \* "unasked", "open", "taken" or "closed"
  earlier,    \* the approvals that were recorded before each one
  sending     \* <<person, approval>>: an answer is on its way to Hermes

queueVars == <<fate, earlier, sending>>

QueueInit ==
  /\ fate = [i \in Approvals |-> "unasked"]
  /\ earlier = [i \in Approvals |-> {}]
  /\ sending = {}

AskFor(i) ==
  /\ fate[i] = "unasked"
  /\ fate' = [fate EXCEPT ![i] = "open"]
  /\ earlier' = [earlier EXCEPT ![i] = {j \in Approvals : fate[j] # "unasked"}]
  /\ UNCHANGED sending

\* The approval is the first that is not closed, and nobody is answering it.
Take(p, i) ==
  /\ fate[i] \in {"open", "taken"}
  /\ \A j \in earlier[i] : fate[j] = "closed"
  /\ \A s \in sending : s[1] # p /\ s[2] # i
  /\ fate' = [fate EXCEPT ![i] = "taken"]
  /\ sending' = sending \cup {<<p, i>>}
  /\ UNCHANGED earlier

SendingEnds(p) ==
  /\ sending' = {s \in sending : s[1] # p}
  /\ UNCHANGED <<fate, earlier>>

GiveBack(i) ==
  /\ fate[i] = "taken"
  /\ \A s \in sending : s[2] # i
  /\ fate' = [fate EXCEPT ![i] = "open"]
  /\ UNCHANGED <<earlier, sending>>

Close(closed) ==
  /\ \A i \in closed : fate[i] \in {"open", "taken"}
  /\ fate' = [i \in Approvals |-> IF i \in closed THEN "closed" ELSE fate[i]]
  /\ UNCHANGED <<earlier, sending>>

QueueNext ==
  \/ \E p \in People : SendingEnds(p)
  \/ \E i \in Approvals : AskFor(i) \/ GiveBack(i)
  \/ \E p \in People, i \in Approvals : Take(p, i)
  \/ \E closed \in SUBSET Approvals : Close(closed)

QueueSpec == QueueInit /\ [][QueueNext]_queueVars
=============================================================================
