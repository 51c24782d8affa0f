---------------------------- MODULE ResultLedger ----------------------------
(***************************************************************************)
(* What Core promises about results and the result branch                  *)
(* (docs/development/experiment.md, Result processing): the branch is      *)
(* never rewritten; an experiment has one archive there, one revert at     *)
(* most undoes it, and never comes before it; and an experiment succeeds   *)
(* once, with the archive that is in the branch.                           *)
(***************************************************************************)
EXTENDS Naturals

CONSTANT Experiments

VARIABLES
  length,     \* of the branch
  archives,   \* positions of the archives of an experiment
  reverts,    \* positions of their reverts
  outcome,    \* of an experiment: "open", "succeeded" or "failed"
  evidence    \* positions of the archive that a success names

ledgerVars == <<length, archives, reverts, outcome, evidence>>

LedgerInit ==
  /\ length = 0
  /\ archives = [e \in Experiments |-> {}] /\ reverts = [e \in Experiments |-> {}]
  /\ outcome = [e \in Experiments |-> "open"] /\ evidence = [e \in Experiments |-> {}]

Grow == length' = length + 1 /\ UNCHANGED <<outcome, evidence>>

\* Commits of other clients.
OtherCommit == Grow /\ UNCHANGED <<archives, reverts>>

Archive(e) ==
  /\ archives[e] = {}
  /\ archives' = [archives EXCEPT ![e] = {length + 1}]
  /\ Grow /\ UNCHANGED reverts

Revert(e) ==
  /\ archives[e] # {} /\ reverts[e] = {}
  /\ reverts' = [reverts EXCEPT ![e] = {length + 1}]
  /\ Grow /\ UNCHANGED archives

Succeed(e) ==
  /\ outcome[e] = "open" /\ archives[e] # {}
  /\ outcome' = [outcome EXCEPT ![e] = "succeeded"]
  /\ evidence' = [evidence EXCEPT ![e] = archives[e]]
  /\ UNCHANGED <<length, archives, reverts>>

GiveUp(e) ==
  /\ outcome[e] = "open"
  /\ outcome' = [outcome EXCEPT ![e] = "failed"]
  /\ UNCHANGED <<length, archives, reverts, evidence>>

LedgerNext ==
  \/ OtherCommit
  \/ \E e \in Experiments : Archive(e) \/ Revert(e) \/ Succeed(e) \/ GiveUp(e)

LedgerSpec == LedgerInit /\ [][LedgerNext]_ledgerVars
=============================================================================
