---------------------------- MODULE Experiments ----------------------------
(***************************************************************************)
(* Managed experiments of one project (backend/internal/experiment): the   *)
(* execution status of each, the user's operations, what the observer of   *)
(* Box control makes of a task's row (ApplyTaskStatus, ApplyResult), and   *)
(* the end of result processing.                                           *)
(***************************************************************************)
EXTENDS BoxControl

VARIABLE exp   \* experiments.execution_status

expVars == <<box, bound, task, exp>>

-----------------------------------------------------------------------------
Terminal == Outcomes \cup {"archived"}
ExpStatuses == {"absent", "created", "queued"} \cup Held \cup Terminal

ExpInit == ControlInit /\ exp = [e \in Experiments |-> "absent"]

Create(e) ==
  /\ exp[e] = "absent"
  /\ exp' = [exp EXCEPT ![e] = "created"]
  /\ UNCHANGED boxVars

Run(e) ==
  /\ exp[e] = "created"
  /\ exp' = [exp EXCEPT ![e] = "queued"]
  /\ task' = [task EXCEPT ![e].status = "queued"]
  /\ UNCHANGED <<box, bound>>

Cancelled(r) ==
  [r EXCEPT !.cancel = TRUE, !.status = IF @ = "queued" THEN "canceled" ELSE @]

Cancel(e) ==
  /\ exp[e] \notin Terminal \cup {"absent"}
  /\ task' = IF task[e].status \in OnBox \cup {"queued"}
             THEN [task EXCEPT ![e] = Cancelled(@)] ELSE task
  /\ exp' = IF exp[e] \in {"created", "queued", "processing_result"}
            THEN [exp EXCEPT ![e] = "canceled"] ELSE exp
  /\ UNCHANGED <<box, bound>>

Archive(e) ==
  /\ exp[e] \in Outcomes
  /\ exp' = [exp EXCEPT ![e] = "archived"]
  /\ UNCHANGED boxVars

-----------------------------------------------------------------------------
(* The observer of Box control; r is the row of the task when the store    *)
(* handed it over, which may be older than the row of now.                 *)

PhaseTransition(from, to) ==
  \/ ValidTransition(from, to)
  \/ from = "queued" /\ to \in {"preparing", "failed", "canceled", "timed_out"}

Invalidates(from, r) == from = "processing_result" /\ r.status = "failed" /\ r.code = "force"

\* A settled experiment ignores the row; so does one whose result is being
\* processed, unless the box was taken away by force: then it conflicts.
Ignored(from, r) ==
  from \in Terminal \/ (from = "processing_result" /\ ~Invalidates(from, r))

Conflicts(from, r) ==
  ~Ignored(from, r) /\ from # r.status /\ ~PhaseTransition(from, r.status)

ApplyTaskStatus(e, r) ==
  /\ ~Conflicts(exp[e], r)
  /\ exp' = IF Ignored(exp[e], r) THEN exp ELSE [exp EXCEPT ![e] = r.status]
  /\ UNCHANGED boxVars

\* The result job is created with the change of the status.
ApplyResult(e) ==
  /\ exp[e] \in {"uploading", "processing_result"}
  /\ exp' = [exp EXCEPT ![e] = "processing_result"]
  /\ UNCHANGED boxVars

-----------------------------------------------------------------------------
(* The end of the result job: CompleteResult, or FailResultInTransaction.  *)

ProcessedTask(e, status) ==
  IF task[e].status = "processing_result"
  THEN [task EXCEPT ![e] = Ended(@, status, "none")] ELSE task

CompleteResult(e) ==
  /\ exp[e] = "processing_result"
  /\ exp' = [exp EXCEPT ![e] = "succeeded"]
  /\ task' = ProcessedTask(e, "succeeded")
  /\ UNCHANGED <<box, bound>>

FailResult(e) ==
  /\ exp[e] = "processing_result"
  /\ exp' = [exp EXCEPT ![e] = "failed"]
  /\ task' = ProcessedTask(e, "failed")
  /\ UNCHANGED <<box, bound>>
=============================================================================
