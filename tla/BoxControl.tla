----------------------------- MODULE BoxControl -----------------------------
(***************************************************************************)
(* Boxes and their tasks in Core (backend/internal/boxcontrol): the rows   *)
(* of box_nodes, box_project_bindings (of one project) and box_tasks, and  *)
(* the store transactions that change them.  A task belongs to one         *)
(* experiment and is claimed at most once (max_attempts is 1 and no        *)
(* transaction returns it to the queue), so the execution epoch of a claim *)
(* is the pair of box and experiment.                                      *)
(***************************************************************************)
EXTENDS Integers, FiniteSets

CONSTANTS
  Boxes,
  Experiments,
  NoBox,         \* box_id IS NULL
  Capacity,      \* load.capacity of a box, MaxConcurrent of its gateway
  StaleAfter,    \* 45 seconds without a heartbeat
  OfflineLimit   \* 72 hours offline

ASSUME BoxControlConstants ==
  /\ NoBox \notin Boxes
  /\ Capacity \in Nat \ {0}
  /\ StaleAfter \in Nat \ {0}
  /\ OfflineLimit \in Nat \ {0}

VARIABLES
  box,    \* box_nodes: status, time since the last heartbeat and since offline_since
  bound,  \* the boxes assigned to the project
  task    \* box_tasks, named by their experiment

boxVars == <<box, bound, task>>

-----------------------------------------------------------------------------
BoxStatuses == {"registering", "online", "offline", "draining", "revoked"}
Outcomes == {"succeeded", "failed", "canceled", "timed_out"}
OnBox == {"preparing", "running", "uploading"}
Held == OnBox \cup {"processing_result"}
Codes == {"none", "timeout", "force"}     \* what ended the task, when no report did
TaskStatuses == {"absent", "queued"} \cup Held \cup Outcomes

Off == -1
Silence == StaleAfter + OfflineLimit      \* bound of the clocks of a box

Box == [status : BoxStatuses, silent : 0..Silence, offline : (0..OfflineLimit) \cup {Off}]
Task == [status : TaskStatuses, box : Boxes \cup {NoBox}, cancel : BOOLEAN,
         code : Codes]

ControlInit ==
  /\ box = [b \in Boxes |-> [status |-> "registering", silent |-> 0, offline |-> Off]]
  /\ bound = {}
  /\ task = [e \in Experiments |->
       [status |-> "absent", box |-> NoBox, cancel |-> FALSE, code |-> "none"]]

TasksOf(b, statuses) == {e \in Experiments : task[e].box = b /\ task[e].status \in statuses}

-----------------------------------------------------------------------------
(* Heartbeats and the maintenance loop.                                    *)

Later(n, limit) == IF n \in 0..(limit - 1) THEN n + 1 ELSE n

Tick ==
  /\ box' = [b \in Boxes |->
       IF box[b].status \in {"online", "offline"}
       THEN [box[b] EXCEPT !.silent = Later(@, Silence), !.offline = Later(@, OfflineLimit)]
       ELSE box[b]]
  /\ UNCHANGED <<bound, task>>

\* Mutant of Beaten: the box comes back with the time of its last absence.
BeatenStill(r) == [r EXCEPT !.status = "online", !.silent = 0]

Beaten(r) == [r EXCEPT !.status = "online", !.silent = 0, !.offline = Off]

UpdateHeartbeat(b) ==
  /\ box[b].status \notin {"draining", "revoked"}
  /\ box' = [box EXCEPT ![b] = Beaten(@)]
  /\ UNCHANGED <<bound, task>>

\* Mutant of Missed: offline_since is not set.
MissedUntimed(r) == [r EXCEPT !.status = "offline"]

Missed(r) == [r EXCEPT !.status = "offline", !.offline = IF @ = Off THEN 0 ELSE @]

MarkOffline(b) ==
  /\ box[b].status = "online" /\ box[b].silent >= StaleAfter
  /\ box' = [box EXCEPT ![b] = Missed(@)]
  /\ UNCHANGED <<bound, task>>

Ended(r, status, code) == [r EXCEPT !.status = status, !.code = code]

\* The tasks es end as failed; their rows are handed to the observer.
FailTasks(es, code) ==
  task' = [e \in Experiments |-> IF e \in es THEN Ended(task[e], "failed", code) ELSE task[e]]

Expired(b) == box[b].status = "offline" /\ box[b].offline = OfflineLimit

FailOfflineTimeouts(b) ==
  /\ Expired(b)
  /\ TasksOf(b, OnBox) # {}
  /\ FailTasks(TasksOf(b, OnBox), "timeout")
  /\ UNCHANGED <<box, bound>>

-----------------------------------------------------------------------------
(* Assignment, draining and revocation.                                    *)

Assign(b) ==
  /\ box[b].status # "revoked"
  /\ bound' = bound \cup {b}
  /\ UNCHANGED <<box, task>>

Unassign(b) ==
  /\ b \in bound
  /\ TasksOf(b, Held) = {}
  /\ bound' = bound \ {b}
  /\ UNCHANGED <<box, task>>

ForceUnassign(b) ==
  /\ b \in bound
  /\ FailTasks(TasksOf(b, Held), "force")
  /\ bound' = bound \ {b}
  /\ UNCHANGED box

\* Nothing reads the clocks of a box that is draining or revoked.
Retired(status) == [status |-> status, silent |-> 0, offline |-> Off]

BeginDrain(b) ==
  /\ box[b].status # "revoked"
  /\ box' = [box EXCEPT ![b] = Retired("draining")]
  /\ UNCHANGED <<bound, task>>

\* The second statement of FinalizeDrained; the first counted the tasks.
RevokeDrained(b) ==
  IF box[b].status = "draining"
  THEN /\ box' = [box EXCEPT ![b] = Retired("revoked")]
       /\ bound' = bound \ {b}
       /\ UNCHANGED task
  ELSE UNCHANGED boxVars

ForceRevoke(b) ==
  /\ box' = [box EXCEPT ![b] = Retired("revoked")]
  /\ FailTasks(TasksOf(b, Held), "force")
  /\ bound' = bound \ {b}

-----------------------------------------------------------------------------
(* Tasks.                                                                  *)

Claimable(b, e) ==
  /\ box[b].status = "online" /\ b \in bound
  /\ task[e].status = "queued" /\ ~task[e].cancel
  /\ Cardinality(TasksOf(b, OnBox)) < Capacity

\* The binding is not locked: Unassign, which counts the tasks before it ends
\* the binding, may have counted before the claim and end it right after.
ClaimTask(b, e) ==
  /\ Claimable(b, e)
  /\ task' = [task EXCEPT ![e].status = "preparing", ![e].box = b]
  /\ bound' \in {bound, bound \ {b}}
  /\ UNCHANGED box

\* What Core tells a gateway that resumes a task.
ResumeTask(e) ==
  IF task[e].status \in OnBox
  THEN IF task[e].cancel THEN "stop" ELSE "continue"
  ELSE "stop"

ValidTransition(from, to) ==
  \/ from = "preparing" /\ to \in {"running", "failed", "canceled", "timed_out"}
  \/ from = "running" /\ to \in {"uploading", "failed", "canceled", "timed_out"}
  \/ from = "uploading" /\ to \in {"failed", "canceled", "timed_out"}

Settled(status) == status \in Outcomes \cup {"processing_result"}

\* A settled task answers any report with its own row.
Reportable(from, to) == Settled(from) \/ from = to \/ ValidTransition(from, to)

\* Mutant of Reported: the early return for a settled task is missing.
ReportedLate(r, status) == Ended(r, status, "none")

Reported(r, status) == IF Settled(r.status) THEN r ELSE Ended(r, status, "none")

ReportStatus(b, e, status) ==
  /\ task[e].box = b
  /\ Reportable(task[e].status, status)
  /\ task' = [task EXCEPT ![e] = Reported(@, status)]
  /\ UNCHANGED <<box, bound>>

Submittable(status) == status \in {"uploading", "processing_result", "succeeded"}

SubmitResult(b, e) ==
  /\ task[e].box = b
  /\ Submittable(task[e].status)
  /\ task' = [task EXCEPT ![e].status = IF @ = "succeeded" THEN @ ELSE "processing_result"]
  /\ UNCHANGED <<box, bound>>
=============================================================================
