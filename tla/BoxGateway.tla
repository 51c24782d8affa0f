----------------------------- MODULE BoxGateway -----------------------------
(***************************************************************************)
(* The gateway of each box (box/gateway) against Core.  A gateway keeps a  *)
(* file of its tasks: the statuses Core has not acknowledged, whether the  *)
(* runtime started and finished, whether a bundle waits for submission.    *)
(* One goroutine executes a task, one sync pass at a time talks to Core.   *)
(* Core handles a call in several transactions: the store's, the           *)
(* observer's, and the two statements of FinalizeDrained; the client may   *)
(* give up on a call that Core goes on with, and a call may fail between   *)
(* any two of them.                                                        *)
(***************************************************************************)
EXTENDS Experiments, Sequences

CONSTANTS
  NoExp,        \* no task is being synchronised
  MaxCalls,     \* bound: calls Core is handling at once
  MaxPending    \* bound: statuses a relaunch may leave unacknowledged

ASSUME GatewayConstants ==
  /\ NoExp \notin Experiments
  /\ MaxCalls \in Nat \ {0}
  /\ MaxPending \in Nat \ {0}

VARIABLES
  calls,   \* what Core has begun to handle after the store's transaction
  up,      \* the boxes whose gateway process runs
  local,   \* the state file: for each box and task
  exec,    \* executionControl: how far the goroutine of a task is
  stop,    \* tasks whose execution is to stop and be cleaned up
  sync,    \* the task a gateway synchronises
  lost     \* history: tasks whose claim was not answered

gateVars == <<up, local, exec, stop, sync, lost>>
vars == <<box, bound, task, exp, calls, up, local, exec, stop, sync, lost>>

-----------------------------------------------------------------------------
Reports == {"preparing", "running", "uploading", "failed", "canceled", "timed_out"}
Phases == {"none", "prepare", "started", "run", "bundle"}

Call == [kind : {"status", "result", "timeout", "force", "drain"}, box : Boxes,
         exp : Experiments \cup {NoExp}, status : TaskStatuses,
         code : Codes,
         stage : {"observe", "count", "revoke"}, asked : BOOLEAN]

LocalTask == [known : BOOLEAN, pend : Seq(Reports), started : BOOLEAN,
              finished : BOOLEAN, terminal : BOOLEAN, result : BOOLEAN,
              skipped : BOOLEAN]  \* history: "running" was never queued

Blank == [known |-> FALSE, pend |-> <<>>, started |-> FALSE,
          finished |-> FALSE, terminal |-> FALSE, result |-> FALSE, skipped |-> FALSE]

Init ==
  /\ ExpInit
  /\ calls = {}
  /\ up = {}
  /\ local = [b \in Boxes |-> [e \in Experiments |-> Blank]]
  /\ exec = [b \in Boxes |-> [e \in Experiments |-> "none"]]
  /\ stop = [b \in Boxes |-> {}]
  /\ sync = [b \in Boxes |-> NoExp]
  /\ lost = {}

-----------------------------------------------------------------------------
(* Calls in Core.                                                          *)

Asked(b) == {c \in calls : c.box = b /\ c.asked}
Room == Cardinality(calls) < MaxCalls

\* What the observer is to be told of the tasks es, as their rows are now.
Told(kind, b, es, asked) ==
  {[kind |-> kind, box |-> b, exp |-> e, status |-> task'[e].status,
    code |-> task'[e].code, stage |-> "observe", asked |-> asked] : e \in es}

\* The call is answered with an error.
Refused(c) ==
  /\ calls' = calls \ {c}
  /\ sync' = IF c.asked THEN [sync EXCEPT ![c.box] = NoExp] ELSE sync
  /\ UNCHANGED <<up, local, exec, stop, lost>>

Acknowledged(l) == [l EXCEPT !.pend = Tail(@)]

\* The call is answered: the head of the queue was taken, or the bundle.
Answered(c) ==
  /\ calls' = calls \ {c}
  /\ local' = IF ~c.asked THEN local
              ELSE [local EXCEPT ![c.box][c.exp] =
                      IF c.kind = "result" THEN Blank ELSE Acknowledged(@)]
  /\ sync' = IF c.asked /\ c.kind = "result" THEN [sync EXCEPT ![c.box] = NoExp] ELSE sync
  /\ UNCHANGED <<up, exec, stop, lost>>

\* From here on the call does not look at the row again.
Proceed(c, stage) ==
  /\ calls' = (calls \ {c}) \cup
       {[c EXCEPT !.stage = stage, !.status = "absent", !.code = "none"]}
  /\ UNCHANGED gateVars

Observe(c) ==
  /\ c.stage = "observe"
  /\ \/ /\ c.kind # "result"
        /\ ApplyTaskStatus(c.exp, c)
        /\ IF c.kind = "status" THEN Proceed(c, "count") ELSE Answered(c)
     \/ /\ c.kind # "result" /\ Conflicts(exp[c.exp], c)
        /\ Refused(c) /\ UNCHANGED expVars
     \/ /\ c.kind = "result"
        /\ ApplyResult(c.exp)
        /\ Proceed(c, "count")

CountActive(c) ==
  /\ c.stage = "count"
  /\ IF TasksOf(c.box, Held) = {} THEN Proceed(c, "revoke") ELSE Answered(c)
  /\ UNCHANGED expVars

FinalizeDrained(c) ==
  /\ c.stage = "revoke"
  /\ RevokeDrained(c.box) /\ UNCHANGED exp
  /\ Answered(c)

\* A crash of Core, a cancelled request or an error of the database.
CallFails(c) == Refused(c) /\ UNCHANGED expVars

-----------------------------------------------------------------------------
(* Core without the gateways: users, the maintenance loop, the worker.     *)

TimeOut(b) ==
  /\ FailOfflineTimeouts(b)
  /\ Cardinality(calls) + Cardinality(TasksOf(b, OnBox)) <= MaxCalls
  /\ calls' = calls \cup Told("timeout", b, TasksOf(b, OnBox), FALSE)
  /\ UNCHANGED <<exp, gateVars>>

\* Revoke in force mode, or Unassign with force.
TakeAway(b) ==
  /\ ForceRevoke(b) \/ ForceUnassign(b)
  /\ Cardinality(calls) + Cardinality(TasksOf(b, Held)) <= MaxCalls
  /\ calls' = calls \cup Told("force", b, TasksOf(b, Held), FALSE)
  /\ UNCHANGED <<exp, gateVars>>

\* Revoke in drain mode goes on to FinalizeDrained when nothing is active.
Drain(b) ==
  /\ BeginDrain(b)
  /\ Room
  /\ calls' = IF TasksOf(b, Held) # {} THEN calls
              ELSE calls \cup {[kind |-> "drain", box |-> b, exp |-> NoExp, status |-> "absent",
                                code |-> "none", stage |-> "count", asked |-> FALSE]}
  /\ UNCHANGED <<exp, gateVars>>

UserStep(e) == Create(e) \/ Run(e) \/ Cancel(e) \/ Archive(e)
WorkerStep(e) == CompleteResult(e) \/ FailResult(e)
BoxStep(b) == Assign(b) \/ Unassign(b)

HandleCall ==
  \E c \in calls : Observe(c) \/ CountActive(c) \/ FinalizeDrained(c) \/ CallFails(c)

CoreStep ==
  \/ \E e \in Experiments : (UserStep(e) \/ WorkerStep(e)) /\ UNCHANGED <<calls, gateVars>>
  \/ \E b \in Boxes : (BoxStep(b) \/ MarkOffline(b)) /\ UNCHANGED <<exp, calls, gateVars>>
  \/ Tick /\ UNCHANGED <<exp, calls, gateVars>>
  \/ \E b \in Boxes : TimeOut(b) \/ TakeAway(b) \/ Drain(b)
  \/ HandleCall

-----------------------------------------------------------------------------
(* The gateway process: start, heartbeat, claim, end.                      *)

Running(b) == {e \in Experiments : exec[b][e] # "none"}

Start(b) ==
  /\ b \notin up
  /\ up' = up \cup {b}
  /\ UNCHANGED <<expVars, calls, local, exec, stop, sync, lost>>

\* The goroutine of the task ends in phase x.
Interrupted(l, x) == [l EXCEPT !.skipped = @ \/ x = "started"]

\* A crash, a shutdown, or a heartbeat or claim refused for good (the box is
\* draining or revoked).  What is in memory is gone; its call goes on in Core.
End(b) ==
  /\ b \in up
  /\ up' = up \ {b}
  /\ exec' = [exec EXCEPT ![b] = [e \in Experiments |-> "none"]]
  /\ stop' = [stop EXCEPT ![b] = {}]
  /\ sync' = [sync EXCEPT ![b] = NoExp]
  /\ calls' = (calls \ Asked(b)) \cup {[c EXCEPT !.asked = FALSE] : c \in Asked(b)}
  /\ local' = [local EXCEPT ![b] = [e \in Experiments |->
       Interrupted(local[b][e], exec[b][e])]]
  /\ UNCHANGED <<expVars, lost>>

Heartbeat(b) ==
  /\ b \in up
  /\ UpdateHeartbeat(b)
  /\ UNCHANGED <<exp, calls, gateVars>>

\* startTask writes the task to the file before it launches it.
Claim(b, e) ==
  /\ b \in up /\ Cardinality(Running(b)) < Capacity
  /\ ClaimTask(b, e)
  /\ \/ /\ local' = [local EXCEPT ![b][e] = [Blank EXCEPT !.known = TRUE]]
        /\ UNCHANGED lost
     \/ /\ lost' = lost \cup {e}
        /\ UNCHANGED local
  /\ UNCHANGED <<exp, calls, up, exec, stop, sync>>

-----------------------------------------------------------------------------
(* execute: one goroutine for each task it runs.                           *)

Queued(l, status) == [l EXCEPT !.pend = Append(@, status)]

TerminalOnly(l, status) ==
  [Queued(l, status) EXCEPT !.finished = TRUE, !.terminal = TRUE]

\* The goroutine of task e goes from one phase to another and leaves l in the file.
Advance(b, e, from, to, l) ==
  /\ exec[b][e] = from
  /\ exec' = [exec EXCEPT ![b][e] = to]
  /\ local' = [local EXCEPT ![b][e] = l]
  /\ UNCHANGED <<expVars, calls, up, stop, sync, lost>>

\* It returns; what was to be stopped is cleaned up.
Return(b, e, from, l) ==
  /\ exec[b][e] = from
  /\ exec' = [exec EXCEPT ![b][e] = "none"]
  /\ local' = [local EXCEPT ![b][e] = IF e \in stop[b] THEN Blank ELSE l]
  /\ stop' = [stop EXCEPT ![b] = @ \ {e}]
  /\ UNCHANGED <<expVars, calls, up, sync, lost>>

\* Mutant of Launch: a runtime that was started is reported as preparing again.
LaunchAnew(b, e) ==
  LET l == local[b][e] IN
  /\ b \in up /\ l.known /\ ~l.finished /\ Cardinality(Running(b)) < Capacity
  /\ Len(l.pend) < MaxPending
  /\ Advance(b, e, "none", "prepare", Queued(l, "preparing"))

Launch(b, e) ==
  LET l == local[b][e] IN
  /\ b \in up /\ l.known /\ ~l.finished /\ Cardinality(Running(b)) < Capacity
  /\ Len(l.pend) < MaxPending
  /\ Advance(b, e, "none", "prepare", IF l.started THEN l ELSE Queued(l, "preparing"))

PrepareFails(b, e) == Return(b, e, "prepare", TerminalOnly(local[b][e], "failed"))

StartRuntime(b, e) ==
  Advance(b, e, "prepare", IF local[b][e].started THEN "run" ELSE "started",
          [local[b][e] EXCEPT !.started = TRUE])

QueueRunning(b, e) == Advance(b, e, "started", "run", Queued(local[b][e], "running"))

RunEnds(b, e, status) ==
  /\ status = "canceled" => e \in stop[b]
  /\ Return(b, e, "run", TerminalOnly(local[b][e], status))

Detach(b, e) == Return(b, e, "run", local[b][e])

RunSucceeds(b, e) == Advance(b, e, "run", "bundle", Queued(local[b][e], "uploading"))

BundleFails(b, e) == Return(b, e, "bundle", TerminalOnly(local[b][e], "failed"))

BundleReady(b, e) ==
  Return(b, e, "bundle", [local[b][e] EXCEPT !.finished = TRUE, !.result = TRUE])

Execute(b, e) ==
  \/ Launch(b, e) \/ PrepareFails(b, e) \/ StartRuntime(b, e) \/ QueueRunning(b, e)
  \/ \E status \in Outcomes \ {"succeeded"} : RunEnds(b, e, status)
  \/ Detach(b, e) \/ RunSucceeds(b, e) \/ BundleFails(b, e) \/ BundleReady(b, e)

-----------------------------------------------------------------------------
(* syncTask: resume, then statuses in order, then the bundle.              *)

Authorised(b) == b \in up /\ box[b].status # "revoked"

Resume(b, e) ==
  /\ Authorised(b) /\ sync[b] = NoExp /\ local[b][e].known
  /\ IF ResumeTask(e) = "continue"
     THEN sync' = [sync EXCEPT ![b] = e] /\ UNCHANGED <<local, stop>>
     ELSE /\ UNCHANGED sync
          /\ IF exec[b][e] = "none"
             THEN local' = [local EXCEPT ![b][e] = Blank] /\ UNCHANGED stop
             ELSE stop' = [stop EXCEPT ![b] = @ \cup {e}] /\ UNCHANGED local
  /\ UNCHANGED <<expVars, calls, up, exec, lost>>

Free(b, e) == Authorised(b) /\ sync[b] = e /\ Asked(b) = {}

SendStatus(b, e) ==
  LET l == local[b][e] IN
  /\ Free(b, e) /\ l.pend # <<>> /\ Room
  /\ ReportStatus(b, e, Head(l.pend))
  /\ calls' = calls \cup Told("status", b, {e}, TRUE)
  /\ UNCHANGED <<exp, gateVars>>

SendResult(b, e) ==
  LET l == local[b][e] IN
  /\ Free(b, e) /\ l.pend = <<>> /\ l.result /\ Room
  /\ SubmitResult(b, e)
  /\ calls' = calls \cup Told("result", b, {e}, TRUE)
  /\ UNCHANGED <<exp, gateVars>>

\* Mutant of GiveUp: the status is taken off the queue although no answer came.
GiveUpAcknowledged(b) ==
  /\ Asked(b) # {}
  /\ calls' = (calls \ Asked(b)) \cup {[c EXCEPT !.asked = FALSE] : c \in Asked(b)}
  /\ local' = [local EXCEPT ![b][sync[b]] = IF @.pend = <<>> THEN @ ELSE Acknowledged(@)]
  /\ sync' = [sync EXCEPT ![b] = NoExp]
  /\ UNCHANGED <<expVars, up, exec, stop, lost>>

\* The client times out or loses the connection; Core may go on.
GiveUp(b) ==
  /\ Asked(b) # {}
  /\ calls' = (calls \ Asked(b)) \cup {[c EXCEPT !.asked = FALSE] : c \in Asked(b)}
  /\ sync' = [sync EXCEPT ![b] = NoExp]
  /\ UNCHANGED <<expVars, up, local, exec, stop, lost>>

\* Mutant of Complete: unacknowledged statuses are thrown away.
CompleteEarly(l) == l.terminal

\* Everything was sent, or a request failed before Core changed anything.
Complete(l) == l.terminal /\ l.pend = <<>>

EndSync(b, e) ==
  /\ b \in up /\ sync[b] = e /\ Asked(b) = {}
  /\ sync' = [sync EXCEPT ![b] = NoExp]
  /\ local' = IF Complete(local[b][e]) THEN [local EXCEPT ![b][e] = Blank] ELSE local
  /\ UNCHANGED <<expVars, calls, up, exec, stop, lost>>

Sync(b, e) == Resume(b, e) \/ SendStatus(b, e) \/ SendResult(b, e) \/ EndSync(b, e)

GatewayStep(b) ==
  \/ Start(b) \/ End(b) \/ Heartbeat(b) \/ GiveUp(b)
  \/ \E e \in Experiments : Claim(b, e) \/ Execute(b, e) \/ Sync(b, e)

Next == CoreStep \/ \E b \in Boxes : GatewayStep(b)

Spec == Init /\ [][Next]_vars

\* The maintenance loop runs, time passes, Core comes to the end of each call.
\* No gateway is obliged to start, to claim or to report.
Fairness ==
  /\ WF_vars(Tick /\ UNCHANGED <<exp, calls, gateVars>>)
  /\ WF_vars(HandleCall)
  /\ \A b \in Boxes : WF_vars(MarkOffline(b) /\ UNCHANGED <<exp, calls, gateVars>>)
  /\ \A b \in Boxes : WF_vars(TimeOut(b))

FairSpec == Spec /\ Fairness

-----------------------------------------------------------------------------
(* Properties.                                                             *)

\* Every variable has its type: rows, calls, and the files of the gateways.
GTypeOK ==
  /\ box \in [Boxes -> Box] /\ bound \subseteq Boxes /\ task \in [Experiments -> Task]
  /\ exp \in [Experiments -> ExpStatuses]
  /\ calls \subseteq Call
  /\ up \subseteq Boxes /\ lost \subseteq Experiments
  /\ local \in [Boxes -> [Experiments -> LocalTask]]
  /\ exec \in [Boxes -> [Experiments -> Phases]]
  /\ stop \in [Boxes -> SUBSET Experiments]
  /\ sync \in [Boxes -> Experiments \cup {NoExp}]

Before == [preparing |-> "queued", running |-> "preparing", uploading |-> "running",
           processing_result |-> "uploading"]

\* While a box holds a task, its experiment is in the same phase or in the one
\* before, or was cancelled: the observer may be late by one report, whatever
\* calls fail, are given up or are repeated, because a report leaves the queue
\* of the gateway only when both transactions have committed.
ExperimentFollowsTask ==
  \A e \in Experiments : task[e].status \in Held =>
    exp[e] \in {task[e].status, Before[task[e].status], "canceled", "archived"}

\* A task that a box holds and nobody cancelled is in the file of its gateway,
\* through crashes, refused calls and clean-ups, unless the answer to its claim
\* never arrived: a finished run is not forgotten before Core has its outcome.
WorkIsNotForgotten ==
  \A e \in Experiments : task[e].status \in OnBox /\ ~task[e].cancel =>
    e \in lost \/ local[task[e].box][e].known

\* The next report of a gateway is one Core accepts, also after crashes and
\* repeated deliveries, so the queue never blocks; unless the gateway ended
\* between recording the start of the runtime and queueing "running".
ReportsAreAccepted ==
  \A b \in Boxes, e \in Experiments :
    LET l == local[b][e] IN
    l.pend # <<>> /\ ~l.skipped => Reportable(task[e].status, Head(l.pend))

\* A task is failed for the absence of its box only when the box has been
\* silent without a break for the whole time: no heartbeat in between.
TimeoutMeansSilence ==
  [][\A e \in Experiments : task[e].code # "timeout" /\ task'[e].code = "timeout" =>
       box[task[e].box].silent >= StaleAfter + OfflineLimit]_vars

Order == <<"absent", "created", "queued", "preparing", "running", "uploading",
           "processing_result">>
Position(status) == {i \in 1..7 : Order[i] = status}

\* What may become of a status: a later phase, an outcome, which is final.
Onward(from, to) ==
  \/ from = to
  \/ from \notin Terminal /\ to \in Outcomes
  \/ from \in Outcomes /\ to = "archived"
  \/ \E i \in Position(from), k \in Position(to) : i < k

\* Tasks and experiments never go back to an earlier phase and an outcome is
\* final, although reports are delivered twice, late, after a timeout or a
\* revocation, and out of order.
ProgressIsMonotone ==
  [][\A e \in Experiments :
       Onward(task[e].status, task'[e].status) /\ Onward(exp[e], exp'[e])]_vars

\* The tasks of a box whose gateway is down for good end, whatever state the
\* gateway left them in.
AbandonedWorkEnds ==
  \A b \in Boxes :
    <>[](b \notin up /\ box[b].status \in {"online", "offline"}) => <>[](TasksOf(b, OnBox) = {})
=============================================================================
