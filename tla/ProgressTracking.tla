-------------------------- MODULE ProgressTracking --------------------------
(***************************************************************************)
(* Automatic Progress tracking of one project                              *)
(* (backend/internal/progress/tracking*.go) on top of the Job queue.       *)
(* Events and people ask for an evaluation; the tracking processor of a    *)
(* Core process turns the request into an evaluation with a job; the job   *)
(* hooks carry the outcome of the job back into the evaluation.  The       *)
(* semantic input of an evaluation is abstracted to the number of changes  *)
(* made to the project, its input_version.                                 *)
(***************************************************************************)
EXTENDS JobQueue

CONSTANTS
  Requests,       \* identifiers of evaluation requests
  Processors,     \* tracking processors, each with an owner of its own
  NoRequest, NoProcessor, NoEvaluation,
  MaxChanges,     \* bound: changes made to the project
  Postponements,  \* debounce of an event, lengthened by the minimum interval
  MinInterval,    \* what may be left of the minimum interval otherwise
  AssemblyLease,
  RetryDelay,
  Prompt          \* processors finish an assembly before its lease ends

ASSUME ProgressConstants ==
  /\ NoRequest \notin Requests
  /\ NoProcessor \notin Processors
  /\ NoEvaluation \notin Jobs
  /\ MaxChanges \in Nat
  /\ Postponements \subseteq Nat
  /\ MinInterval \subseteq Nat
  /\ AssemblyLease \in Nat \ {0}
  /\ RetryDelay \in Nat
  /\ Prompt \in BOOLEAN
  /\ 0 \in Delays        \* the job of an evaluation is available at once

VARIABLES
  changes,     \* how often the project has changed: its current input_version
  request,     \* progress_evaluation_requests with their triggers
  evaluation,  \* progress_evaluations, named by their job
  tracker,     \* progress_tracker_state: last_evaluation_id
  processor    \* what each tracking processor is doing

domainVars == <<changes, request, evaluation, tracker, processor>>
progressVars == <<job, logs, announced, changes, request, evaluation, tracker, processor>>

-----------------------------------------------------------------------------
Open == {"pending", "assembling"}
Active == {"queued", "running"}
Changes == 1..MaxChanges

\* assembled is history: the triggers of the request when its input was read.
Request == [status : Open \cup {"absent", "queued", "merged"}, scheduledIn : Nat,
            leaseIn : Timer, leaseOwner : Processors \cup {NoProcessor},
            force : BOOLEAN, triggers : SUBSET Changes, assembled : SUBSET Changes,
            mergedInto : Jobs \cup {NoEvaluation}]

Evaluation == [status : Active \cup {"absent", "succeeded", "failed"},
               input : 0..MaxChanges, request : Requests \cup {NoRequest},
               sources : SUBSET Changes]

\* force is what RequestClaim carries: the flag as it was when claimed.
Process == [phase : {"idle", "assemble", "finalize", "release", "dead"},
            request : Requests \cup {NoRequest}, force : BOOLEAN,
            input : 0..MaxChanges, seen : SUBSET Changes]

At(phase) ==
  [phase |-> phase, request |-> NoRequest, force |-> FALSE, input |-> 0, seen |-> {}]

NewRequest(status, delay, force, triggers) ==
  [status |-> status, scheduledIn |-> delay, leaseIn |-> Off,
   leaseOwner |-> NoProcessor, force |-> force, triggers |-> triggers,
   assembled |-> {}, mergedInto |-> NoEvaluation]

PInit ==
  /\ Init
  /\ changes = 0
  /\ request = [r \in Requests |-> NewRequest("absent", 0, FALSE, {})]
  /\ evaluation = [j \in Jobs |-> [status |-> "absent", input |-> 0,
                                   request |-> NoRequest, sources |-> {}]]
  /\ tracker = NoEvaluation
  /\ processor = [p \in Processors |-> At("idle")]

Goto(p, s) == processor' = [processor EXCEPT ![p] = s]

\* Mutant of Reconciled: a job that waits for its retry counts as ended.
ReconciledWaiting ==
  [j \in Jobs |-> IF evaluation[j].status \in Active /\ job[j].status # "running"
                  THEN [evaluation[j] EXCEPT !.status = "failed"] ELSE evaluation[j]]

\* reconcileTerminalEvaluationJobs: the job ended without a hook being called.
Reconciled ==
  [j \in Jobs |-> IF evaluation[j].status \in Active /\ job[j].status \in Terminal
                  THEN [evaluation[j] EXCEPT !.status = "failed"] ELSE evaluation[j]]

-----------------------------------------------------------------------------
(* ScheduleRequest                                                         *)

Sooner(a, b) == IF a < b THEN a ELSE b
Later(a, b) == IF a < b THEN b ELSE a

\* There is at most one open request; a new one is opened only without it.
MergeOrOpen(delay, byEvent, force, triggers) ==
  \/ \E r \in Requests :
       /\ request[r].status \in Open
       /\ request' = [request EXCEPT
            ![r].scheduledIn = IF byEvent THEN Later(@, delay) ELSE Sooner(@, delay),
            ![r].force = @ \/ force,
            ![r].triggers = @ \cup triggers]
  \/ /\ \A r \in Requests : request[r].status \notin Open
     /\ \E r \in Requests :
          /\ request[r].status = "absent"
          /\ request' = [request EXCEPT ![r] = NewRequest("pending", delay, force, triggers)]

Schedule(delay, byEvent, force, triggers) ==
  /\ evaluation' = Reconciled
  /\ MergeOrOpen(delay, byEvent, force, triggers)
  /\ UNCHANGED <<vars, changes, tracker, processor>>

Known(n) == \E r \in Requests : n \in request[r].triggers

\* ScheduleEvent, called by the outbox consumer: at least once for each change.
ScheduleEvent(n) ==
  /\ n \in 1..changes
  /\ IF Known(n)
     THEN evaluation' = Reconciled
          /\ UNCHANGED <<vars, changes, request, tracker, processor>>
     ELSE \E delay \in Postponements : Schedule(delay, TRUE, FALSE, {n})

\* A manual request joins an evaluation that is still active.
Recalculate(force) ==
  IF \E j \in Jobs : Reconciled[j].status \in Active
  THEN evaluation' = Reconciled
       /\ UNCHANGED <<vars, changes, request, tracker, processor>>
  ELSE \E delay \in IF force THEN {0} ELSE MinInterval : Schedule(delay, FALSE, force, {})

RetryEvaluation(j) ==
  /\ evaluation[j].status = "failed"
  /\ Schedule(0, FALSE, TRUE, {})

ScheduleCron == \E delay \in MinInterval : Schedule(delay, FALSE, FALSE, {})

-----------------------------------------------------------------------------
(* DispatchOnce: ClaimRequest, assembly, FinalizeRequest, ReleaseRequest   *)

Reopened(r, delay) ==
  [r EXCEPT !.status = "pending", !.scheduledIn = delay, !.leaseIn = Off,
            !.leaseOwner = NoProcessor]

\* Mutant of SweptRequest: an expired assembly stays.
SweptRequestNever(r) == r

SweptRequest(r) == IF r.status = "assembling" /\ r.leaseIn = 0 THEN Reopened(r, 0) ELSE r

SweptRequests == [r \in Requests |-> SweptRequest(request[r])]

ClaimRequest(p) ==
  /\ processor[p].phase = "idle"
  /\ \E r \in Requests :
       /\ SweptRequests[r].status = "pending" /\ SweptRequests[r].scheduledIn = 0
       /\ request' = [SweptRequests EXCEPT ![r].status = "assembling",
                        ![r].leaseIn = AssemblyLease, ![r].leaseOwner = p]
       /\ Goto(p, [At("assemble") EXCEPT !.request = r, !.force = request[r].force])
  /\ UNCHANGED <<vars, changes, evaluation, tracker>>

ClaimNoRequest(p) ==
  /\ processor[p].phase = "idle"
  /\ request' = SweptRequests
  /\ UNCHANGED <<vars, changes, evaluation, tracker, processor>>

Assemble(p) ==
  /\ processor[p].phase = "assemble"
  /\ Goto(p, [processor[p] EXCEPT !.phase = "finalize", !.input = changes,
                                  !.seen = request[processor[p].request].triggers])
  /\ UNCHANGED <<vars, changes, request, evaluation, tracker>>

Owns(p) == LET r == processor[p].request IN
  request[r].status = "assembling" /\ request[r].leaseOwner = p

Closed(r, status, into, seen) ==
  [r EXCEPT !.status = status, !.leaseIn = Off, !.leaseOwner = NoProcessor,
            !.mergedInto = into, !.assembled = seen]

\* Mutant of Same: the input is not compared.
SameAnyInput(input, force) ==
  {j \in Jobs : \/ Reconciled[j].status \in Active
                \/ Reconciled[j].status = "succeeded" /\ ~force}

\* Mutant of Same: active evaluations are not looked for.
SameSucceeded(input, force) ==
  {j \in Jobs : Reconciled[j].input = input /\ Reconciled[j].status = "succeeded" /\ ~force}

\* Evaluations of the same input that make a new one superfluous.
Same(input, force) ==
  {j \in Jobs : /\ Reconciled[j].input = input
                /\ \/ Reconciled[j].status \in Active
                   \/ Reconciled[j].status = "succeeded" /\ ~force}

FinalizeRequest(p) ==
  LET r == processor[p].request
      input == processor[p].input
      seen == processor[p].seen
      same == Same(input, processor[p].force)
  IN
  /\ processor[p].phase = "finalize"
  /\ Owns(p)
  /\ \/ \E j \in same :
          /\ request' = [request EXCEPT ![r] = Closed(@, "merged", j, seen)]
          /\ evaluation' = Reconciled
          /\ UNCHANGED vars
     \/ /\ same = {}
        /\ \E j \in Jobs, max \in AttemptLimits :
             /\ Create(j, NoKey, max, 0)
             /\ evaluation' = [Reconciled EXCEPT ![j] =
                  [status |-> "queued", input |-> input, request |-> r,
                   sources |-> request[r].triggers]]
        /\ request' = [request EXCEPT ![r] = Closed(@, "queued", NoEvaluation, seen)]
  /\ Goto(p, At("idle"))
  /\ UNCHANGED <<changes, tracker>>

\* Assembly or finalization fails, or the request is not p's any more.
Give(p) ==
  /\ processor[p].phase \in {"assemble", "finalize"}
  /\ Goto(p, [processor[p] EXCEPT !.phase = "release"])
  /\ UNCHANGED <<vars, changes, request, evaluation, tracker>>

ReleaseRequest(p) ==
  /\ processor[p].phase = "release"
  /\ request' = IF Owns(p) THEN [request EXCEPT ![processor[p].request] = Reopened(@, RetryDelay)]
                ELSE request
  /\ Goto(p, At("idle"))
  /\ UNCHANGED <<vars, changes, evaluation, tracker>>

Crash(p) ==
  /\ \E q \in Processors \ {p} : processor[q].phase # "dead"
  /\ Goto(p, At("dead"))
  /\ UNCHANGED <<vars, changes, request, evaluation, tracker>>

-----------------------------------------------------------------------------
(* The hooks, in the transaction of the job; an error rolls both back.     *)

ClaimEvaluation(w, j, lease) ==
  /\ ClaimJob(w, j, lease)
  /\ evaluation[j].status \in Active
  /\ evaluation' = [evaluation EXCEPT ![j].status = "running"]
  /\ UNCHANGED <<changes, request, tracker, processor>>

\* The status of the job is not looked at: the result is applied.
CompleteEvaluation(w, j) ==
  /\ Complete(w, j)
  /\ evaluation' = [evaluation EXCEPT ![j].status = "succeeded"]
  /\ tracker' = j
  /\ UNCHANGED <<changes, request, processor>>

\* Mutant of FailEvaluation: a retryable failure ends the evaluation.
FailEvaluationFinally(w, j, retryable, delay) ==
  /\ Fail(w, j, retryable, delay)
  /\ evaluation' = [evaluation EXCEPT ![j].status = "failed"]
  /\ UNCHANGED <<changes, request, tracker, processor>>

FailEvaluation(w, j, retryable, delay) ==
  /\ Fail(w, j, retryable, delay)
  /\ evaluation' = [evaluation EXCEPT ![j].status =
                      IF job'[j].status = "queued" THEN "queued" ELSE "failed"]
  /\ UNCHANGED <<changes, request, tracker, processor>>

\* Operations of the queue that call no hook.
QueueOnly ==
  /\ \/ ClaimNone
     \/ \E j \in Jobs : Get(j) \/ Cancel(j) \/ CancelDuringRecovery(j)
     \/ \E w \in Workers, j \in Jobs, lease \in LeaseTerms : Renew(w, j, lease)
  /\ UNCHANGED domainVars

-----------------------------------------------------------------------------
\* A module of the project commits a change and writes its event.
Change ==
  /\ changes < MaxChanges
  /\ changes' = changes + 1
  /\ UNCHANGED <<vars, request, evaluation, tracker, processor>>

AgedRequest(r) ==
  [r EXCEPT !.scheduledIn = Elapse(@), !.leaseIn = Elapse(@)]

TimePasses ==
  /\ Prompt => \A p \in Processors :
       processor[p].phase \in {"assemble", "finalize"} =>
         request[processor[p].request].leaseIn # 1
  /\ Tick
  /\ request' = [r \in Requests |-> IF request[r].status \in Open
                                    THEN AgedRequest(request[r]) ELSE request[r]]
  /\ UNCHANGED <<changes, evaluation, tracker, processor>>

Dispatch(p) ==
  \/ ClaimRequest(p) \/ ClaimNoRequest(p) \/ Assemble(p)
  \/ FinalizeRequest(p) \/ Give(p) \/ ReleaseRequest(p)

PNext ==
  \/ Change
  \/ \E n \in Changes : ScheduleEvent(n)
  \/ \E force \in BOOLEAN : Recalculate(force)
  \/ \E j \in Jobs : RetryEvaluation(j)
  \/ ScheduleCron
  \/ \E p \in Processors : Dispatch(p) \/ Crash(p)
  \/ \E w \in Workers, j \in Jobs, lease \in LeaseTerms : ClaimEvaluation(w, j, lease)
  \/ \E w \in Workers, j \in Jobs : CompleteEvaluation(w, j)
  \/ \E w \in Workers, j \in Jobs, retryable \in BOOLEAN, delay \in Delays :
        FailEvaluation(w, j, retryable, delay)
  \/ QueueOnly
  \/ TimePasses

PSpec == PInit /\ [][PNext]_progressVars

-----------------------------------------------------------------------------
\* Every variable has its type.
PTypeOK ==
  /\ changes \in 0..MaxChanges
  /\ request \in [Requests -> Request]
  /\ evaluation \in [Jobs -> Evaluation]
  /\ tracker \in Jobs \cup {NoEvaluation}
  /\ processor \in [Processors -> Process]

\* A job that waits for a worker can be claimed: the hook of the claim finds
\* its evaluation active.  Otherwise the claim of that job would be rolled
\* back at every poll, and the jobs behind it would starve.
ClaimIsAccepted ==
  \A j \in Jobs : job[j].status = "queued" => evaluation[j].status \in Active

\* An evaluation that has ended stays ended, and its job does not run again:
\* reconciliation never fails an evaluation that a retry could still finish.
EndedEvaluationHasEndedJob ==
  \A j \in Jobs : evaluation[j].status \in {"succeeded", "failed"} =>
    job[j].status \in Terminal

\* An evaluation whose input includes what the request knew when it was assembled.
Covers(j, r) ==
  evaluation[j].status # "absent" /\ \A n \in request[r].assembled : n <= evaluation[j].input

\* Where triggers go: an event that was delivered belongs to one request.  The
\* evaluation of a closed request, its own one, which names all its triggers, or
\* the one it was merged into, has an input that includes every change of which
\* the request knew when that input was read.  A trigger that joins the
\* request after that is recorded with it, and nothing more is promised of it.
TriggersAnswered ==
  \A r \in Requests :
    /\ \A s \in Requests : request[r].triggers \cap request[s].triggers # {} => r = s
    /\ request[r].assembled \subseteq request[r].triggers
    /\ request[r].status = "queued" =>
         \E j \in Jobs : /\ evaluation[j].request = r /\ Covers(j, r)
                         /\ evaluation[j].sources = request[r].triggers
    /\ request[r].status = "merged" => Covers(request[r].mergedInto, r)

\* One evaluation per input is active at a time, and one request is open.
NoDuplicateWork ==
  /\ \A j, k \in Jobs :
       /\ evaluation[j].status \in Active /\ evaluation[k].status \in Active
       /\ evaluation[j].input = evaluation[k].input
       => j = k
  /\ \A r, s \in Requests : request[r].status \in Open /\ request[s].status \in Open => r = s

\* Processors poll, assembly succeeds when it is retried for ever, time passes.
PFairness ==
  /\ WF_progressVars(TimePasses)
  /\ \A p \in Processors :
       /\ WF_progressVars(Assemble(p) \/ Give(p)) /\ WF_progressVars(ReleaseRequest(p))
       /\ SF_progressVars(ClaimRequest(p)) /\ SF_progressVars(Assemble(p))
       /\ SF_progressVars(FinalizeRequest(p))

PFairSpec == PSpec /\ PFairness

\* A request is always settled, although processors crash during assembly.
RequestsAreSettled ==
  \A r \in Requests : request[r].status = "pending" ~> request[r].status \in {"queued", "merged"}
=============================================================================
