-------------------------- MODULE JobOwnersProofs --------------------------
(***************************************************************************)
(* Proofs about the two modules whose rows live and end with a job:        *)
(* ProgressTracking, for any number of requests, evaluations, processors   *)
(* and changes, and ArticleBuild, for any number of builds, workers and    *)
(* publications.  What a step of the queue may do to a row of theirs comes *)
(* from JobQueueProofs (Stays).                                            *)
(***************************************************************************)
EXTENDS ProgressTracking, ArticleBuild, JobQueueProofs

-----------------------------------------------------------------------------
(* ProgressTracking.  Every step is of one of three kinds: it keeps        *)
(* requests and evaluations but for their progress, it opens or extends a  *)
(* request, or it finalizes one (StepKinds).                               *)

\* A processor that is not idle has a request in hand.
Held == {"assemble", "finalize", "release"}

Typed ==
  /\ PTypeOK
  /\ \A p \in Processors : processor[p].phase \in Held => processor[p].request \in Requests

\* An evaluation exists with its job, and is active as long as its job is live.
Linked(e, r) ==
  /\ e.status = "absent" <=> r.status = "absent"
  /\ r.status \in Live => e.status \in Active

JobsLinked == \A j \in Jobs : Linked(evaluation[j], job[j])

TrackingInv == QueueInv /\ Typed /\ JobsLinked

\* What may happen to an evaluation and to a request beside their creation
\* and their end: nothing that the properties below look at.
Keeps(e, f) ==
  /\ f.input = e.input /\ f.request = e.request /\ f.sources = e.sources
  /\ f.status = "absent" <=> e.status = "absent"
  /\ f.status \in Active => e.status \in Active

EvaluationsKept ==
  /\ evaluation' \in [Jobs -> Evaluation]
  /\ \A j \in Jobs : Keeps(evaluation[j], evaluation'[j])

Shuffled(q, n) ==
  /\ n.triggers = q.triggers /\ n.assembled = q.assembled /\ n.mergedInto = q.mergedInto
  /\ n.status = q.status \/ (n.status \in Open /\ q.status \in Open)

RequestsShuffled ==
  /\ request' \in [Requests -> Request]
  /\ \A r \in Requests : Shuffled(request[r], request'[r])

\* A request is opened or extended by no trigger or by a new one.
RequestExtended ==
  \E delay \in Nat, byEvent \in BOOLEAN, force \in BOOLEAN, triggers \in SUBSET Changes :
    /\ \A n \in triggers : ~Known(n) /\ n <= changes
    /\ MergeOrOpen(delay, byEvent, force, triggers)

\* Changes are never taken back, and a processor that is about to finalize
\* read the input and the triggers of its request in one step.
Advances ==
  /\ changes <= changes'
  /\ \A p \in Processors : processor'[p].phase = "finalize" =>
       \/ processor'[p] = processor[p]
       \/ /\ processor'[p].input = changes
          /\ processor'[p].seen = request[processor'[p].request].triggers

KindOfStep ==
  \/ EvaluationsKept /\ RequestsShuffled
  \/ EvaluationsKept /\ RequestExtended
  \/ \E p \in Processors : FinalizeRequest(p)

\* What is to be shown of each action.
Fine ==
  /\ [Next]_vars
  /\ Typed'
  /\ JobsLinked'
  /\ Advances
  /\ KindOfStep

-----------------------------------------------------------------------------
(* Reconciliation.                                                         *)

LEMMA ReconciledKeeps ==
  ASSUME TrackingInv
  PROVE  /\ Reconciled \in [Jobs -> Evaluation]
         /\ \A j \in Jobs : /\ Keeps(evaluation[j], Reconciled[j])
                            /\ Linked(Reconciled[j], job[j])
<1> SUFFICES ASSUME NEW j \in Jobs
             PROVE  /\ Reconciled[j] \in Evaluation
                    /\ Keeps(evaluation[j], Reconciled[j])
                    /\ Linked(Reconciled[j], job[j])
  BY DEF Reconciled
<1>1. evaluation[j] \in Evaluation /\ Linked(evaluation[j], job[j])
  BY DEF TrackingInv, Typed, PTypeOK, JobsLinked
<1>2. CASE evaluation[j].status \in Active /\ job[j].status \in Terminal
  <2>1. Reconciled[j] = [evaluation[j] EXCEPT !.status = "failed"]
    BY <1>2 DEF Reconciled
  <2> QED BY <1>1, <1>2, <2>1 DEF Evaluation, Keeps, Linked, Active, Live, Terminal
<1>3. CASE ~(evaluation[j].status \in Active /\ job[j].status \in Terminal)
  <2>1. Reconciled[j] = evaluation[j]
    BY <1>3 DEF Reconciled
  <2> QED BY <1>1, <2>1 DEF Keeps
<1> QED BY <1>2, <1>3

LEMMA SameKeeps ==
  ASSUME TrackingInv, UNCHANGED evaluation
  PROVE  EvaluationsKept
BY DEF TrackingInv, Typed, PTypeOK, EvaluationsKept, Keeps

LEMMA SameShuffled ==
  ASSUME TrackingInv, UNCHANGED request
  PROVE  RequestsShuffled
BY DEF TrackingInv, Typed, PTypeOK, RequestsShuffled, Shuffled

LEMMA SameAdvances ==
  ASSUME TrackingInv, UNCHANGED <<changes, processor>>
  PROVE  Advances
BY ProgressConstants DEF TrackingInv, Typed, PTypeOK, Advances

\* A step without the queue, and one that only touches what calls no hook.
LEMMA LinkedKept ==
  ASSUME TrackingInv, UNCHANGED evaluation, Unhooked
  PROVE  JobsLinked'
<1> SUFFICES ASSUME NEW j \in Jobs PROVE Linked(evaluation[j], job'[j])
  BY DEF JobsLinked
<1>1. Stays(job[j], job'[j])
  BY UnhookedStays DEF TrackingInv
<1> QED BY <1>1 DEF TrackingInv, JobsLinked, Linked, Stays

LEMMA LinkedReconciled ==
  ASSUME TrackingInv, evaluation' = Reconciled, UNCHANGED vars
  PROVE  JobsLinked' /\ EvaluationsKept /\ [Next]_vars
BY ReconciledKeeps DEF JobsLinked, EvaluationsKept, vars

-----------------------------------------------------------------------------
(* The ways a request comes about.                                         *)

LEMMA MergedTyped ==
  ASSUME TrackingInv, NEW delay \in Nat, NEW byEvent \in BOOLEAN, NEW force \in BOOLEAN,
         NEW triggers \in SUBSET Changes, MergeOrOpen(delay, byEvent, force, triggers)
  PROVE  request' \in [Requests -> Request]
<1>0. request \in [Requests -> Request]
  BY DEF TrackingInv, Typed, PTypeOK
<1>1. ASSUME NEW r \in Requests,
             request' = [request EXCEPT
               ![r].scheduledIn = IF byEvent THEN Later(@, delay) ELSE Sooner(@, delay),
               ![r].force = @ \/ force,
               ![r].triggers = @ \cup triggers]
      PROVE  request' \in [Requests -> Request]
  <2> DEFINE at == IF byEvent THEN Later(request[r].scheduledIn, delay)
                              ELSE Sooner(request[r].scheduledIn, delay)
  <2>1. request[r] \in Request /\ at \in Nat
    BY <1>0 DEF Request, Later, Sooner
  <2>2. (request[r].force \/ force) \in BOOLEAN
    OBVIOUS
  <2> DEFINE forced == request[r].force \/ force
  <2>3. request' = [request EXCEPT ![r] = [request[r] EXCEPT
           !.scheduledIn = at, !.force = forced, !.triggers = request[r].triggers \cup triggers]]
    BY <1>0, <1>1
  <2> HIDE DEF at, forced
  <2>4. [request[r] EXCEPT !.scheduledIn = at, !.force = forced,
           !.triggers = request[r].triggers \cup triggers] \in Request
    BY <2>1, <2>2 DEF Request, forced
  <2> QED BY <1>0, <2>3, <2>4
<1>2. ASSUME NEW r \in Requests,
             request' = [request EXCEPT ![r] = NewRequest("pending", delay, force, triggers)]
      PROVE  request' \in [Requests -> Request]
  <2>1. NewRequest("pending", delay, force, triggers) \in Request
    BY DEF NewRequest, Request, Open, Timer, Off
  <2> QED BY <1>0, <1>2, <2>1
<1> QED BY <1>1, <1>2 DEF MergeOrOpen

LEMMA ScheduleFine ==
  ASSUME TrackingInv, NEW delay \in Nat, NEW byEvent \in BOOLEAN, NEW force \in BOOLEAN,
         NEW triggers \in SUBSET Changes, \A n \in triggers : ~Known(n) /\ n <= changes,
         Schedule(delay, byEvent, force, triggers)
  PROVE  Fine
<1>1. evaluation' = Reconciled /\ UNCHANGED <<vars, changes, tracker, processor>>
  BY DEF Schedule
<1>2. JobsLinked' /\ EvaluationsKept /\ [Next]_vars
  BY <1>1, LinkedReconciled
<1>3. MergeOrOpen(delay, byEvent, force, triggers)
  BY DEF Schedule
<1>4. request' \in [Requests -> Request]
  BY <1>3, MergedTyped
<1>5. Typed'
  BY <1>1, <1>2, <1>4 DEF TrackingInv, Typed, PTypeOK, EvaluationsKept
<1>6. RequestExtended
  BY <1>3 DEF RequestExtended
<1> QED BY <1>1, <1>2, <1>5, <1>6, SameAdvances DEF Fine, KindOfStep

LEMMA ReconcileFine ==
  ASSUME TrackingInv, evaluation' = Reconciled,
         UNCHANGED <<vars, changes, request, tracker, processor>>
  PROVE  Fine
<1>1. JobsLinked' /\ EvaluationsKept /\ [Next]_vars
  BY LinkedReconciled
<1>2. RequestsShuffled
  BY SameShuffled
<1>3. Typed'
  BY <1>1 DEF TrackingInv, Typed, PTypeOK, EvaluationsKept
<1> QED BY <1>1, <1>2, <1>3, SameAdvances DEF Fine, KindOfStep

LEMMA ScheduleEventFine ==
  ASSUME TrackingInv, NEW n \in Changes, ScheduleEvent(n)
  PROVE  Fine
<1>1. CASE Known(n)
  BY <1>1, ReconcileFine DEF ScheduleEvent
<1>2. CASE ~Known(n)
  <2>1. PICK delay \in Postponements : Schedule(delay, TRUE, FALSE, {n})
    BY <1>2 DEF ScheduleEvent
  <2>2. delay \in Nat /\ {n} \in SUBSET Changes /\ n <= changes
    BY ProgressConstants DEF ScheduleEvent, TrackingInv, Typed, PTypeOK
  <2> QED BY <1>2, <2>1, <2>2, ScheduleFine
<1> QED BY <1>1, <1>2

LEMMA AskedFine ==
  ASSUME TrackingInv, NEW delay \in Nat, NEW force \in BOOLEAN,
         Schedule(delay, FALSE, force, {})
  PROVE  Fine
<1>1. {} \in SUBSET Changes /\ FALSE \in BOOLEAN /\ \A n \in {} : ~Known(n) /\ n <= changes
  OBVIOUS
<1> QED BY <1>1, ScheduleFine

LEMMA RecalculateFine ==
  ASSUME TrackingInv, NEW force \in BOOLEAN, Recalculate(force)
  PROVE  Fine
<1>1. CASE \E j \in Jobs : Reconciled[j].status \in Active
  BY <1>1, ReconcileFine DEF Recalculate
<1>2. CASE ~\E j \in Jobs : Reconciled[j].status \in Active
  <2>1. PICK delay \in IF force THEN {0} ELSE MinInterval : Schedule(delay, FALSE, force, {})
    BY <1>2 DEF Recalculate
  <2>2. delay \in Nat
    BY ProgressConstants
  <2> QED BY <2>1, <2>2, AskedFine
<1> QED BY <1>1, <1>2

LEMMA RetryEvaluationFine ==
  ASSUME TrackingInv, NEW j \in Jobs, RetryEvaluation(j)
  PROVE  Fine
BY AskedFine DEF RetryEvaluation

LEMMA ScheduleCronFine ==
  ASSUME TrackingInv, ScheduleCron
  PROVE  Fine
BY AskedFine, ProgressConstants DEF ScheduleCron

-----------------------------------------------------------------------------
(* The processors.                                                         *)

\* A step of a processor that may rearrange requests, and nothing else.
LEMMA DispatchFine ==
  ASSUME TrackingInv, RequestsShuffled,
         processor' \in [Processors -> Process],
         \A p \in Processors : processor'[p].phase \in Held => processor'[p].request \in Requests,
         Advances, UNCHANGED <<vars, changes, evaluation, tracker>>
  PROVE  Fine
<1>1. EvaluationsKept
  BY SameKeeps
<1>2. Unhooked /\ [Next]_vars
  BY DEF Unhooked, vars
<1>3. JobsLinked'
  BY <1>2, LinkedKept
<1>4. Typed'
  BY DEF TrackingInv, Typed, PTypeOK, RequestsShuffled
<1> QED BY <1>1, <1>2, <1>3, <1>4 DEF Fine, KindOfStep

LEMMA GotoTyped ==
  ASSUME TrackingInv, NEW p \in Processors, NEW s \in Process, Goto(p, s),
         s.phase \in Held => s.request \in Requests,
         s.phase = "finalize" =>
           s.input = changes /\ s.seen = request[s.request].triggers,
         UNCHANGED changes
  PROVE  /\ processor' \in [Processors -> Process]
         /\ \A q \in Processors : processor'[q].phase \in Held => processor'[q].request \in Requests
         /\ Advances
<1>1. \A q \in Processors : processor'[q] = IF q = p THEN s ELSE processor[q]
  BY DEF TrackingInv, Typed, PTypeOK, Goto
<1>2. changes \in 0..MaxChanges
  BY DEF TrackingInv, Typed, PTypeOK
<1>3. Advances
  BY <1>1, <1>2, ProgressConstants DEF Advances
<1> QED BY <1>3 DEF TrackingInv, Typed, PTypeOK, Goto

LEMMA AtTyped ==
  ASSUME NEW phase \in {"idle", "dead"}
  PROVE  /\ At(phase) \in Process
         /\ At(phase).phase \notin Held /\ At(phase).phase # "finalize"
BY ProgressConstants DEF At, Process, Held

LEMMA AssemblingTyped ==
  ASSUME NEW r \in Requests, NEW f \in BOOLEAN
  PROVE  LET s == [At("assemble") EXCEPT !.request = r, !.force = f]
         IN  s \in Process /\ s.request \in Requests /\ s.phase # "finalize"
<1>1. At("assemble") \in Process
  BY ProgressConstants DEF At, Process
<1>2. At("assemble").phase = "assemble"
  BY DEF At
<1> QED BY <1>1, <1>2 DEF Process

LEMMA ReopenedTyped ==
  ASSUME NEW q \in Request, q.status \in Open, NEW delay \in Nat
  PROVE  Reopened(q, delay) \in Request /\ Shuffled(q, Reopened(q, delay))
BY ProgressConstants DEF Reopened, Request, Open, Timer, Off, Shuffled

LEMMA SweptTyped ==
  ASSUME TrackingInv
  PROVE  /\ SweptRequests \in [Requests -> Request]
         /\ \A r \in Requests : Shuffled(request[r], SweptRequests[r])
<1> SUFFICES ASSUME NEW r \in Requests
             PROVE  SweptRequest(request[r]) \in Request /\ Shuffled(request[r], SweptRequest(request[r]))
  BY DEF SweptRequests
<1>1. request[r] \in Request
  BY DEF TrackingInv, Typed, PTypeOK
<1>2. CASE request[r].status = "assembling" /\ request[r].leaseIn = 0
  BY <1>1, <1>2, ReopenedTyped DEF SweptRequest, Open
<1>3. CASE ~(request[r].status = "assembling" /\ request[r].leaseIn = 0)
  BY <1>1, <1>3 DEF SweptRequest, Shuffled
<1> QED BY <1>2, <1>3

LEMMA ClaimRequestFine ==
  ASSUME TrackingInv, NEW p \in Processors, ClaimRequest(p)
  PROVE  Fine
<1>1. PICK r \in Requests :
         /\ SweptRequests[r].status = "pending"
         /\ request' = [SweptRequests EXCEPT ![r].status = "assembling",
                          ![r].leaseIn = AssemblyLease, ![r].leaseOwner = p]
         /\ Goto(p, [At("assemble") EXCEPT !.request = r, !.force = request[r].force])
  BY DEF ClaimRequest
<1> DEFINE q == SweptRequests[r]
           n == [q EXCEPT !.status = "assembling", !.leaseIn = AssemblyLease, !.leaseOwner = p]
<1>2. q \in Request /\ Shuffled(request[r], q) /\ request[r] \in Request
  BY SweptTyped DEF TrackingInv, Typed, PTypeOK
<1>3. n \in Request /\ Shuffled(request[r], n)
  BY <1>1, <1>2, ProgressConstants DEF Request, Shuffled, Open, Timer
<1>4. request' = [SweptRequests EXCEPT ![r] = n]
  BY <1>1, SweptTyped
<1> HIDE DEF n, q
<1>5. RequestsShuffled
  BY <1>3, <1>4, SweptTyped DEF RequestsShuffled
<1> DEFINE f == request[r].force
           s == [At("assemble") EXCEPT !.request = r, !.force = f]
<1>6. f \in BOOLEAN /\ 0 \in 0..MaxChanges
  BY <1>2, ProgressConstants DEF Request
<1> HIDE DEF f
<1>7. s \in Process /\ s.request \in Requests /\ s.phase # "finalize"
  BY <1>6, AssemblingTyped
<1>8. Goto(p, s)
  BY <1>1 DEF f
<1> HIDE DEF s
<1> QED BY <1>5, <1>7, <1>8, GotoTyped, DispatchFine DEF ClaimRequest

LEMMA ClaimNoRequestFine ==
  ASSUME TrackingInv, NEW p \in Processors, ClaimNoRequest(p)
  PROVE  Fine
<1>1. RequestsShuffled
  BY SweptTyped DEF ClaimNoRequest, RequestsShuffled
<1>2. UNCHANGED <<vars, changes, evaluation, tracker, processor>>
  BY DEF ClaimNoRequest
<1> QED BY <1>1, <1>2, SameAdvances, DispatchFine DEF TrackingInv, Typed, PTypeOK

LEMMA AssembleFine ==
  ASSUME TrackingInv, NEW p \in Processors, Assemble(p)
  PROVE  Fine
<1> DEFINE triggers == request[processor[p].request].triggers
           s == [processor[p] EXCEPT !.phase = "finalize", !.input = changes, !.seen = triggers]
<1>1. processor[p] \in Process /\ processor[p].request \in Requests /\ changes \in 0..MaxChanges
  BY DEF Assemble, TrackingInv, Typed, PTypeOK, Held
<1>2. triggers \in SUBSET Changes
  BY <1>1 DEF TrackingInv, Typed, PTypeOK, Request
<1>4. /\ s \in Process /\ s.request = processor[p].request
      /\ s.input = changes /\ s.seen = triggers
  BY <1>1, <1>2 DEF Process
<1>3. Goto(p, s) /\ UNCHANGED <<vars, changes, request, evaluation, tracker>>
  BY DEF Assemble
<1> HIDE DEF s
<1> QED BY <1>1, <1>3, <1>4, SameShuffled, GotoTyped, DispatchFine

LEMMA GiveFine ==
  ASSUME TrackingInv, NEW p \in Processors, Give(p)
  PROVE  Fine
<1> DEFINE s == [processor[p] EXCEPT !.phase = "release"]
<1>1. processor[p] \in Process /\ processor[p].request \in Requests
  BY DEF Give, TrackingInv, Typed, PTypeOK, Held
<1>2. s \in Process /\ s.request \in Requests /\ s.phase # "finalize"
  BY <1>1 DEF Process
<1>3. Goto(p, s) /\ UNCHANGED <<vars, changes, request, evaluation, tracker>>
  BY DEF Give
<1> HIDE DEF s
<1> QED BY <1>2, <1>3, SameShuffled, GotoTyped, DispatchFine

LEMMA ReleaseRequestFine ==
  ASSUME TrackingInv, NEW p \in Processors, ReleaseRequest(p)
  PROVE  Fine
<1>1. Goto(p, At("idle")) /\ UNCHANGED <<vars, changes, evaluation, tracker>>
  BY DEF ReleaseRequest
<1> DEFINE r == processor[p].request
<1>2. r \in Requests
  BY DEF ReleaseRequest, TrackingInv, Typed, Held
<1> HIDE DEF r
<1>3. RequestsShuffled
  <2>1. CASE Owns(p)
    <3>1. request[r] \in Request /\ request[r].status \in Open
      BY <1>2, <2>1 DEF Owns, Open, TrackingInv, Typed, PTypeOK, r
    <3>2. request' = [request EXCEPT ![r] = Reopened(request[r], RetryDelay)]
      BY <2>1 DEF ReleaseRequest, r
    <3>3. Reopened(request[r], RetryDelay) \in Request
          /\ Shuffled(request[r], Reopened(request[r], RetryDelay))
      BY <3>1, ReopenedTyped, ProgressConstants
    <3> QED BY <1>2, <3>2, <3>3 DEF RequestsShuffled, TrackingInv, Typed, PTypeOK, Shuffled
  <2>2. CASE ~Owns(p)
    BY <2>2, SameShuffled DEF ReleaseRequest
  <2> QED BY <2>1, <2>2
<1> QED BY <1>1, <1>3, AtTyped, GotoTyped, DispatchFine

LEMMA CrashFine ==
  ASSUME TrackingInv, NEW p \in Processors, Crash(p)
  PROVE  Fine
<1>1. Goto(p, At("dead")) /\ UNCHANGED <<vars, changes, request, evaluation, tracker>>
  BY DEF Crash
<1> QED BY <1>1, AtTyped, SameShuffled, GotoTyped, DispatchFine

-----------------------------------------------------------------------------
(* The hooks.  The job moves and its evaluation with it.                   *)

LEMMA HookFine ==
  ASSUME TrackingInv, [Next]_vars, NEW j \in Jobs,
         NEW status \in {"queued", "running", "succeeded", "failed"},
         evaluation' = [evaluation EXCEPT ![j].status = status],
         evaluation[j].status \in Active,
         \A i \in Jobs : Stays(job[i], job'[i]),
         job'[j].status \in Live => status \in Active,
         tracker' \in {tracker, j},
         UNCHANGED <<changes, request, processor>>
  PROVE  Fine
<1>1. \A i \in Jobs : evaluation[i] \in Evaluation /\ Linked(evaluation[i], job[i])
  BY DEF TrackingInv, Typed, PTypeOK, JobsLinked
<1> DEFINE e == [evaluation[j] EXCEPT !.status = status]
<1>2. e \in Evaluation /\ Keeps(evaluation[j], e)
  BY <1>1 DEF Evaluation, Keeps, Active
<1>3. e.status = status
  BY <1>1 DEF Evaluation
<1>4. evaluation' = [evaluation EXCEPT ![j] = e]
  BY DEF TrackingInv, Typed, PTypeOK
<1> HIDE DEF e
<1>5. evaluation \in [Jobs -> Evaluation]
  BY DEF TrackingInv, Typed, PTypeOK
<1>6. evaluation'[j] = e /\ \A i \in Jobs \ {j} : evaluation'[i] = evaluation[i]
  BY <1>4, <1>5
<1>7. EvaluationsKept
  BY <1>2, <1>4, <1>5, <1>6 DEF EvaluationsKept, Keeps
<1>8. JobsLinked'
  <2> SUFFICES ASSUME NEW i \in Jobs PROVE Linked(evaluation'[i], job'[i])
    BY DEF JobsLinked
  <2>1. CASE i = j
    BY <1>1, <1>3, <1>6, <2>1 DEF Linked, Stays, Active
  <2>2. CASE i # j
    BY <1>1, <1>6, <2>2 DEF Linked, Stays
  <2> QED BY <2>1, <2>2
<1>9. Typed'
  BY <1>7 DEF TrackingInv, Typed, PTypeOK, EvaluationsKept
<1>10. RequestsShuffled
  BY SameShuffled
<1> QED BY <1>7, <1>8, <1>9, <1>10, SameAdvances DEF Fine, KindOfStep

LEMMA RunningIsActive ==
  ASSUME TrackingInv, NEW j \in Jobs, job[j].status = "running"
  PROVE  evaluation[j].status \in Active
BY DEF TrackingInv, JobsLinked, Linked, Live

LEMMA ClaimEvaluationFine ==
  ASSUME TrackingInv, NEW w \in Workers, NEW j \in Jobs, NEW lease \in LeaseTerms,
         ClaimEvaluation(w, j, lease)
  PROVE  Fine
<1>1. /\ ClaimJob(w, j, lease) /\ evaluation[j].status \in Active
      /\ evaluation' = [evaluation EXCEPT ![j].status = "running"]
      /\ UNCHANGED <<changes, request, tracker, processor>>
  BY DEF ClaimEvaluation
<1>2. [Next]_vars
  BY <1>1 DEF Next
<1>3. \A i \in Jobs : Stays(job[i], job'[i])
  BY <1>1, ClaimStays DEF TrackingInv
<1>4. "running" \in Active
  BY DEF Active
<1> QED BY <1>1, <1>2, <1>3, <1>4, HookFine

LEMMA CompleteEvaluationFine ==
  ASSUME TrackingInv, NEW w \in Workers, NEW j \in Jobs, CompleteEvaluation(w, j)
  PROVE  Fine
<1>1. /\ Complete(w, j)
      /\ evaluation' = [evaluation EXCEPT ![j].status = "succeeded"]
      /\ tracker' = j
      /\ UNCHANGED <<changes, request, processor>>
  BY DEF CompleteEvaluation
<1>2. [Next]_vars
  BY <1>1 DEF Next
<1>3. /\ \A i \in Jobs : Stays(job[i], job'[i])
      /\ job[j].status = "running" /\ job'[j].status \notin Live
  BY <1>1, CompleteStays DEF TrackingInv
<1> QED BY <1>1, <1>2, <1>3, RunningIsActive, HookFine

LEMMA FailEvaluationFine ==
  ASSUME TrackingInv, NEW w \in Workers, NEW j \in Jobs, NEW retryable \in BOOLEAN,
         NEW delay \in Delays, FailEvaluation(w, j, retryable, delay)
  PROVE  Fine
<1> DEFINE status == IF job'[j].status = "queued" THEN "queued" ELSE "failed"
<1>1. /\ Fail(w, j, retryable, delay)
      /\ evaluation' = [evaluation EXCEPT ![j].status = status]
      /\ UNCHANGED <<changes, request, tracker, processor>>
  BY DEF FailEvaluation
<1>2. [Next]_vars
  BY <1>1 DEF Next
<1>3. /\ \A i \in Jobs : Stays(job[i], job'[i])
      /\ job[j].status = "running" /\ job'[j].status # "running"
  BY <1>1, FailStays DEF TrackingInv
<1>4. status \in {"queued", "failed"} /\ (job'[j].status \in Live => status \in Active)
  BY <1>3 DEF Live, Active
<1> HIDE DEF status
<1> QED BY <1>1, <1>2, <1>3, <1>4, RunningIsActive, HookFine

LEMMA QueueOnlyFine ==
  ASSUME TrackingInv, QueueOnly
  PROVE  Fine
<1>1. Unhooked /\ UNCHANGED domainVars
  BY DEF QueueOnly, Unhooked
<1>2. JobsLinked' /\ EvaluationsKept /\ RequestsShuffled /\ [Next]_vars
  BY <1>1, LinkedKept, SameKeeps, SameShuffled, UnhookedIsNext DEF domainVars
<1>3. Typed'
  BY <1>1 DEF TrackingInv, Typed, PTypeOK, domainVars
<1> QED BY <1>1, <1>2, <1>3, SameAdvances DEF Fine, KindOfStep, domainVars

-----------------------------------------------------------------------------
(* A change, the passing of time, and no step at all.                      *)

LEMMA ChangeFine ==
  ASSUME TrackingInv, Change
  PROVE  Fine
<1>1. UNCHANGED <<vars, request, evaluation, tracker, processor>>
      /\ changes' \in 0..MaxChanges /\ changes <= changes'
  BY ProgressConstants DEF Change, TrackingInv, Typed, PTypeOK
<1>2. Unhooked
  BY <1>1 DEF Unhooked, vars
<1>3. JobsLinked' /\ EvaluationsKept /\ RequestsShuffled /\ [Next]_vars
  BY <1>1, <1>2, LinkedKept, SameKeeps, SameShuffled, UnhookedIsNext
<1>4. Typed'
  BY <1>1 DEF TrackingInv, Typed, PTypeOK
<1> QED BY <1>1, <1>3, <1>4 DEF Fine, KindOfStep, Advances

LEMMA AgedTyped ==
  ASSUME NEW q \in Request
  PROVE  AgedRequest(q) \in Request /\ Shuffled(q, AgedRequest(q))
<1> DEFINE at == Elapse(q.scheduledIn)
           until == Elapse(q.leaseIn)
<1>1. q.scheduledIn \in Nat /\ q.leaseIn \in Timer
  BY DEF Request
<1>2. at \in Nat /\ until \in Timer
  BY <1>1 DEF Elapse, Timer, Off
<1>3. AgedRequest(q) = [q EXCEPT !.scheduledIn = at, !.leaseIn = until]
  BY DEF AgedRequest
<1> HIDE DEF at, until
<1>4. AgedRequest(q) \in Request
  BY <1>2, <1>3 DEF Request
<1>5. Shuffled(q, AgedRequest(q))
  BY <1>3 DEF Request, Shuffled
<1> QED BY <1>4, <1>5

LEMMA TimePassesFine ==
  ASSUME TrackingInv, TimePasses
  PROVE  Fine
<1>1. Unhooked /\ UNCHANGED <<changes, evaluation, tracker, processor>>
  BY DEF TimePasses, Unhooked
<1>2. RequestsShuffled
  <2>1. request' = [r \in Requests |-> IF request[r].status \in Open
                                       THEN AgedRequest(request[r]) ELSE request[r]]
    BY DEF TimePasses
  <2>2. ASSUME NEW r \in Requests
        PROVE  request'[r] \in Request /\ Shuffled(request[r], request'[r])
    <3>1. request[r] \in Request
      BY DEF TrackingInv, Typed, PTypeOK
    <3>2. AgedRequest(request[r]) \in Request /\ Shuffled(request[r], AgedRequest(request[r]))
      BY <3>1, AgedTyped
    <3> QED BY <2>1, <3>1, <3>2 DEF Shuffled
  <2> QED BY <2>1, <2>2 DEF RequestsShuffled
<1>3. JobsLinked' /\ EvaluationsKept /\ [Next]_vars
  BY <1>1, LinkedKept, SameKeeps, UnhookedIsNext
<1>4. Typed'
  BY <1>1, <1>2 DEF TrackingInv, Typed, PTypeOK, RequestsShuffled
<1> QED BY <1>1, <1>2, <1>3, <1>4, SameAdvances DEF Fine, KindOfStep

LEMMA StutterFine ==
  ASSUME TrackingInv, UNCHANGED progressVars
  PROVE  Fine
<1>1. Unhooked
  BY DEF Unhooked, vars, progressVars
<1>2. JobsLinked' /\ EvaluationsKept /\ RequestsShuffled /\ [Next]_vars
  BY <1>1, LinkedKept, SameKeeps, SameShuffled, UnhookedIsNext DEF progressVars
<1>3. Typed'
  BY DEF TrackingInv, Typed, PTypeOK, progressVars
<1>4. Advances
  BY SameAdvances DEF progressVars
<1> QED BY <1>2, <1>3, <1>4 DEF Fine, KindOfStep

-----------------------------------------------------------------------------
(* Finalization: the only step that inserts an evaluation.                 *)

NewEvaluation(p) ==
  [status |-> "queued", input |-> processor[p].input, request |-> processor[p].request,
   sources |-> request[processor[p].request].triggers]

Merges(p) ==
  /\ \E j \in Same(processor[p].input, processor[p].force) :
       request' = [request EXCEPT
         ![processor[p].request] = Closed(@, "merged", j, processor[p].seen)]
  /\ evaluation' = Reconciled
  /\ UNCHANGED vars

Inserts(p, j) ==
  /\ Same(processor[p].input, processor[p].force) = {}
  /\ \E max \in AttemptLimits : Create(j, NoKey, max, 0)
  /\ evaluation' = [Reconciled EXCEPT ![j] = NewEvaluation(p)]
  /\ request' = [request EXCEPT
       ![processor[p].request] = Closed(@, "queued", NoEvaluation, processor[p].seen)]

LEMMA Finalizes ==
  ASSUME TrackingInv, NEW p \in Processors, FinalizeRequest(p)
  PROVE  /\ processor[p].request \in Requests /\ Owns(p) /\ processor[p].phase = "finalize"
         /\ Merges(p) \/ \E j \in Jobs : Inserts(p, j)
<1>1. processor[p].request \in Requests /\ Owns(p) /\ processor[p].phase = "finalize"
  BY DEF TrackingInv, Typed, Held, FinalizeRequest
<1>2. Merges(p) \/ \E j \in Jobs : Inserts(p, j)
  BY DEF FinalizeRequest, Merges, Inserts, NewEvaluation
<1> QED BY <1>1, <1>2

LEMMA InsertedEvaluation ==
  ASSUME TrackingInv, NEW p \in Processors, processor[p].request \in Requests,
         NEW j \in Jobs, Inserts(p, j)
  PROVE  /\ NewEvaluation(p) \in Evaluation
         /\ evaluation' \in [Jobs -> Evaluation]
         /\ evaluation'[j].status = "queued"
         /\ evaluation'[j].input = processor[p].input
         /\ evaluation'[j].request = processor[p].request
         /\ evaluation'[j].sources = request[processor[p].request].triggers
         /\ \A i \in Jobs \ {j} : evaluation'[i] = Reconciled[i]
         /\ evaluation[j].status = "absent"
         /\ job'[j].status = "queued"
         /\ \A i \in Jobs \ {j} : job'[i] = job[i]
<1>1. NewEvaluation(p) \in Evaluation
  <2>1. processor[p] \in Process /\ request[processor[p].request] \in Request
    BY DEF TrackingInv, Typed, PTypeOK
  <2>2. processor[p].input \in 0..MaxChanges /\ request[processor[p].request].triggers \in SUBSET Changes
    BY <2>1 DEF Process, Request
  <2> QED BY <2>2 DEF NewEvaluation, Evaluation, Active
<1>2. Reconciled \in [Jobs -> Evaluation]
  BY ReconciledKeeps
<1>3. PICK max \in AttemptLimits : Create(j, NoKey, max, 0)
  BY DEF Inserts
<1>4. job \in [Jobs -> Row]
  BY DEF TrackingInv, QueueInv
<1>5. job[j].status = "absent" /\ job'[j].status = "queued" /\ \A i \in Jobs \ {j} : job'[i] = job[i]
  BY <1>3, <1>4 DEF Create, NewRow
<1>6. evaluation[j].status = "absent"
  BY <1>5 DEF TrackingInv, JobsLinked, Linked
<1>7. /\ evaluation' \in [Jobs -> Evaluation]
      /\ evaluation'[j] = NewEvaluation(p)
      /\ \A i \in Jobs \ {j} : evaluation'[i] = Reconciled[i]
  BY <1>1, <1>2 DEF Inserts
<1>8. /\ evaluation'[j].status = "queued"
      /\ evaluation'[j].input = processor[p].input
      /\ evaluation'[j].request = processor[p].request
      /\ evaluation'[j].sources = request[processor[p].request].triggers
  BY <1>7 DEF NewEvaluation
<1> QED BY <1>1, <1>5, <1>6, <1>7, <1>8

LEMMA ClosedTyped ==
  ASSUME NEW q \in Request, NEW status \in {"queued", "merged"},
         NEW j \in Jobs \cup {NoEvaluation}, NEW seen \in SUBSET Changes
  PROVE  LET n == Closed(q, status, j, seen) IN
         /\ n \in Request
         /\ n.status = status /\ n.mergedInto = j
         /\ n.assembled = seen /\ n.triggers = q.triggers
BY ProgressConstants DEF Closed, Request, Timer, Off

\* What finalization makes of the requests.
LEMMA ClosedRequest ==
  ASSUME TrackingInv, NEW p \in Processors, processor[p].request \in Requests,
         NEW status \in {"queued", "merged"}, NEW j \in Jobs \cup {NoEvaluation},
         request' = [request EXCEPT
           ![processor[p].request] = Closed(@, status, j, processor[p].seen)]
  PROVE  LET r == processor[p].request IN
         /\ request' \in [Requests -> Request]
         /\ request'[r].status = status /\ request'[r].mergedInto = j
         /\ request'[r].triggers = request[r].triggers
         /\ request'[r].assembled = processor[p].seen
         /\ \A s \in Requests \ {r} : request'[s] = request[s]
<1>1. request \in [Requests -> Request] /\ processor[p].seen \in SUBSET Changes
  BY DEF TrackingInv, Typed, PTypeOK, Process
<1> QED BY <1>1, ClosedTyped

LEMMA FinalizeRequestFine ==
  ASSUME TrackingInv, NEW p \in Processors, FinalizeRequest(p)
  PROVE  Fine
<1>1. processor[p].request \in Requests
  BY Finalizes
<1>2. Goto(p, At("idle")) /\ UNCHANGED <<changes, tracker>>
  BY DEF FinalizeRequest
<1>3. /\ processor' \in [Processors -> Process]
      /\ \A q \in Processors : processor'[q].phase \in Held => processor'[q].request \in Requests
      /\ Advances
  BY <1>2, AtTyped, GotoTyped
<1>4. CASE Merges(p)
  <2>1. JobsLinked' /\ EvaluationsKept /\ [Next]_vars
    BY <1>4, LinkedReconciled DEF Merges
  <2>2. request' \in [Requests -> Request]
    BY <1>1, <1>4, ClosedRequest DEF Merges, Same
  <2>3. Typed'
    BY <1>2, <1>3, <2>1, <2>2 DEF TrackingInv, Typed, PTypeOK, EvaluationsKept
  <2> QED BY <1>3, <2>1, <2>3 DEF Fine, KindOfStep
<1>5. ASSUME NEW j \in Jobs, Inserts(p, j) PROVE Fine
  <2>1. [Next]_vars
    <3>1. 0 \in Delays /\ NoKey \in Keys \cup {NoKey}
      BY ProgressConstants
    <3>2. PICK max \in AttemptLimits : Create(j, NoKey, max, 0)
      BY <1>5 DEF Inserts
    <3>3. \E k \in Jobs, key \in Keys \cup {NoKey}, m \in AttemptLimits, delay \in Delays :
            Create(k, key, m, delay)
      BY <3>1, <3>2
    <3> QED BY <3>3 DEF Next
  <2>2. request' \in [Requests -> Request]
    BY <1>1, <1>5, ClosedRequest DEF Inserts
  <2>3. evaluation' \in [Jobs -> Evaluation]
    BY <1>1, <1>5, InsertedEvaluation
  <2>4. Typed'
    BY <1>2, <1>3, <2>2, <2>3 DEF TrackingInv, Typed, PTypeOK
  <2>5. JobsLinked'
    <3> SUFFICES ASSUME NEW i \in Jobs PROVE Linked(evaluation'[i], job'[i])
      BY DEF JobsLinked
    <3>1. CASE i = j
      BY <1>1, <1>5, <3>1, InsertedEvaluation DEF Linked, Active
    <3>2. CASE i # j
      BY <1>1, <1>5, <3>2, InsertedEvaluation, ReconciledKeeps
    <3> QED BY <3>1, <3>2
  <2> QED BY <1>3, <2>1, <2>4, <2>5 DEF Fine, KindOfStep
<1> QED BY <1>4, <1>5, Finalizes

-----------------------------------------------------------------------------
(* Every step.                                                             *)

LEMMA StepKinds ==
  ASSUME TrackingInv, [PNext]_progressVars
  PROVE  Fine
<1>1. ASSUME Change PROVE Fine
  BY <1>1, ChangeFine
<1>2. ASSUME NEW n \in Changes, ScheduleEvent(n) PROVE Fine
  BY <1>2, ScheduleEventFine
<1>3. ASSUME NEW force \in BOOLEAN, Recalculate(force) PROVE Fine
  BY <1>3, RecalculateFine
<1>4. ASSUME NEW j \in Jobs, RetryEvaluation(j) PROVE Fine
  BY <1>4, RetryEvaluationFine
<1>5. ASSUME ScheduleCron PROVE Fine
  BY <1>5, ScheduleCronFine
<1>6. ASSUME NEW p \in Processors, Dispatch(p) PROVE Fine
  BY <1>6, ClaimRequestFine, ClaimNoRequestFine, AssembleFine, FinalizeRequestFine,
     GiveFine, ReleaseRequestFine DEF Dispatch
<1>7. ASSUME NEW p \in Processors, Crash(p) PROVE Fine
  BY <1>7, CrashFine
<1>8. ASSUME NEW w \in Workers, NEW j \in Jobs, NEW lease \in LeaseTerms,
             ClaimEvaluation(w, j, lease)
      PROVE  Fine
  BY <1>8, ClaimEvaluationFine
<1>9. ASSUME NEW w \in Workers, NEW j \in Jobs, CompleteEvaluation(w, j) PROVE Fine
  BY <1>9, CompleteEvaluationFine
<1>10. ASSUME NEW w \in Workers, NEW j \in Jobs, NEW retryable \in BOOLEAN,
              NEW delay \in Delays, FailEvaluation(w, j, retryable, delay)
       PROVE  Fine
  BY <1>10, FailEvaluationFine
<1>11. ASSUME QueueOnly PROVE Fine
  BY <1>11, QueueOnlyFine
<1>12. ASSUME TimePasses PROVE Fine
  BY <1>12, TimePassesFine
<1>13. ASSUME UNCHANGED progressVars PROVE Fine
  BY <1>13, StutterFine
<1> QED BY <1>1, <1>2, <1>3, <1>4, <1>5, <1>6, <1>7, <1>8, <1>9, <1>10, <1>11, <1>12,
           <1>13 DEF PNext

LEMMA TrackingInvInit == PInit => Init /\ TrackingInv
<1> SUFFICES ASSUME PInit PROVE TrackingInv
  BY DEF PInit
<1>1. QueueInv
  BY QueueInvInit DEF PInit
<1>2. Typed
  <2>1. NewRequest("absent", 0, FALSE, {}) \in Request
    BY ProgressConstants DEF NewRequest, Request, Open, Timer, Off
  <2>2. [status |-> "absent", input |-> 0, request |-> NoRequest, sources |-> {}] \in Evaluation
    BY ProgressConstants DEF Evaluation, Active
  <2>3. At("idle") \in Process /\ At("idle").phase \notin Held
    BY AtTyped
  <2>4. 0 \in 0..MaxChanges
    BY ProgressConstants
  <2> QED BY <2>1, <2>2, <2>3, <2>4 DEF PInit, Typed, PTypeOK
<1>3. JobsLinked
  BY DEF PInit, Init, NewRow, JobsLinked, Linked, Live
<1> QED BY <1>1, <1>2, <1>3 DEF TrackingInv

LEMMA TrackingInvStep == TrackingInv /\ [PNext]_progressVars => TrackingInv'
BY StepKinds, QueueInvStep DEF TrackingInv, Fine

THEOREM TrackingInvHolds == PSpec => []TrackingInv
BY TrackingInvInit, TrackingInvStep, PTL DEF PSpec

\* Tracking implements the queue: the hooks only refuse steps of it.
THEOREM TrackingUsesTheQueue == PSpec => Spec
<1>1. TrackingInv /\ [PNext]_progressVars => [Next]_vars
  BY StepKinds DEF Fine
<1> QED BY <1>1, TrackingInvInit, TrackingInvHolds, PTL DEF PSpec, Spec

\* Every variable of the tracking keeps its type.
THEOREM TrackingTypeCorrect == PSpec => []PTypeOK
<1>1. TrackingInv => PTypeOK
  BY DEF TrackingInv, Typed
<1> QED BY <1>1, TrackingInvHolds, PTL

\* The hook of a claim accepts every job that waits in the queue.
THEOREM ClaimsAreAccepted == PSpec => []ClaimIsAccepted
<1>1. TrackingInv => ClaimIsAccepted
  BY DEF TrackingInv, JobsLinked, Linked, Live, ClaimIsAccepted
<1> QED BY <1>1, TrackingInvHolds, PTL

\* Reconciliation and the hooks end an evaluation only when its job has ended.
THEOREM EndedEvaluationsHaveEndedJobs == PSpec => []EndedEvaluationHasEndedJob
<1>1. TrackingInv => EndedEvaluationHasEndedJob
  <2> SUFFICES ASSUME TrackingInv, NEW j \in Jobs,
                      evaluation[j].status \in {"succeeded", "failed"}
               PROVE  job[j].status \in Terminal
    BY DEF EndedEvaluationHasEndedJob
  <2>1. job[j].status \in Statuses
    BY DEF TrackingInv, QueueInv, Row
  <2>2. Linked(evaluation[j], job[j])
    BY DEF TrackingInv, JobsLinked
  <2> QED BY <2>1, <2>2 DEF Linked, Live, Active, Statuses, Terminal
<1> QED BY <1>1, TrackingInvHolds, PTL

-----------------------------------------------------------------------------
(* No duplicate work.                                                      *)

LEMMA NoDuplicateStep ==
  ASSUME TrackingInv, NoDuplicateWork, Fine
  PROVE  NoDuplicateWork'
<1> DEFINE OneActive == \A j, k \in Jobs :
             /\ evaluation'[j].status \in Active /\ evaluation'[k].status \in Active
             /\ evaluation'[j].input = evaluation'[k].input
             => j = k
           OneOpen == \A r, s \in Requests :
             request'[r].status \in Open /\ request'[s].status \in Open => r = s
<1>1. EvaluationsKept => OneActive
  BY DEF EvaluationsKept, Keeps, NoDuplicateWork
<1>2. RequestsShuffled => OneOpen
  BY DEF RequestsShuffled, Shuffled, NoDuplicateWork
<1>3. ASSUME RequestExtended PROVE OneOpen
  <2>1. PICK delay \in Nat, byEvent \in BOOLEAN, force \in BOOLEAN, triggers \in SUBSET Changes :
          MergeOrOpen(delay, byEvent, force, triggers)
    BY <1>3 DEF RequestExtended
  <2>2. request \in [Requests -> Request]
    BY DEF TrackingInv, Typed, PTypeOK
  <2>3. ASSUME NEW r \in Requests, request[r].status \in Open,
               request' = [request EXCEPT
                 ![r].scheduledIn = IF byEvent THEN Later(@, delay) ELSE Sooner(@, delay),
                 ![r].force = @ \/ force,
                 ![r].triggers = @ \cup triggers]
        PROVE  OneOpen
    <3>1. \A s \in Requests : request'[s].status = request[s].status
      BY <2>2, <2>3 DEF Request
    <3> QED BY <3>1 DEF NoDuplicateWork
  <2>4. ASSUME NEW r \in Requests, \A s \in Requests : request[s].status \notin Open,
               request' = [request EXCEPT ![r] = NewRequest("pending", delay, force, triggers)]
        PROVE  OneOpen
    BY <2>2, <2>4
  <2> QED BY <2>1, <2>3, <2>4 DEF MergeOrOpen
<1>4. ASSUME NEW p \in Processors, FinalizeRequest(p) PROVE OneActive /\ OneOpen
  <2>1. processor[p].request \in Requests
    BY <1>4, Finalizes
  <2>2. CASE Merges(p)
    <3>1. OneActive
      BY <1>1, <2>2, LinkedReconciled DEF Merges
    <3>2. OneOpen
      <4>1. PICK j \in Jobs :
              request' = [request EXCEPT
                ![processor[p].request] = Closed(@, "merged", j, processor[p].seen)]
        BY <2>2 DEF Merges, Same
      <4> QED BY <2>1, <4>1, ClosedRequest DEF Open, NoDuplicateWork
    <3> QED BY <3>1, <3>2
  <2>3. ASSUME NEW j \in Jobs, Inserts(p, j) PROVE OneActive /\ OneOpen
    <3>1. OneActive
      <4>1. \A i \in Jobs : Reconciled[i].input = processor[p].input
                            => Reconciled[i].status \notin Active
        BY <2>3 DEF Inserts, Same
      <4>2. /\ evaluation'[j].input = processor[p].input
            /\ \A i \in Jobs \ {j} : evaluation'[i] = Reconciled[i]
        BY <2>1, <2>3, InsertedEvaluation
      <4>3. \A i, k \in Jobs : /\ Reconciled[i].status \in Active /\ Reconciled[k].status \in Active
                               /\ Reconciled[i].input = Reconciled[k].input
                               => i = k
        BY ReconciledKeeps DEF Keeps, NoDuplicateWork
      <4> QED BY <4>1, <4>2, <4>3
    <3>2. OneOpen
      <4>1. request' = [request EXCEPT
              ![processor[p].request] = Closed(@, "queued", NoEvaluation, processor[p].seen)]
        BY <2>3 DEF Inserts
      <4> QED BY <2>1, <4>1, ClosedRequest DEF Open, NoDuplicateWork
    <3> QED BY <3>1, <3>2
  <2> QED BY <1>4, <2>2, <2>3, Finalizes
<1>5. OneActive /\ OneOpen
  BY <1>1, <1>2, <1>3, <1>4 DEF Fine, KindOfStep
<1> QED BY <1>5 DEF NoDuplicateWork

\* One evaluation of an input is active at a time, and one request is open.
THEOREM WorkIsNotDuplicated == PSpec => []NoDuplicateWork
<1>1. PInit => NoDuplicateWork
  BY DEF PInit, NoDuplicateWork, NewRequest, Active, Open
<1>2. TrackingInv /\ NoDuplicateWork /\ [PNext]_progressVars => NoDuplicateWork'
  BY StepKinds, NoDuplicateStep
<1> QED BY <1>1, <1>2, TrackingInvHolds, PTL DEF PSpec

-----------------------------------------------------------------------------
(* Where triggers go.  The inductive invariant adds that a processor read   *)
(* the input of its evaluation and the triggers of its request together.    *)

OneRequestPerTrigger ==
  \A r, s \in Requests : request[r].triggers \cap request[s].triggers # {} => r = s

\* The triggers of a request are changes made, and are there from its opening.
TriggersOf(q, made) ==
  /\ \A n \in q.triggers : n <= made
  /\ q.assembled \subseteq q.triggers
  /\ q.status = "absent" => q.triggers = {}

ReadTogether ==
  /\ \A r \in Requests : TriggersOf(request[r], changes)
  /\ \A p \in Processors : processor[p].phase = "finalize" =>
       /\ processor[p].seen \subseteq request[processor[p].request].triggers
       /\ \A n \in processor[p].seen : n <= processor[p].input

\* An evaluation answers a request (Covers), and is the one made for it.
Answers(e, q) == e.status # "absent" /\ \A n \in q.assembled : n <= e.input
Carries(e, r, q) == e.request = r /\ Answers(e, q) /\ e.sources = q.triggers

Carried ==
  \A r \in Requests : request[r].status = "queued" =>
    \E j \in Jobs : Carries(evaluation[j], r, request[r])

Merged ==
  \A r \in Requests : request[r].status = "merged" =>
    /\ request[r].mergedInto \in Jobs
    /\ Answers(evaluation[request[r].mergedInto], request[r])

TriggersInv == OneRequestPerTrigger /\ ReadTogether /\ Carried /\ Merged

\* How a step changes the triggers of a request.
Grows(q, n) ==
  /\ q.triggers \subseteq n.triggers
  /\ TriggersOf(n, changes)

\* A request is open after it was extended; the others are left alone.
LEMMA ExtendedSteps ==
  ASSUME TrackingInv, OneRequestPerTrigger, ReadTogether, RequestExtended
  PROVE  /\ \A s \in Requests : request'[s] = request[s] \/ request'[s].status \in Open
         /\ \A s \in Requests : Grows(request[s], request'[s])
         /\ OneRequestPerTrigger'
<1>1. PICK delay \in Nat, byEvent \in BOOLEAN, force \in BOOLEAN, triggers \in SUBSET Changes :
        /\ \A n \in triggers : ~Known(n) /\ n <= changes
        /\ MergeOrOpen(delay, byEvent, force, triggers)
  BY DEF RequestExtended
<1>2. request \in [Requests -> Request]
  BY DEF TrackingInv, Typed, PTypeOK
<1>3. \A s \in Requests : triggers \cap request[s].triggers = {}
  BY <1>1 DEF Known
<1>4. PICK r \in Requests :
        /\ request'[r].status \in Open
        /\ request'[r].triggers = request[r].triggers \cup triggers
        /\ request'[r].assembled \in {{}, request[r].assembled}
        /\ \A s \in Requests \ {r} : request'[s] = request[s]
  <2>1. ASSUME NEW r \in Requests, request[r].status \in Open,
               request' = [request EXCEPT
                 ![r].scheduledIn = IF byEvent THEN Later(@, delay) ELSE Sooner(@, delay),
                 ![r].force = @ \/ force,
                 ![r].triggers = @ \cup triggers]
        PROVE  /\ request'[r].status \in Open
               /\ request'[r].triggers = request[r].triggers \cup triggers
               /\ request'[r].assembled = request[r].assembled
               /\ \A s \in Requests \ {r} : request'[s] = request[s]
    BY <1>2, <2>1 DEF Request
  <2>2. ASSUME NEW r \in Requests, request[r].status = "absent",
               request' = [request EXCEPT ![r] = NewRequest("pending", delay, force, triggers)]
        PROVE  /\ request'[r].status \in Open
               /\ request'[r].triggers = request[r].triggers \cup triggers
               /\ request'[r].assembled = {}
               /\ \A s \in Requests \ {r} : request'[s] = request[s]
    <3>1. request[r].triggers = {}
      BY <2>2 DEF ReadTogether, TriggersOf
    <3> QED BY <1>2, <2>2, <3>1 DEF NewRequest, Open
  <2> QED BY <1>1, <2>1, <2>2 DEF MergeOrOpen
<1>5. OneRequestPerTrigger'
  <2> SUFFICES ASSUME NEW s \in Requests, NEW t \in Requests, s # t
               PROVE  request'[s].triggers \cap request'[t].triggers = {}
    BY DEF OneRequestPerTrigger
  <2>1. request[s].triggers \cap request[t].triggers = {}
    BY DEF OneRequestPerTrigger
  <2> QED BY <1>3, <1>4, <2>1
<1>6. ASSUME NEW s \in Requests PROVE Grows(request[s], request'[s])
  <2>1. TriggersOf(request[s], changes)
    BY DEF ReadTogether
  <2>2. CASE s = r
    BY <1>1, <1>4, <2>1, <2>2 DEF Grows, TriggersOf, Open
  <2>3. CASE s # r
    BY <1>4, <2>1, <2>3 DEF Grows
  <2> QED BY <2>2, <2>3
<1> QED BY <1>4, <1>5, <1>6

\* What was read together stays so.
LEMMA ReadTogetherStep ==
  ASSUME TrackingInv, TrackingInv', ReadTogether, Advances,
         \A r \in Requests : Grows(request[r], request'[r])
  PROVE  ReadTogether'
<1>0. changes \in Nat /\ changes' \in Nat /\ changes <= changes'
  BY ProgressConstants DEF TrackingInv, Typed, PTypeOK, Advances
<1>1. ASSUME NEW r \in Requests PROVE TriggersOf(request'[r], changes')
  <2>1. request'[r].triggers \subseteq Nat
    BY DEF TrackingInv, Typed, PTypeOK, Request, Changes
  <2> QED BY <1>0, <2>1 DEF Grows, TriggersOf
<1>2. ASSUME NEW p \in Processors, processor'[p].phase = "finalize"
      PROVE  /\ processor'[p].seen \subseteq request'[processor'[p].request].triggers
             /\ \A n \in processor'[p].seen : n <= processor'[p].input
  <2> DEFINE r == processor'[p].request
  <2>1. r \in Requests
    BY <1>2 DEF TrackingInv, Typed, Held
  <2>2. TriggersOf(request[r], changes) /\ Grows(request[r], request'[r])
    BY <2>1 DEF ReadTogether
  <2>3. CASE processor'[p] = processor[p]
    BY <1>2, <2>2, <2>3 DEF ReadTogether, Grows
  <2>4. CASE processor'[p].input = changes /\ processor'[p].seen = request[r].triggers
    BY <2>2, <2>4 DEF Grows, TriggersOf
  <2> QED BY <1>2, <2>3, <2>4 DEF Advances
<1> QED BY <1>1, <1>2 DEF ReadTogether

\* Evaluations that exist go on to exist, with what they were made from.
LEMMA KeptAnswers ==
  ASSUME NEW e, NEW f, NEW q, NEW n, Keeps(e, f), n.assembled = q.assembled
  PROVE  /\ Answers(e, q) => Answers(f, n)
         /\ \A r : Carries(e, r, q) /\ n.triggers = q.triggers => Carries(f, r, n)
BY DEF Answers, Carries, Keeps

LEMMA KeptTriggers ==
  ASSUME TrackingInv, Carried, Merged, EvaluationsKept,
         \A s \in Requests : \/ request'[s].status \in Open
                             \/ /\ request'[s].status = request[s].status
                                /\ request'[s].triggers = request[s].triggers
                                /\ request'[s].assembled = request[s].assembled
                                /\ request'[s].mergedInto = request[s].mergedInto
  PROVE  Carried' /\ Merged'
<1>1. Carried'
  <2> SUFFICES ASSUME NEW r \in Requests, request'[r].status = "queued"
               PROVE  \E j \in Jobs : Carries(evaluation'[j], r, request'[r])
    BY DEF Carried
  <2>1. /\ request[r].status = "queued" /\ request'[r].triggers = request[r].triggers
        /\ request'[r].assembled = request[r].assembled
    BY DEF Open
  <2>2. PICK j \in Jobs : Carries(evaluation[j], r, request[r])
    BY <2>1 DEF Carried
  <2> QED BY <2>1, <2>2, KeptAnswers DEF EvaluationsKept
<1>2. Merged'
  <2> SUFFICES ASSUME NEW r \in Requests, request'[r].status = "merged"
               PROVE  /\ request'[r].mergedInto \in Jobs
                      /\ Answers(evaluation'[request'[r].mergedInto], request'[r])
    BY DEF Merged
  <2>1. /\ request[r].status = "merged" /\ request'[r].mergedInto = request[r].mergedInto
        /\ request'[r].assembled = request[r].assembled
    BY DEF Open
  <2>2. request[r].mergedInto \in Jobs /\ Answers(evaluation[request[r].mergedInto], request[r])
    BY <2>1 DEF Merged
  <2> QED BY <2>1, <2>2, KeptAnswers DEF EvaluationsKept
<1> QED BY <1>1, <1>2

\* Finalization closes one request, with the triggers that were read.
LEMMA ClosedGrows ==
  ASSUME TrackingInv, ReadTogether, NEW p \in Processors, processor[p].phase = "finalize",
         processor[p].request \in Requests,
         LET r == processor[p].request IN
           /\ request'[r].status # "absent"
           /\ request'[r].triggers = request[r].triggers
           /\ request'[r].assembled = processor[p].seen
           /\ \A s \in Requests \ {r} : request'[s] = request[s]
  PROVE  \A s \in Requests : Grows(request[s], request'[s])
BY DEF Grows, ReadTogether, TriggersOf

LEMMA FinalizeTriggers ==
  ASSUME TrackingInv, TriggersInv, NEW p \in Processors, FinalizeRequest(p)
  PROVE  /\ \A s \in Requests : Grows(request[s], request'[s])
         /\ OneRequestPerTrigger' /\ Carried' /\ Merged'
<1> USE DEF TriggersInv
<1> DEFINE r == processor[p].request
           seen == processor[p].seen
<1>1. r \in Requests /\ processor[p].phase = "finalize"
  BY Finalizes
<1>2. \A n \in seen : n <= processor[p].input
  BY <1>1 DEF ReadTogether
<1>3. CASE Merges(p)
  <2>1. PICK j \in Same(processor[p].input, processor[p].force) :
          request' = [request EXCEPT ![r] = Closed(@, "merged", j, seen)]
    BY <1>3 DEF Merges
  <2>2. j \in Jobs /\ Reconciled[j].status # "absent" /\ Reconciled[j].input = processor[p].input
    BY <2>1 DEF Same, Active
  <2>3. /\ request'[r].status = "merged" /\ request'[r].mergedInto = j
        /\ request'[r].triggers = request[r].triggers
        /\ request'[r].assembled = seen
        /\ \A s \in Requests \ {r} : request'[s] = request[s]
    BY <1>1, <2>1, <2>2, ClosedRequest
  <2>4. EvaluationsKept /\ evaluation' = Reconciled
    BY <1>3, LinkedReconciled DEF Merges
  <2>5. \A s \in Requests : Grows(request[s], request'[s])
    BY <1>1, <2>3, ClosedGrows
  <2>6. Answers(evaluation'[j], request'[r])
    BY <1>2, <2>2, <2>3, <2>4 DEF Answers
  <2> HIDE DEF r, seen
  <2>7. OneRequestPerTrigger'
    BY <2>3 DEF OneRequestPerTrigger
  <2>8. Carried'
    <3> SUFFICES ASSUME NEW s \in Requests, request'[s].status = "queued"
                 PROVE  \E i \in Jobs : Carries(evaluation'[i], s, request'[s])
      BY DEF Carried
    <3>1. request'[s] = request[s]
      BY <2>3
    <3>2. PICK i \in Jobs : Carries(evaluation[i], s, request[s])
      BY <3>1 DEF Carried
    <3>3. Keeps(evaluation[i], evaluation'[i])
      BY <2>4 DEF EvaluationsKept
    <3> QED BY <3>1, <3>2, <3>3, KeptAnswers
  <2>9. Merged'
    <3> SUFFICES ASSUME NEW s \in Requests, request'[s].status = "merged", s # r
                 PROVE  /\ request'[s].mergedInto \in Jobs
                        /\ Answers(evaluation'[request'[s].mergedInto], request'[s])
      BY <2>2, <2>3, <2>6 DEF Merged
    <3>1. request'[s] = request[s]
      BY <2>3
    <3>2. request[s].mergedInto \in Jobs /\ Answers(evaluation[request[s].mergedInto], request[s])
      BY <3>1 DEF Merged
    <3> QED BY <2>4, <3>1, <3>2, KeptAnswers DEF EvaluationsKept
  <2> QED BY <2>5, <2>7, <2>8, <2>9
<1>4. ASSUME NEW j \in Jobs, Inserts(p, j)
      PROVE  /\ \A s \in Requests : Grows(request[s], request'[s])
             /\ OneRequestPerTrigger' /\ Carried' /\ Merged'
  <2>1. /\ request'[r].status = "queued"
        /\ request'[r].triggers = request[r].triggers
        /\ request'[r].assembled = seen
        /\ \A s \in Requests \ {r} : request'[s] = request[s]
    BY <1>1, <1>4, ClosedRequest DEF Inserts
  <2>2. /\ evaluation'[j].status = "queued" /\ evaluation'[j].request = r
        /\ evaluation'[j].sources = request[r].triggers
        /\ evaluation'[j].input = processor[p].input
        /\ evaluation[j].status = "absent"
        /\ \A i \in Jobs \ {j} : evaluation'[i] = Reconciled[i]
    BY <1>1, <1>4, InsertedEvaluation
  <2>3. \A i \in Jobs \ {j} : Keeps(evaluation[i], evaluation'[i])
    BY <2>2, ReconciledKeeps
  <2>4. \A s \in Requests : Grows(request[s], request'[s])
    BY <1>1, <2>1, ClosedGrows
  <2>5. Carries(evaluation'[j], r, request'[r])
    BY <1>2, <2>1, <2>2 DEF Carries, Answers
  <2> HIDE DEF r, seen
  <2>6. OneRequestPerTrigger'
    BY <2>1 DEF OneRequestPerTrigger
  <2>7. Carried'
    <3> SUFFICES ASSUME NEW s \in Requests, request'[s].status = "queued", s # r
                 PROVE  \E i \in Jobs : Carries(evaluation'[i], s, request'[s])
      BY <2>5 DEF Carried
    <3>1. request'[s] = request[s]
      BY <2>1
    <3>2. PICK i \in Jobs : Carries(evaluation[i], s, request[s])
      BY <3>1 DEF Carried
    <3>3. i # j
      BY <2>2, <3>2 DEF Carries, Answers
    <3>4. Carries(evaluation'[i], s, request'[s])
      BY <2>3, <3>1, <3>2, <3>3 DEF Carries, Answers, Keeps
    <3> QED BY <3>4
  <2>8. Merged'
    <3> SUFFICES ASSUME NEW s \in Requests, request'[s].status = "merged"
                 PROVE  /\ request'[s].mergedInto \in Jobs
                        /\ Answers(evaluation'[request'[s].mergedInto], request'[s])
      BY DEF Merged
    <3>1. request'[s] = request[s]
      BY <2>1
    <3>2. request[s].mergedInto \in Jobs /\ Answers(evaluation[request[s].mergedInto], request[s])
      BY <3>1 DEF Merged
    <3>3. request[s].mergedInto # j
      BY <2>2, <3>2 DEF Answers
    <3> QED BY <2>3, <3>1, <3>2, <3>3, KeptAnswers
  <2> QED BY <2>4, <2>6, <2>7, <2>8
<1> QED BY <1>3, <1>4, Finalizes

LEMMA TriggersStep ==
  ASSUME TrackingInv, TrackingInv', TriggersInv, Fine
  PROVE  TriggersInv'
<1> USE DEF TriggersInv
<1>1. CASE EvaluationsKept /\ RequestsShuffled
  <2>1. OneRequestPerTrigger'
    BY <1>1 DEF OneRequestPerTrigger, RequestsShuffled, Shuffled
  <2>2. \A r \in Requests : Grows(request[r], request'[r])
    BY <1>1 DEF RequestsShuffled, Shuffled, Grows, ReadTogether, TriggersOf, Open
  <2> QED BY <1>1, <2>1, <2>2, KeptTriggers, ReadTogetherStep DEF RequestsShuffled, Shuffled, Fine
<1>2. CASE EvaluationsKept /\ RequestExtended
  BY <1>2, ExtendedSteps, KeptTriggers, ReadTogetherStep DEF Fine
<1>3. ASSUME NEW p \in Processors, FinalizeRequest(p) PROVE TriggersInv'
  BY <1>3, FinalizeTriggers, ReadTogetherStep DEF Fine
<1> QED BY <1>1, <1>2, <1>3 DEF Fine, KindOfStep

\* Every delivered trigger stays in one request, and the evaluation of a closed
\* request, its own or the one it was merged into, has an input that includes
\* every change the request knew of when that input was read.
THEOREM TriggersAreAnswered == PSpec => []TriggersAnswered
<1>1. PInit => TriggersInv
  <2> SUFFICES ASSUME PInit PROVE TriggersInv
    OBVIOUS
  <2>1. \A r \in Requests : /\ request[r].status = "absent" /\ request[r].triggers = {}
                            /\ request[r].assembled = {}
    BY DEF PInit, NewRequest
  <2>2. \A p \in Processors : processor[p].phase = "idle"
    BY DEF PInit, At
  <2> QED BY <2>1, <2>2 DEF TriggersInv, OneRequestPerTrigger, ReadTogether, TriggersOf, Carried, Merged
<1>2. TrackingInv /\ TriggersInv /\ [PNext]_progressVars => TriggersInv'
  BY StepKinds, TriggersStep, TrackingInvStep
<1>3. TriggersInv => TriggersAnswered
  BY DEF TriggersInv, OneRequestPerTrigger, ReadTogether, TriggersOf, Carried, Carries, Answers, Merged,
         TriggersAnswered, Covers
<1> QED BY <1>1, <1>2, <1>3, TrackingInvHolds, PTL DEF PSpec

-----------------------------------------------------------------------------
(* ArticleBuild.  The properties are proved together: that a publication   *)
(* follows its build, and that a completed build has ended, both rest on   *)
(* what a worker that is about to submit a result knows of its build.      *)

\* A build exists with its job.
BuildsLinked == \A j \in Jobs : build[j].status = "absent" <=> job[j].status = "absent"

\* What the handler of a worker has done for a job, and when its work is done.
HandlerStates == {"none", "working", "returned", "completing", "failing"}
WorkDone == {"returned", "completing"}

\* The progress that a worker must report before it submits was accepted, so
\* a build whose result is about to be submitted has not failed: it can only
\* fail when the worker loses the job, and with a new claim the work begins
\* anew.
OwnedHasNotFailed ==
  \A w \in Workers, j \in Jobs :
    job[j].lockedBy = w /\ handler[w][j] \in WorkDone
    => build[j].status \notin {"absent", "failed"}

\* Only formal builds are published: previews do not supersede them.
FormalBuilds ==
  \A p \in Publications :
    /\ publication[p].status = "absent" => publication[p].build = NoBuild
    /\ publication[p].status # "absent" =>
         publication[p].build \in Jobs /\ build[publication[p].build].kind = "formal"

\* A build that was superseded while the hook of its job had read it already is
\* neither the test of a template nor the build of a publication.
OnlyPreviews == \A j \in Jobs : build[j].status = "superseded" => build[j].kind = "preview"

\* The hook of a completion leaves no active build behind.
EndedWithJob ==
  \A j \in Jobs : build[j].status \in ActiveBuild => job[j].status # "succeeded"

\* What the steps of the queue need, and what the steps of builds need.
Before ==
  /\ QueueInv
  /\ BTypeOK
  /\ BuildsLinked
  /\ OwnedHasNotFailed
  /\ OnlyPreviews
  /\ EndedWithJob

Results ==
  /\ FormalBuilds
  /\ PublicationFollowsBuild
  /\ CompletedHasEnded
  /\ ReadyWasTested

BuildInv == Before /\ Results

outcomes == <<build, template, publication, released, reported>>

-----------------------------------------------------------------------------
(* Steps that leave the builds alone.                                      *)

\* A worker learns that its work is done only while the build is active.
HandlerMoves ==
  /\ handler' \in [Workers -> [Jobs -> HandlerStates]]
  /\ \A w \in Workers, j \in Jobs : handler'[w][j] \in WorkDone =>
       handler[w][j] \in WorkDone \/ build[j].status \in ActiveBuild

LEMMA ResultsKept ==
  ASSUME Results, UNCHANGED outcomes
  PROVE  Results'
BY DEF Results, outcomes, FormalBuilds, PublicationFollowsBuild, CompletedHasEnded,
       ReadyWasTested

LEMMA QuietOnly ==
  ASSUME BuildInv, Quiet, \A j \in Jobs : Stays(job[j], job'[j]), UNCHANGED outcomes, HandlerMoves
  PROVE  [Next]_vars /\ BuildInv'
<1> USE DEF BuildInv, Before
<1>1. [Next]_vars /\ QueueInv'
  BY QuietIsNext, QueueInvStep
<1>2. BTypeOK'
  BY DEF BTypeOK, outcomes, HandlerMoves, HandlerStates
<1>3. \A j \in Jobs : /\ Stays(job[j], job'[j])
                      /\ job'[j].lockedBy \in {NoWorker, job[j].lockedBy}
                      /\ job'[j].status = "succeeded" <=> job[j].status = "succeeded"
  BY QuietOwner
<1>4. BuildsLinked' /\ EndedWithJob' /\ OnlyPreviews'
  BY <1>3 DEF BuildsLinked, EndedWithJob, OnlyPreviews, Stays, outcomes
<1>5. OwnedHasNotFailed'
  <2> SUFFICES ASSUME NEW w \in Workers, NEW j \in Jobs,
                      job'[j].lockedBy = w, handler'[w][j] \in WorkDone
               PROVE  build[j].status \notin {"absent", "failed"}
    BY DEF OwnedHasNotFailed, outcomes
  <2>1. job[j].lockedBy = w
    BY <1>3, JobQueueConstants
  <2> QED BY <2>1 DEF OwnedHasNotFailed, HandlerMoves, ActiveBuild
<1> QED BY <1>1, <1>2, <1>4, <1>5, ResultsKept

LEMMA JobOnly ==
  ASSUME BuildInv, Unhooked, UNCHANGED outcomes, HandlerMoves
  PROVE  [Next]_vars /\ BuildInv'
BY UnhookedStays, UnhookedIsQuiet, QuietOnly DEF BuildInv, Before

LEMMA LeaveMoves ==
  ASSUME BTypeOK, NEW w \in Workers, Leave(w)
  PROVE  HandlerMoves
BY DEF BTypeOK, Leave, HandlerMoves, HandlerStates, WorkDone

LEMMA AbandonKeeps ==
  ASSUME BuildInv, NEW w \in Workers, Abandon(w)
  PROVE  [Next]_vars /\ BuildInv'
<1>1. Unhooked /\ UNCHANGED outcomes
  BY DEF Abandon, Unhooked, vars, outcomes
<1>2. HandlerMoves
  BY LeaveMoves DEF Abandon, BuildInv, Before
<1> QED BY <1>1, <1>2, JobOnly

\* The work of a handler is done only if its build is active, or was before.
LEMMA HandlerGoes ==
  ASSUME BTypeOK, NEW w \in Workers, NEW j \in Jobs, NEW state \in HandlerStates,
         handler' = [handler EXCEPT ![w][j] = state],
         state \in WorkDone => handler[w][j] \in WorkDone \/ build[j].status \in ActiveBuild
  PROVE  HandlerMoves
<1>1. handler \in [Workers -> [Jobs -> HandlerStates]]
  BY DEF BTypeOK, HandlerStates
<1>2. handler' = [handler EXCEPT ![w] = [handler[w] EXCEPT ![j] = state]]
  BY <1>1
<1>3. [handler[w] EXCEPT ![j] = state] \in [Jobs -> HandlerStates]
  BY <1>1
<1>4. handler' \in [Workers -> [Jobs -> HandlerStates]]
  BY <1>1, <1>2, <1>3
<1>5. ASSUME NEW v \in Workers, NEW i \in Jobs, handler'[v][i] \in WorkDone
      PROVE  handler[v][i] \in WorkDone \/ build[i].status \in ActiveBuild
  BY <1>1, <1>2, <1>5
<1> QED BY <1>4, <1>5 DEF HandlerMoves

LEMMA WorkerProgressKeeps ==
  ASSUME BuildInv, NEW w \in Workers, NEW j \in Jobs, WorkerProgress(w, j)
  PROVE  [Next]_vars /\ BuildInv'
<1>1. Unhooked /\ UNCHANGED outcomes
  BY DEF WorkerProgress, Unhooked, vars, outcomes
<1>2. HandlerMoves
  BY HandlerGoes DEF WorkerProgress, BuildInv, Before, HandlerStates
<1> QED BY <1>1, <1>2, JobOnly

LEMMA EnterHookKeeps ==
  ASSUME BuildInv, NEW w \in Workers, NEW j \in Jobs, NEW hook \in {"completing", "failing"},
         EnterHook(w, j, hook)
  PROVE  [Next]_vars /\ BuildInv'
<1>1. Unhooked /\ UNCHANGED outcomes
  BY DEF EnterHook, Unhooked, vars, outcomes
<1>2. HandlerMoves
  BY HandlerGoes DEF EnterHook, Entering, BuildInv, Before, HandlerStates, WorkDone
<1> QED BY <1>1, <1>2, JobOnly

LEMMA QueueOnlyKeeps ==
  ASSUME BuildInv, BuildsIdle \/ UNCHANGED buildVars
  PROVE  [Next]_vars /\ BuildInv'
<1>1. Unhooked /\ UNCHANGED outcomes /\ UNCHANGED handler
  BY DEF BuildsIdle, Unhooked, vars, buildVars, articleVars, outcomes
<1>2. HandlerMoves
  BY <1>1 DEF HandlerMoves, BuildInv, Before, BTypeOK, HandlerStates
<1> QED BY <1>1, <1>2, JobOnly

-----------------------------------------------------------------------------
(* Failures: the hook of a failed job, and the repair of stranded builds.  *)

LEMMA FailBuildsSteps ==
  ASSUME BTypeOK, NEW ended \in SUBSET Jobs, FailBuilds(ended)
  PROVE  /\ build' \in [Jobs -> Build]
         /\ \A j \in Jobs :
              /\ build'[j].kind = build[j].kind
              /\ build'[j].status = IF j \in ended /\ build[j].status \in ActiveBuild
                                    THEN "failed" ELSE build[j].status
         /\ publication' \in [Publications -> Publication]
         /\ \A p \in Publications :
              /\ publication'[p].build = publication[p].build
              /\ publication'[p].status =
                   IF publication[p].build \in ended /\ publication[p].status = "building"
                   THEN "failed" ELSE publication[p].status
         /\ template' \in {template, "rejected"}
         /\ reported' \in [Jobs -> SUBSET {"queued", "completed", "failed"}]
         /\ \A j \in Jobs : "completed" \in reported'[j] => "completed" \in reported[j]
         /\ released' = released
<1>1. /\ build' \in [Jobs -> Build]
      /\ \A j \in Jobs :
           /\ build'[j].kind = build[j].kind
           /\ build'[j].status = IF j \in ended /\ build[j].status \in ActiveBuild
                                 THEN "failed" ELSE build[j].status
  <2>1. build' = [j \in Jobs |-> IF j \in ended /\ build[j].status \in ActiveBuild
                                 THEN [build[j] EXCEPT !.status = "failed"] ELSE build[j]]
    BY DEF FailBuilds
  <2> SUFFICES ASSUME NEW j \in Jobs
               PROVE  /\ build'[j] \in Build
                      /\ build'[j].kind = build[j].kind
                      /\ build'[j].status = IF j \in ended /\ build[j].status \in ActiveBuild
                                            THEN "failed" ELSE build[j].status
    BY <2>1
  <2>2. build[j] \in Build
    BY DEF BTypeOK
  <2>3. CASE j \in ended /\ build[j].status \in ActiveBuild
    BY <2>1, <2>2, <2>3 DEF Build
  <2>4. CASE ~(j \in ended /\ build[j].status \in ActiveBuild)
    BY <2>1, <2>2, <2>4
  <2> QED BY <2>3, <2>4
<1>2. /\ publication' \in [Publications -> Publication]
      /\ \A p \in Publications :
           /\ publication'[p].build = publication[p].build
           /\ publication'[p].status =
                IF publication[p].build \in ended /\ publication[p].status = "building"
                THEN "failed" ELSE publication[p].status
  <2>1. publication' = [p \in Publications |->
          IF publication[p].build \in ended /\ publication[p].status = "building"
          THEN [publication[p] EXCEPT !.status = "failed"] ELSE publication[p]]
    BY DEF FailBuilds
  <2> SUFFICES ASSUME NEW p \in Publications
               PROVE  /\ publication'[p] \in Publication
                      /\ publication'[p].build = publication[p].build
                      /\ publication'[p].status =
                           IF publication[p].build \in ended /\ publication[p].status = "building"
                           THEN "failed" ELSE publication[p].status
    BY <2>1
  <2>2. publication[p] \in Publication
    BY DEF BTypeOK
  <2>3. CASE publication[p].build \in ended /\ publication[p].status = "building"
    BY <2>1, <2>2, <2>3 DEF Publication
  <2>4. CASE ~(publication[p].build \in ended /\ publication[p].status = "building")
    BY <2>1, <2>2, <2>4
  <2> QED BY <2>3, <2>4
<1>3. template' \in {template, "rejected"} /\ released' = released
  BY DEF FailBuilds
<1>4. /\ reported' \in [Jobs -> SUBSET {"queued", "completed", "failed"}]
      /\ \A j \in Jobs : "completed" \in reported'[j] => "completed" \in reported[j]
  BY DEF FailBuilds, BTypeOK
<1> QED BY <1>1, <1>2, <1>3, <1>4

\* Whichever job these builds have: it is in no worker's hand any more.
LEMMA FailedKeeps ==
  ASSUME BuildInv, NEW ended \in SUBSET Jobs, FailBuilds(ended), Quiet, HandlerMoves,
         \A j \in Jobs : Stays(job[j], job'[j]),
         \A j \in ended : job'[j].lockedBy = NoWorker
  PROVE  [Next]_vars /\ BuildInv'
<1> USE DEF BuildInv, Before
<1>1. [Next]_vars /\ QueueInv'
  BY QuietIsNext, QueueInvStep
<1>2. /\ build' \in [Jobs -> Build]
      /\ \A j \in Jobs :
           /\ build'[j].kind = build[j].kind
           /\ build'[j].status = IF j \in ended /\ build[j].status \in ActiveBuild
                                 THEN "failed" ELSE build[j].status
      /\ publication' \in [Publications -> Publication]
      /\ \A p \in Publications :
           /\ publication'[p].build = publication[p].build
           /\ publication'[p].status =
                IF publication[p].build \in ended /\ publication[p].status = "building"
                THEN "failed" ELSE publication[p].status
      /\ template' \in {template, "rejected"}
      /\ reported' \in [Jobs -> SUBSET {"queued", "completed", "failed"}]
      /\ \A j \in Jobs : "completed" \in reported'[j] => "completed" \in reported[j]
      /\ released' = released
  BY FailBuildsSteps
<1>3. \A j \in Jobs : /\ Stays(job[j], job'[j])
                      /\ job'[j].lockedBy \in {NoWorker, job[j].lockedBy}
                      /\ job'[j].status = "succeeded" <=> job[j].status = "succeeded"
  BY QuietOwner
<1>4. BTypeOK'
  BY <1>2 DEF BTypeOK, HandlerMoves, HandlerStates
<1>5. BuildsLinked' /\ EndedWithJob' /\ OnlyPreviews'
  BY <1>2, <1>3 DEF BuildsLinked, EndedWithJob, OnlyPreviews, Stays, ActiveBuild
<1>6. OwnedHasNotFailed'
  <2> SUFFICES ASSUME NEW w \in Workers, NEW j \in Jobs,
                      job'[j].lockedBy = w, handler'[w][j] \in WorkDone
               PROVE  build'[j].status \notin {"absent", "failed"}
    BY DEF OwnedHasNotFailed
  <2>1. job[j].lockedBy = w /\ j \notin ended
    BY <1>3, JobQueueConstants
  <2>2. build'[j].status = build[j].status
    BY <1>2, <2>1
  <2> QED BY <2>1, <2>2 DEF OwnedHasNotFailed, HandlerMoves, ActiveBuild
<1>7. Results'
  <2> USE DEF Results
  <2>1. FormalBuilds'
    BY <1>2 DEF FormalBuilds
  <2>2. PublicationFollowsBuild'
    BY <1>2 DEF PublicationFollowsBuild, FormalBuilds, ActiveBuild
  <2>3. CompletedHasEnded'
    BY <1>2 DEF CompletedHasEnded, ActiveBuild
  <2>4. ReadyWasTested'
    BY <1>2 DEF ReadyWasTested, ActiveBuild
  <2> QED BY <2>1, <2>2, <2>3, <2>4
<1> QED BY <1>1, <1>4, <1>5, <1>6, <1>7

LEMMA SubmitFailureKeeps ==
  ASSUME BuildInv, NEW w \in Workers, NEW j \in Jobs, NEW retryable \in BOOLEAN,
         NEW delay \in Delays, SubmitFailure(w, j, retryable, delay)
  PROVE  [Next]_vars /\ BuildInv'
<1>1. /\ Fail(w, j, retryable, delay) /\ Leave(w)
      /\ FailBuilds({j}) \/ UNCHANGED outcomes
  BY DEF SubmitFailure, FindsSuperseded, outcomes
<1>2. Quiet
  BY <1>1 DEF Quiet
<1>3. QueueInv /\ BTypeOK
  BY DEF BuildInv, Before
<1>4. HandlerMoves
  BY <1>1, <1>3, LeaveMoves
<1>5. \A i \in Jobs : Stays(job[i], job'[i])
  BY <1>1, <1>3, FailStays
<1>6. job'[j].lockedBy = NoWorker
  BY <1>1, <1>3, FailedInv DEF Fail, OwnsLease, QueueInv
<1>7. CASE FailBuilds({j})
  BY <1>1, <1>2, <1>3, <1>4, <1>5, <1>6, <1>7, FailedKeeps
<1>8. CASE UNCHANGED outcomes
  BY <1>2, <1>4, <1>5, <1>8, QuietOnly
<1> QED BY <1>1, <1>7, <1>8

LEMMA ReconcileKeeps ==
  ASSUME BuildInv, ReconcileBuildStates
  PROVE  [Next]_vars /\ BuildInv'
<1>1. FailBuilds(Stranded) /\ UNCHANGED <<vars, handler>>
  BY DEF ReconcileBuildStates
<1>2. Quiet /\ Stranded \in SUBSET Jobs
  BY <1>1 DEF Quiet, vars, Stranded
<1>3. HandlerMoves
  BY <1>1 DEF HandlerMoves, BuildInv, Before, BTypeOK, HandlerStates
<1>4. \A i \in Jobs : Stays(job[i], job'[i])
  BY <1>1, StaysIfSame DEF vars
<1>5. \A j \in Stranded : job'[j].lockedBy = NoWorker
  BY <1>1 DEF Stranded, vars, BuildInv, Before, QueueInv, RowInv, Consistent
<1> QED BY <1>1, <1>2, <1>3, <1>4, <1>5, FailedKeeps

-----------------------------------------------------------------------------
(* New builds.                                                             *)

LEMMA SupersedingSteps ==
  ASSUME BTypeOK, NEW kind \in Kinds
  PROVE  /\ Superseding(kind) \in [Jobs -> Build]
         /\ \A i \in Jobs :
              /\ Superseding(kind)[i].kind = build[i].kind
              /\ \/ Superseding(kind)[i].status = build[i].status
                 \/ /\ Superseding(kind)[i].status = "superseded"
                    /\ build[i].kind = "preview" /\ build[i].status \in ActiveBuild
<1> SUFFICES ASSUME NEW i \in Jobs
             PROVE  /\ Superseding(kind)[i] \in Build
                    /\ Superseding(kind)[i].kind = build[i].kind
                    /\ \/ Superseding(kind)[i].status = build[i].status
                       \/ /\ Superseding(kind)[i].status = "superseded"
                          /\ build[i].kind = "preview" /\ build[i].status \in ActiveBuild
  BY DEF Superseding
<1>1. build[i] \in Build
  BY DEF BTypeOK
<1>2. CASE kind = "preview" /\ build[i].kind = "preview" /\ build[i].status \in ActiveBuild
  <2>1. Superseding(kind)[i] = [build[i] EXCEPT !.status = "superseded"]
    BY <1>2 DEF Superseding
  <2> QED BY <1>1, <1>2, <2>1 DEF Build
<1>3. CASE ~(kind = "preview" /\ build[i].kind = "preview" /\ build[i].status \in ActiveBuild)
  <2>1. Superseding(kind)[i] = build[i]
    BY <1>3 DEF Superseding
  <2> QED BY <1>1, <2>1
<1> QED BY <1>2, <1>3

\* The publications: as before, but for one that is given the new build.
Republished(j, kind) ==
  \/ UNCHANGED publication
  \/ /\ kind = "formal"
     /\ \E p \in Publications :
          publication' = [publication EXCEPT ![p] = [status |-> "building", build |-> j]]

LEMMA NewBuildKeeps ==
  ASSUME BuildInv, NEW j \in Jobs, NEW kind \in Kinds, NewBuild(j, kind), Republished(j, kind)
  PROVE  [Next]_vars /\ BuildInv'
<1> USE DEF BuildInv, Before
<1>1. PICK max \in AttemptLimits : Create(j, NoKey, max, 0)
  BY DEF NewBuild
<1>2. Quiet
  <2>1. 0 \in Delays /\ NoKey \in Keys \cup {NoKey}
    BY ArticleConstants
  <2>2. \E k \in Jobs, key \in Keys \cup {NoKey}, m \in AttemptLimits, delay \in Delays :
          Create(k, key, m, delay)
    BY <1>1, <2>1
  <2> QED BY <2>2 DEF Quiet
<1>3. [Next]_vars /\ QueueInv'
  BY <1>2, QuietIsNext, QueueInvStep
<1>4. /\ job[j].status = "absent" /\ job'[j].status = "queued"
      /\ \A i \in Jobs \ {j} : job'[i] = job[i]
  BY <1>1 DEF Create, NewRow, QueueInv
<1>5. /\ build'[j].kind = kind /\ build'[j].status = "queued"
      /\ \A i \in Jobs \ {j} : build'[i] = Superseding(kind)[i]
      /\ build' \in [Jobs -> Build]
  <2>1. [kind |-> kind, status |-> "queued"] \in Build
    BY DEF Build, ActiveBuild
  <2>2. build' = [Superseding(kind) EXCEPT ![j] = [kind |-> kind, status |-> "queued"]]
    BY DEF NewBuild
  <2> QED BY <2>1, <2>2, SupersedingSteps
<1>6. \A i \in Jobs \ {j} :
        /\ build'[i].kind = build[i].kind
        /\ \/ build'[i].status = build[i].status
           \/ /\ build'[i].status = "superseded"
              /\ build[i].kind = "preview" /\ build[i].status \in ActiveBuild
  BY <1>5, SupersedingSteps
<1>7. build[j].status = "absent"
  BY <1>4 DEF BuildsLinked
<1>8. UNCHANGED <<template, released, handler>>
  BY DEF NewBuild
<1>9. /\ reported' \in [Jobs -> SUBSET {"queued", "completed", "failed"}]
      /\ \A i \in Jobs : "completed" \in reported'[i] => "completed" \in reported[i]
  BY DEF NewBuild, Report, BTypeOK
<1>10. BTypeOK'
  <2>1. publication' \in [Publications -> Publication]
    <3>1. [status |-> "building", build |-> j] \in Publication
      BY DEF Publication
    <3> QED BY <3>1 DEF Republished, BTypeOK
  <2> QED BY <1>5, <1>8, <1>9, <2>1 DEF BTypeOK
<1>11. BuildsLinked' /\ OnlyPreviews'
  BY <1>4, <1>5, <1>6 DEF BuildsLinked, OnlyPreviews, ActiveBuild
<1>12. EndedWithJob'
  BY <1>4, <1>5, <1>6 DEF EndedWithJob, ActiveBuild
<1>13. OwnedHasNotFailed'
  <2> SUFFICES ASSUME NEW w \in Workers, NEW i \in Jobs,
                      job'[i].lockedBy = w, handler[w][i] \in WorkDone
               PROVE  build'[i].status \notin {"absent", "failed"}
    BY <1>8 DEF OwnedHasNotFailed
  <2>1. CASE i = j
    BY <1>5, <2>1
  <2>2. CASE i # j
    <3>1. build[i].status \notin {"absent", "failed"}
      BY <1>4, <2>2 DEF OwnedHasNotFailed
    <3> QED BY <1>6, <2>2, <3>1
  <2> QED BY <2>1, <2>2
<1>14. Results'
  <2> USE DEF Results
  <2>1. CompletedHasEnded'
    BY <1>6, <1>7, <1>9 DEF CompletedHasEnded, ActiveBuild
  <2>2. ReadyWasTested'
    BY <1>6, <1>7, <1>8 DEF ReadyWasTested, ActiveBuild
  <2>3. \A p \in Publications : publication[p].status # "absent" => publication[p].build # j
    BY <1>7 DEF PublicationFollowsBuild, BTypeOK, Publication, ActiveBuild
  <2>4. \A p \in Publications :
          \/ publication'[p] = publication[p]
          \/ /\ publication'[p].status = "building" /\ publication'[p].build = j
             /\ kind = "formal"
    BY DEF Republished, BTypeOK
  <2>5. FormalBuilds'
    BY <1>5, <1>6, <2>3, <2>4 DEF FormalBuilds
  <2>6. PublicationFollowsBuild'
    <3> SUFFICES ASSUME NEW p \in Publications
                 PROVE  LET status == publication'[p].status
                            current == publication'[p].build
                        IN /\ status = "building" => build'[current].status \in ActiveBuild
                           /\ status = "released" => build'[current].status = "succeeded"
                                                     /\ <<p, current>> \in released
                           /\ status = "failed" => build'[current].status = "failed"
      BY <1>8 DEF PublicationFollowsBuild
    <3>1. CASE publication'[p] = publication[p] /\ publication[p].status # "absent"
      <4>1. publication[p].build \in Jobs \ {j} /\ build[publication[p].build].kind = "formal"
        BY <2>3, <3>1 DEF FormalBuilds
      <4>2. build'[publication[p].build].status = build[publication[p].build].status
        BY <1>6, <4>1
      <4> QED BY <3>1, <4>2 DEF PublicationFollowsBuild
    <3>2. CASE publication'[p] = publication[p] /\ publication[p].status = "absent"
      BY <3>2
    <3>3. CASE publication'[p].status = "building" /\ publication'[p].build = j
      BY <1>5, <3>3 DEF ActiveBuild
    <3> QED BY <2>4, <3>1, <3>2, <3>3
  <2> QED BY <2>1, <2>2, <2>5, <2>6
<1> QED BY <1>3, <1>10, <1>11, <1>12, <1>13, <1>14

-----------------------------------------------------------------------------
(* Claims and results.                                                     *)

LEMMA RepeatPreviewKeeps ==
  ASSUME BuildInv, RepeatPreview
  PROVE  [Next]_vars /\ BuildInv'
<1> USE DEF BuildInv, Before
<1>1. UNCHANGED <<vars, template, publication, released, reported, handler>>
      /\ build' = Superseding("preview") /\ "preview" \in Kinds
  BY DEF RepeatPreview, Kinds
<1>2. [Next]_vars /\ QueueInv' /\ UNCHANGED job
  BY <1>1, QueueInvStep DEF vars
<1>3. /\ build' \in [Jobs -> Build]
      /\ \A i \in Jobs :
           /\ build'[i].kind = build[i].kind
           /\ \/ build'[i].status = build[i].status
              \/ /\ build'[i].status = "superseded"
                 /\ build[i].kind = "preview" /\ build[i].status \in ActiveBuild
  BY <1>1, SupersedingSteps
<1>4. BTypeOK' /\ BuildsLinked' /\ OwnedHasNotFailed' /\ OnlyPreviews' /\ EndedWithJob'
  <2>1. BTypeOK'
    BY <1>1, <1>3 DEF BTypeOK
  <2>2. BuildsLinked' /\ OnlyPreviews' /\ EndedWithJob'
    BY <1>2, <1>3 DEF BuildsLinked, OnlyPreviews, EndedWithJob, ActiveBuild
  <2>3. OwnedHasNotFailed'
    BY <1>1, <1>2, <1>3 DEF OwnedHasNotFailed
  <2> QED BY <2>1, <2>2, <2>3
<1>5. Results'
  BY <1>1, <1>3 DEF Results, FormalBuilds, PublicationFollowsBuild, CompletedHasEnded,
                    ReadyWasTested, ActiveBuild
<1> QED BY <1>2, <1>4, <1>5

LEMMA ClaimBuildKeeps ==
  ASSUME BuildInv, NEW w \in Workers, NEW j \in Jobs, NEW lease \in LeaseTerms,
         ClaimBuild(w, j, lease)
  PROVE  [Next]_vars /\ BuildInv'
<1> USE DEF BuildInv, Before
<1>1. ClaimJob(w, j, lease) /\ UNCHANGED <<template, publication, released, reported>>
  BY DEF ClaimBuild
<1>2. [Next]_vars /\ QueueInv'
  BY <1>1, QueueInvStep DEF Next
<1>3. \A i \in Jobs : Stays(job[i], job'[i])
  BY <1>1, ClaimStays
<1>4. /\ job'[j].status = "running" /\ job'[j].lockedBy = w
      /\ \A i \in Jobs \ {j} : job'[i] = Recovered(job[i])
      /\ \A i \in Jobs : job'[i].status = "succeeded" <=> job[i].status = "succeeded"
  BY <1>1, ClaimSteps
<1>5. \A i \in Jobs \ {j} : job'[i].lockedBy \in {NoWorker, job[i].lockedBy}
  BY <1>4, RecoveredInv DEF QueueInv, RowInv, Consistent
<1>6. /\ build' \in [Jobs -> Build]
      /\ \A i \in Jobs :
           /\ build'[i].kind = build[i].kind
           /\ \/ build'[i].status = build[i].status
              \/ build'[i].status = "running" /\ build[i].status = "queued"
  <2>1. build[j] \in Build /\ build \in [Jobs -> Build]
    BY DEF BTypeOK
  <2>2. /\ MarkBuildRunning(build[j]) \in Build
        /\ MarkBuildRunning(build[j]).kind = build[j].kind
        /\ \/ MarkBuildRunning(build[j]).status = build[j].status
           \/ /\ MarkBuildRunning(build[j]).status = "running"
              /\ build[j].status = "queued"
    BY <2>1 DEF MarkBuildRunning, Build, ActiveBuild
  <2>3. build' = [build EXCEPT ![j] = MarkBuildRunning(build[j])]
    BY DEF ClaimBuild
  <2> QED BY <2>1, <2>2, <2>3
<1>7. /\ handler' \in [Workers -> [Jobs -> HandlerStates]]
      /\ \A i \in Jobs : handler'[w][i] \notin WorkDone
      /\ \A v \in Workers \ {w} : handler'[v] = handler[v]
  BY DEF ClaimBuild, BTypeOK, HandlerStates, WorkDone
<1>8. BTypeOK'
  BY <1>1, <1>6, <1>7 DEF BTypeOK, HandlerStates
<1>9. BuildsLinked' /\ EndedWithJob' /\ OnlyPreviews'
  BY <1>3, <1>4, <1>6 DEF BuildsLinked, EndedWithJob, OnlyPreviews, Stays, ActiveBuild
<1>10. OwnedHasNotFailed'
  <2> SUFFICES ASSUME NEW v \in Workers, NEW i \in Jobs,
                      job'[i].lockedBy = v, handler'[v][i] \in WorkDone
               PROVE  build'[i].status \notin {"absent", "failed"}
    BY DEF OwnedHasNotFailed
  <2>1. v # w /\ i # j
    BY <1>4, <1>7
  <2>2. job[i].lockedBy = v /\ handler[v][i] \in WorkDone
    BY <1>5, <1>7, <2>1, JobQueueConstants
  <2> QED BY <1>6, <2>2 DEF OwnedHasNotFailed
<1>11. Results'
  <2> USE DEF Results
  <2>1. FormalBuilds'
    BY <1>1, <1>6 DEF FormalBuilds
  <2>2. PublicationFollowsBuild'
    BY <1>1, <1>6 DEF PublicationFollowsBuild, FormalBuilds, ActiveBuild
  <2>3. CompletedHasEnded' /\ ReadyWasTested'
    BY <1>1, <1>6 DEF CompletedHasEnded, ReadyWasTested
  <2> QED BY <2>1, <2>2, <2>3
<1> QED BY <1>2, <1>8, <1>9, <1>10, <1>11

\* What the hook of a completion does once it has read the build.
LEMMA CompleteBuildSteps ==
  ASSUME BTypeOK, NEW j \in Jobs, build[j].status \notin {"absent", "failed"}, CompleteBuild(j)
  PROVE  /\ build' \in [Jobs -> Build]
         /\ build'[j].kind = build[j].kind
         /\ build'[j].status \in {"succeeded", "superseded"}
         /\ build'[j].status = "superseded" <=> build[j].status = "superseded"
         /\ \A i \in Jobs \ {j} : build'[i] = build[i]
         /\ template' = IF build[j].kind = "template_test" THEN "ready" ELSE template
         /\ publication' \in [Publications -> Publication]
         /\ \A p \in Publications :
              IF publication[p].build = j
              THEN /\ publication'[p].build = j /\ publication'[p].status = "released"
                   /\ <<p, j>> \in released'
              ELSE publication'[p] = publication[p]
         /\ released \subseteq released' /\ released' \subseteq Publications \X Jobs
         /\ reported' \in [Jobs -> SUBSET {"queued", "completed", "failed"}]
         /\ \A i \in Jobs \ {j} : reported'[i] = reported[i]
<1> DEFINE mine == {p \in Publications : publication[p].build = j}
           status == IF build[j].status \in ActiveBuild THEN "succeeded" ELSE build[j].status
<1>1. build[j] \in Build /\ build \in [Jobs -> Build]
  BY DEF BTypeOK
<1>2. /\ build' = [build EXCEPT ![j] = [build[j] EXCEPT !.status = status]]
      /\ template' = IF build[j].kind = "template_test" THEN "ready" ELSE template
      /\ publication' = [p \in Publications |->
           IF p \in mine THEN [publication[p] EXCEPT !.status = "released"] ELSE publication[p]]
      /\ released' = released \cup (mine \X {j})
      /\ Report(j, "completed")
  BY <1>1 DEF CompleteBuild
<1>3. /\ status \in {"succeeded", "superseded"}
      /\ status = "superseded" <=> build[j].status = "superseded"
  BY <1>1 DEF Build, ActiveBuild
<1> HIDE DEF status
<1>4. /\ [build[j] EXCEPT !.status = status] \in Build
      /\ [build[j] EXCEPT !.status = status].status = status
      /\ [build[j] EXCEPT !.status = status].kind = build[j].kind
  BY <1>1, <1>3 DEF Build
<1>5. /\ build' \in [Jobs -> Build]
      /\ build'[j].status = status /\ build'[j].kind = build[j].kind
      /\ \A i \in Jobs \ {j} : build'[i] = build[i]
  BY <1>1, <1>2, <1>4
<1>6. /\ publication' \in [Publications -> Publication]
      /\ \A p \in Publications :
           IF publication[p].build = j
           THEN publication'[p].build = j /\ publication'[p].status = "released"
           ELSE publication'[p] = publication[p]
  BY <1>2 DEF BTypeOK, Publication
<1>7. /\ released \subseteq released' /\ released' \subseteq Publications \X Jobs
      /\ \A p \in Publications : publication[p].build = j => <<p, j>> \in released'
  BY <1>2 DEF BTypeOK
<1>8. /\ reported' \in [Jobs -> SUBSET {"queued", "completed", "failed"}]
      /\ \A i \in Jobs \ {j} : reported'[i] = reported[i]
  BY <1>2 DEF BTypeOK, Report
<1> QED BY <1>2, <1>3, <1>5, <1>6, <1>7, <1>8

LEMMA SubmitResultKeeps ==
  ASSUME BuildInv, NEW w \in Workers, NEW j \in Jobs, SubmitResult(w, j)
  PROVE  [Next]_vars /\ BuildInv'
<1> USE DEF BuildInv, Before
<1>1. /\ Complete(w, j) /\ Leave(w) /\ handler[w][j] \in WorkDone
      /\ \/ CompleteBuild(j)
         \/ build[j].status = "superseded" /\ UNCHANGED outcomes
  BY DEF SubmitResult, HasRead, FindsSuperseded, Entering, WorkDone, outcomes
<1>2. [Next]_vars /\ QueueInv'
  BY <1>1, QueueInvStep DEF Next
<1>3. /\ \A i \in Jobs : Stays(job[i], job'[i])
      /\ \A i \in Jobs \ {j} : job'[i] = job[i]
      /\ job[j].lockedBy = w /\ job'[j].lockedBy = NoWorker
      /\ job'[j].status \in {"cancelled", "timed_out", "succeeded"}
  BY <1>1, CompleteStays, CompletionSteps
<1>4. HandlerMoves
  BY <1>1, LeaveMoves
<1>5. build[j].status \notin {"absent", "failed"}
  BY <1>1, <1>3 DEF OwnedHasNotFailed
<1>6. \A v \in Workers, i \in Jobs :
        job'[i].lockedBy = v /\ handler'[v][i] \in WorkDone
        => i # j /\ build[i].status \notin {"absent", "failed"}
  BY <1>3, <1>4, JobQueueConstants DEF OwnedHasNotFailed, HandlerMoves, ActiveBuild
<1>7. CASE build[j].status = "superseded" /\ UNCHANGED outcomes
  <2>1. BTypeOK' /\ OwnedHasNotFailed' /\ OnlyPreviews'
    BY <1>4, <1>6, <1>7 DEF BTypeOK, HandlerMoves, HandlerStates, OwnedHasNotFailed, OnlyPreviews,
                            outcomes
  <2>2. BuildsLinked' /\ EndedWithJob'
    BY <1>3, <1>7 DEF BuildsLinked, EndedWithJob, Stays, outcomes, ActiveBuild
  <2> QED BY <1>2, <1>7, <2>1, <2>2, ResultsKept
<1>8. CASE CompleteBuild(j)
  <2>1. /\ build' \in [Jobs -> Build]
        /\ build'[j].kind = build[j].kind
        /\ build'[j].status \in {"succeeded", "superseded"}
        /\ build'[j].status = "superseded" <=> build[j].status = "superseded"
        /\ \A i \in Jobs \ {j} : build'[i] = build[i]
        /\ template' = IF build[j].kind = "template_test" THEN "ready" ELSE template
        /\ publication' \in [Publications -> Publication]
        /\ \A p \in Publications :
             IF publication[p].build = j
             THEN /\ publication'[p].build = j /\ publication'[p].status = "released"
                  /\ <<p, j>> \in released'
             ELSE publication'[p] = publication[p]
        /\ released \subseteq released' /\ released' \subseteq Publications \X Jobs
        /\ reported' \in [Jobs -> SUBSET {"queued", "completed", "failed"}]
        /\ \A i \in Jobs \ {j} : reported'[i] = reported[i]
    BY <1>5, <1>8, CompleteBuildSteps
  <2>2. BTypeOK'
    BY <1>4, <2>1 DEF BTypeOK, HandlerMoves, HandlerStates
  <2>3. BuildsLinked' /\ EndedWithJob' /\ OnlyPreviews'
    BY <1>3, <1>5, <2>1 DEF BuildsLinked, EndedWithJob, OnlyPreviews, Stays, ActiveBuild
  <2>4. OwnedHasNotFailed'
    BY <1>6, <2>1 DEF OwnedHasNotFailed
  <2>5. FormalBuilds' /\ PublicationFollowsBuild'
    <3> SUFFICES ASSUME NEW p \in Publications
                 PROVE  LET status == publication'[p].status
                            current == publication'[p].build
                        IN /\ status = "absent" => current = NoBuild
                           /\ status # "absent" => current \in Jobs /\ build'[current].kind = "formal"
                           /\ status = "building" => build'[current].status \in ActiveBuild
                           /\ status = "released" => build'[current].status = "succeeded"
                                                     /\ <<p, current>> \in released'
                           /\ status = "failed" => build'[current].status = "failed"
      BY DEF FormalBuilds, PublicationFollowsBuild
    <3>1. FormalBuilds /\ PublicationFollowsBuild
      BY DEF Results
    <3>2. CASE publication[p].build = j
      <4>1. build[j].kind = "formal"
        BY <3>1, <3>2, ArticleConstants DEF FormalBuilds
      <4>2. build'[j].status = "succeeded"
        BY <2>1, <4>1 DEF OnlyPreviews
      <4> QED BY <2>1, <3>2, <4>1, <4>2
    <3>3. CASE publication[p].build # j /\ publication[p].status = "absent"
      BY <2>1, <3>1, <3>3 DEF FormalBuilds
    <3>4. CASE publication[p].build # j /\ publication[p].status # "absent"
      <4>1. publication'[p] = publication[p] /\ publication[p].build \in Jobs \ {j}
            /\ build[publication[p].build].kind = "formal"
        BY <2>1, <3>1, <3>4 DEF FormalBuilds
      <4>2. build'[publication[p].build] = build[publication[p].build]
        BY <2>1, <4>1
      <4> QED BY <2>1, <3>1, <3>4, <4>1, <4>2 DEF PublicationFollowsBuild
    <3> QED BY <3>2, <3>3, <3>4
  <2>6. CompletedHasEnded'
    <3>1. build'[j].status = "superseded" => build'[j].kind = "preview"
      BY <2>1 DEF OnlyPreviews
    <3> QED BY <2>1, <3>1 DEF Results, CompletedHasEnded
  <2>7. ReadyWasTested'
    <3>1. build[j].kind = "template_test" => build'[j].status = "succeeded"
      BY <2>1 DEF OnlyPreviews
    <3>2. \A i \in Jobs : build[i].status = "succeeded" => build'[i].status = "succeeded"
      BY <2>1
    <3>3. \A i \in Jobs : build'[i].kind = build[i].kind
      BY <2>1
    <3> QED BY <2>1, <3>1, <3>2, <3>3 DEF Results, ReadyWasTested
  <2> QED BY <1>2, <2>2, <2>3, <2>4, <2>5, <2>6, <2>7 DEF Results
<1> QED BY <1>1, <1>7, <1>8

-----------------------------------------------------------------------------
(* Every step.                                                             *)

LEMMA BuildInvStep == BuildInv /\ [BNext]_buildVars => [Next]_vars /\ BuildInv'
<1> SUFFICES ASSUME BuildInv, [BNext]_buildVars PROVE [Next]_vars /\ BuildInv'
  OBVIOUS
<1> DEFINE Good == [Next]_vars /\ BuildInv'
<1>1. ASSUME NEW j \in Jobs, RegisterTemplate(j) PROVE Good
  BY <1>1, NewBuildKeeps DEF RegisterTemplate, Republished, Kinds
<1>2. ASSUME NEW j \in Jobs, NEW kind \in {"formal", "preview"}, CreateBuild(j, kind) PROVE Good
  BY <1>2, NewBuildKeeps DEF CreateBuild, Republished, Kinds
<1>3. ASSUME NEW old \in Jobs, NEW j \in Jobs, RetryBuild(old, j) PROVE Good
  <2>1. build[old].kind \in Kinds
    BY DEF BuildInv, Before, BTypeOK, Build
  <2> QED BY <1>3, <2>1, NewBuildKeeps DEF RetryBuild, Republished
<1>4. ASSUME NEW p \in Publications, NEW j \in Jobs,
             CreatePublicationBuild(p, j) \/ RetryPublicationBuild(p, j)
      PROVE  Good
  <2>1. NewBuild(j, "formal") /\ Republished(j, "formal") /\ "formal" \in Kinds
    BY <1>4 DEF CreatePublicationBuild, RetryPublicationBuild, Republished, Kinds
  <2> QED BY <2>1, NewBuildKeeps
<1>5. ASSUME NEW w \in Workers, NEW j \in Jobs, NEW lease \in LeaseTerms, ClaimBuild(w, j, lease)
      PROVE  Good
  BY <1>5, ClaimBuildKeeps
<1>6. ASSUME NEW w \in Workers, NEW j \in Jobs, WorkerProgress(w, j) \/ SubmitResult(w, j)
      PROVE  Good
  BY <1>6, WorkerProgressKeeps, SubmitResultKeeps
<1>7. ASSUME NEW w \in Workers, NEW j \in Jobs, NEW retryable \in BOOLEAN,
             NEW delay \in Delays, SubmitFailure(w, j, retryable, delay)
      PROVE  Good
  BY <1>7, SubmitFailureKeeps
<1>8. ASSUME NEW w \in Workers, Abandon(w) PROVE Good
  BY <1>8, AbandonKeeps
<1>9. ASSUME ReconcileBuildStates PROVE Good
  BY <1>9, ReconcileKeeps
<1>10. ASSUME BuildsIdle \/ UNCHANGED buildVars PROVE Good
  BY <1>10, QueueOnlyKeeps
<1>11. ASSUME RepeatPreview PROVE Good
  BY <1>11, RepeatPreviewKeeps
<1>12. ASSUME NEW w \in Workers, NEW j \in Jobs, NEW hook \in {"completing", "failing"},
              EnterHook(w, j, hook)
       PROVE  Good
  BY <1>12, EnterHookKeeps
<1> HIDE DEF Good
<1>13. Good
  BY <1>1, <1>2, <1>3, <1>4, <1>5, <1>6, <1>7, <1>8, <1>9, <1>10, <1>11, <1>12 DEF BNext
<1> QED BY <1>13 DEF Good

LEMMA BuildInvInit == BInit => Init /\ BuildInv
<1> SUFFICES ASSUME BInit PROVE BuildInv
  BY DEF BInit
<1>1. QueueInv
  BY QueueInvInit DEF BInit
<1>2. BTypeOK
  BY DEF BInit, BTypeOK, Build, Kinds, ActiveBuild, Publication
<1>3. BuildsLinked /\ EndedWithJob
  BY DEF BInit, Init, NewRow, BuildsLinked, EndedWithJob, ActiveBuild
<1>4. OwnedHasNotFailed /\ OnlyPreviews
  BY DEF BInit, OwnedHasNotFailed, OnlyPreviews, WorkDone
<1>5. Results
  BY DEF BInit, Results, FormalBuilds, PublicationFollowsBuild, CompletedHasEnded,
         ReadyWasTested
<1> QED BY <1>1, <1>2, <1>3, <1>4, <1>5 DEF BuildInv, Before

THEOREM BuildInvHolds == BSpec => []BuildInv
BY BuildInvInit, BuildInvStep, PTL DEF BSpec

\* Builds implement the queue: the hooks add to its steps and change none.
THEOREM BuildsUseTheQueue == BSpec => Spec
BY BuildInvInit, BuildInvStep, BuildInvHolds, PTL DEF BSpec, Spec

\* Every variable of the builds keeps its type.
THEOREM BuildsTypeCorrect == BSpec => []BTypeOK
<1>1. BuildInv => BTypeOK
  BY DEF BuildInv, Before
<1> QED BY <1>1, BuildInvHolds, PTL

\* A publication is in the state of its build, with a release of that build.
THEOREM PublicationsFollow == BSpec => []PublicationFollowsBuild
<1>1. BuildInv => PublicationFollowsBuild
  BY DEF BuildInv, Results
<1> QED BY <1>1, BuildInvHolds, PTL

\* Every build that was reported completed has succeeded, or is a preview that
\* was superseded, also while the hook of its job had read it already.
THEOREM CompletedBuildsHaveEnded == BSpec => []CompletedHasEnded
<1>1. BuildInv => CompletedHasEnded
  BY DEF BuildInv, Results
<1> QED BY <1>1, BuildInvHolds, PTL

\* A template in use has passed a test.
THEOREM ReadyTemplatesWereTested == BSpec => []ReadyWasTested
<1>1. BuildInv => ReadyWasTested
  BY DEF BuildInv, Results
<1> QED BY <1>1, BuildInvHolds, PTL

\* Whatever ended the job of an active build, the next repair ends the build.
THEOREM StrandedBuildsAreFound == BSpec => []NoBuildIsStranded
<1>1. BuildInv => NoBuildIsStranded
  BY DEF BuildInv, Before, EndedWithJob, NoBuildIsStranded, Stranded, Terminal
<1> QED BY <1>1, BuildInvHolds, PTL
=============================================================================
