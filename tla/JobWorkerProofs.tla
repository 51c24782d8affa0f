-------------------------- MODULE JobWorkerProofs ---------------------------
(***************************************************************************)
(* Proofs about JobWorker for any number of jobs, workers, late requests   *)
(* and crashes.  A step of the workers is a step of the queue, of one of   *)
(* five kinds (WorkerSteps): it gives a worker a job, it ends one, one of  *)
(* the two comes from a late request, or it is a quiet step of the queue.  *)
(* What holds between the workers and the rows follows from the kinds.     *)
(***************************************************************************)
EXTENDS JobWorker, JobQueueProofs

\* A busy worker has a job, and so has a late request but for a claim.
ProcessOK(p) == p \in Process /\ (p.phase \in Busy => p.job \in Jobs)
RequestOK(m) == m \in Request /\ (m.kind # "claim" => m.job \in Jobs)

Typed ==
  /\ worker \in [Workers -> Process]
  /\ \A w \in Workers : ProcessOK(worker[w])
  /\ \A m \in late : RequestOK(m)
  /\ unanswered \in BOOLEAN
  /\ crashes \in 0..MaxCrashes
  /\ produced \in [Jobs -> SUBSET Nat]

\* There is a result behind every request to complete.
ResultsBehind ==
  /\ \A w \in Workers : worker[w].phase = "completing" => produced[worker[w].job] # {}
  /\ \A m \in late : m.kind = "complete" => produced[m.job] # {}

-----------------------------------------------------------------------------
(* The kinds of steps.                                                     *)

Takes(w, j) ==
  /\ ClaimJob(w, j, Lease)
  /\ worker' = [worker EXCEPT ![w] = Working(j, job'[j].attempts)]
  /\ UNCHANGED <<late, unanswered, produced>>

Completes(w) ==
  /\ worker[w].phase = "completing"
  /\ Complete(w, worker[w].job)
  /\ worker' = [worker EXCEPT ![w] = Idle("polling")]
  /\ UNCHANGED <<late, unanswered, produced>>

LateClaim(m) ==
  /\ m \in late /\ m.kind = "claim"
  /\ \E j \in Jobs : ClaimJob(m.worker, j, Lease)
  /\ late' = late \ {m} /\ UNCHANGED <<worker, unanswered, produced>>

LateComplete(m) ==
  /\ m \in late /\ m.kind = "complete"
  /\ Complete(m.worker, m.job)
  /\ late' = late \ {m} /\ UNCHANGED <<worker, unanswered, produced>>

\* The worker goes on with the job it has, if it goes on at all.
Keeps(w) ==
  worker'[w].phase \in Busy =>
    /\ worker[w].phase \in Busy
    /\ worker'[w].job = worker[w].job
    /\ worker'[w].attempt = worker[w].attempt

\* A client that gives up on a request sets unanswered.
QuietStep ==
  /\ Quiet
  /\ \A v \in Workers : Keeps(v)
  /\ \/ late' \subseteq late /\ unanswered' = unanswered
     \/ unanswered' = TRUE
  /\ \A j \in Jobs : produced[j] \subseteq produced'[j]
  /\ ResultsBehind => ResultsBehind'

KindOfStep ==
  \/ \E w \in Workers : Completes(w) \/ \E j \in Jobs : Takes(w, j)
  \/ \E m \in late : LateClaim(m) \/ LateComplete(m)
  \/ QuietStep

LeaseIsATerm == Lease \in LeaseTerms /\ Lease > 1 /\ Lease \in Nat

LEMMA LeaseTerm == LeaseIsATerm
BY JobWorkerConstants, JobQueueConstants DEF LeaseIsATerm

-----------------------------------------------------------------------------
(* Types                                                                   *)

LEMMA IntervalTyped == RenewInterval \in Nat /\ RenewInterval > 0 /\ RenewInterval < Lease
BY LeaseTerm DEF RenewInterval, LeaseIsATerm

LEMMA IdleTyped ==
  ASSUME NEW phase \in {"polling", "backoff", "down"}
  PROVE  Idle(phase) \in Process /\ Idle(phase).phase = phase /\ phase \notin Busy
BY DEF Idle, Process, Phases, Busy

LEMMA WorkingTyped ==
  ASSUME NEW j \in Jobs, NEW n \in Nat
  PROVE  /\ Working(j, n) \in Process
         /\ Working(j, n).phase = "handling" /\ Working(j, n).job = j
         /\ Working(j, n).attempt = n /\ Working(j, n).renewIn = RenewInterval
<1> DEFINE i == Idle("handling")
<1>1. i = [phase |-> "handling", job |-> NoJob, attempt |-> 0, renewIn |-> 0,
           cancelSeen |-> FALSE, renewFailed |-> FALSE, retryable |-> FALSE, tardy |-> FALSE]
  BY DEF Idle
<1>2. Working(j, n) = [i EXCEPT !.job = j, !.attempt = n, !.renewIn = RenewInterval]
  BY DEF Working
<1>3. RenewInterval \in Nat
  BY IntervalTyped
<1>4. "handling" \in Phases
  BY DEF Phases
<1> HIDE DEF i
<1> QED BY <1>1, <1>2, <1>3, <1>4 DEF Process

LEMMA GotoTyped ==
  ASSUME Typed, NEW w \in Workers, NEW p, ProcessOK(p), Goto(w, p)
  PROVE  /\ worker' \in [Workers -> Process]
         /\ \A v \in Workers : ProcessOK(worker'[v])
         /\ worker'[w] = p
         /\ \A v \in Workers \ {w} : worker'[v] = worker[v]
BY DEF Typed, Goto, ProcessOK

LEMMA TimesOutTyped ==
  ASSUME Typed, NEW kind \in {"claim", "renew", "complete", "fail"}, NEW w \in Workers,
         NEW j \in Jobs \cup {NoJob}, kind # "claim" => j \in Jobs, TimesOut(kind, w, j)
  PROVE  /\ \A m \in late' : RequestOK(m)
         /\ unanswered' = TRUE /\ UNCHANGED vars
         /\ late' = late \cup {[kind |-> kind, worker |-> w, job |-> j]}
<1> DEFINE m == [kind |-> kind, worker |-> w, job |-> j]
<1>1. RequestOK(m)
  BY DEF RequestOK, Request
<1>2. late' = late \cup {m} /\ unanswered' = TRUE /\ UNCHANGED vars
  BY DEF TimesOut
<1> QED BY <1>1, <1>2 DEF Typed

-----------------------------------------------------------------------------
(* Each action keeps the types and is of one of the kinds.                 *)

LEMMA PollAnsweredKind ==
  ASSUME QueueInv, Typed, NEW w \in Workers, PollAnswered(w)
  PROVE  Typed' /\ KindOfStep
<1>1. CASE ClaimNone /\ UNCHANGED worker
  <2>1. UNCHANGED <<late, unanswered, crashes, produced, worker>>
    BY <1>1 DEF PollAnswered
  <2>2. QuietStep
    BY <1>1, <2>1 DEF QuietStep, Quiet, Keeps, ResultsBehind
  <2> QED BY <2>1, <2>2 DEF Typed, KindOfStep
<1>2. ASSUME NEW j \in Jobs, ClaimJob(w, j, Lease),
             Goto(w, Working(j, job'[j].attempts))
      PROVE  Typed' /\ KindOfStep
  <2>1. UNCHANGED <<late, unanswered, crashes, produced>>
    BY DEF PollAnswered
  <2>2. job'[j].attempts \in Nat
    BY <1>2, LeaseTerm, ClaimSteps DEF LeaseIsATerm, QueueInv, RowInv, Row
  <2>3. ProcessOK(Working(j, job'[j].attempts))
    BY <2>2, WorkingTyped DEF ProcessOK
  <2>4. Typed'
    BY <1>2, <2>1, <2>3, GotoTyped DEF Typed
  <2>5. Takes(w, j)
    BY <1>2, <2>1 DEF Takes, Goto
  <2> QED BY <2>4, <2>5 DEF KindOfStep
<1> QED BY <1>1, <1>2 DEF PollAnswered

\* A quiet step of the queue beside a step of one worker that goes on.
LEMMA OneWorkerMoves ==
  ASSUME Typed, NEW w \in Workers, NEW p, ProcessOK(p), Goto(w, p), Quiet,
         p.phase \in Busy => /\ worker[w].phase \in Busy
                             /\ p.job = worker[w].job /\ p.attempt = worker[w].attempt,
         \/ UNCHANGED <<late, unanswered>>
         \/ \E kind \in {"claim", "renew", "complete", "fail"} :
              /\ kind = "claim" \/ worker[w].phase \in Busy
              /\ kind = "complete" => worker[w].phase = "completing"
              /\ TimesOut(kind, w, IF kind = "claim" THEN NoJob ELSE worker[w].job),
         produced' \in [Jobs -> SUBSET Nat],
         \A j \in Jobs : produced[j] \subseteq produced'[j],
         p.phase = "completing" =>
           produced'[p.job] # {} \/ worker[w].phase = "completing",
         crashes' \in 0..MaxCrashes
  PROVE  Typed' /\ QuietStep
<1>1. /\ worker' \in [Workers -> Process]
      /\ \A v \in Workers : ProcessOK(worker'[v])
      /\ worker'[w] = p
      /\ \A v \in Workers \ {w} : worker'[v] = worker[v]
  BY GotoTyped
<1>2. \A v \in Workers : Keeps(v)
  BY <1>1 DEF Keeps
<1>3. /\ \A m \in late' : RequestOK(m)
      /\ unanswered' \in BOOLEAN
      /\ (late' = late /\ unanswered' = unanswered) \/ unanswered' = TRUE
      /\ \A m \in late' : m.kind = "complete" =>
           m \in late \/ (worker[w].phase = "completing" /\ m.job = worker[w].job)
  <2>1. CASE UNCHANGED <<late, unanswered>>
    BY <2>1 DEF Typed
  <2>2. ASSUME NEW kind \in {"claim", "renew", "complete", "fail"},
               kind = "claim" \/ worker[w].phase \in Busy,
               kind = "complete" => worker[w].phase = "completing",
               TimesOut(kind, w, IF kind = "claim" THEN NoJob ELSE worker[w].job)
        PROVE  /\ \A m \in late' : RequestOK(m)
               /\ unanswered' = TRUE
               /\ \A m \in late' : m.kind = "complete" =>
                    m \in late \/ (worker[w].phase = "completing" /\ m.job = worker[w].job)
    <3> DEFINE j == IF kind = "claim" THEN NoJob ELSE worker[w].job
    <3>1. j \in Jobs \cup {NoJob} /\ (kind # "claim" => j \in Jobs)
      BY <2>2 DEF Typed, ProcessOK
    <3>2. TimesOut(kind, w, j)
      BY <2>2
    <3>3. kind = "complete" => j = worker[w].job
      OBVIOUS
    <3> HIDE DEF j
    <3>4. /\ \A m \in late' : RequestOK(m)
          /\ unanswered' = TRUE
          /\ late' = late \cup {[kind |-> kind, worker |-> w, job |-> j]}
      BY <3>1, <3>2, TimesOutTyped
    <3> QED BY <2>2, <3>3, <3>4
  <2> QED BY <2>1, <2>2
<1>4. ASSUME ResultsBehind PROVE ResultsBehind'
  <2>1. \A v \in Workers : worker'[v].phase = "completing" => produced'[worker'[v].job] # {}
    <3> SUFFICES ASSUME NEW v \in Workers, worker'[v].phase = "completing"
                 PROVE  produced'[worker'[v].job] # {}
      OBVIOUS
    <3>1. worker[v].phase = "completing" => /\ worker[v].job \in Jobs
                                            /\ produced[worker[v].job] # {}
      BY <1>4 DEF Typed, ProcessOK, Busy, ResultsBehind
    <3>2. worker[v].phase = "completing" => worker'[v].job = worker[v].job
      BY <1>1 DEF Busy
    <3>3. worker[v].phase = "completing" \/ (v = w /\ produced'[p.job] # {})
      BY <1>1
    <3> QED BY <1>1, <3>1, <3>2, <3>3
  <2>2. \A m \in late' : m.kind = "complete" => produced'[m.job] # {}
    <3> SUFFICES ASSUME NEW m \in late', m.kind = "complete" PROVE produced'[m.job] # {}
      OBVIOUS
    <3>1. m.job \in Jobs
      BY <1>3 DEF RequestOK
    <3>2. produced[m.job] # {}
      BY <1>3, <1>4 DEF ResultsBehind
    <3> QED BY <3>1, <3>2
  <2> QED BY <2>1, <2>2 DEF ResultsBehind
<1>5. QuietStep
  BY <1>2, <1>3, <1>4 DEF QuietStep
<1>6. Typed'
  BY <1>1, <1>3 DEF Typed
<1> QED BY <1>5, <1>6

\* The new states of a worker that the actions below write.
LEMMA FailingOK ==
  ASSUME NEW p, ProcessOK(p), p.phase \in Busy, NEW b \in BOOLEAN
  PROVE  LET q == [p EXCEPT !.phase = "failing", !.retryable = b]
         IN  ProcessOK(q) /\ q.phase = "failing" /\ q.job = p.job /\ q.attempt = p.attempt
BY DEF ProcessOK, Process, Phases, Busy

LEMMA CompletingOK ==
  ASSUME NEW p, ProcessOK(p), p.phase \in Busy
  PROVE  LET q == [p EXCEPT !.phase = "completing"]
         IN  ProcessOK(q) /\ q.job = p.job /\ q.attempt = p.attempt
BY DEF ProcessOK, Process, Phases, Busy

LEMMA RenewingOK ==
  ASSUME NEW p, ProcessOK(p), NEW b \in BOOLEAN, NEW n \in Nat
  PROVE  LET q == [p EXCEPT !.renewIn = n, !.cancelSeen = b]
         IN  ProcessOK(q) /\ q.phase = p.phase /\ q.job = p.job /\ q.attempt = p.attempt
BY DEF ProcessOK, Process

LEMMA NotRenewingOK ==
  ASSUME NEW p, ProcessOK(p)
  PROVE  LET q == [p EXCEPT !.renewFailed = TRUE]
         IN  ProcessOK(q) /\ q.phase = p.phase /\ q.job = p.job /\ q.attempt = p.attempt
BY DEF ProcessOK, Process

LEMMA IdleOK ==
  ASSUME NEW phase \in {"polling", "backoff", "down"}
  PROVE  /\ ProcessOK(Idle(phase)) /\ Idle(phase).phase = phase
         /\ Idle(phase).phase \notin Busy
BY IdleTyped DEF ProcessOK

LEMMA PollTimesOutKind ==
  ASSUME QueueInv, Typed, NEW w \in Workers, PollTimesOut(w)
  PROVE  Typed' /\ KindOfStep
<1>1. /\ TimesOut("claim", w, NoJob) /\ Goto(w, Idle("backoff"))
      /\ UNCHANGED <<crashes, produced>>
  BY DEF PollTimesOut
<1>2. Quiet
  BY <1>1 DEF TimesOut, Quiet
<1>3. Typed' /\ QuietStep
  BY <1>1, <1>2, IdleOK, OneWorkerMoves DEF Typed, Busy
<1> QED BY <1>3 DEF KindOfStep

LEMMA ResumeKind ==
  ASSUME QueueInv, Typed, NEW w \in Workers,
         Resume(w) \/ Restart(w) \/ Crash(w)
  PROVE  Typed' /\ KindOfStep
<1>1. \E phase \in {"polling", "down"} : Goto(w, Idle(phase))
  BY DEF Resume, Restart, Crash
<1>2. UNCHANGED <<vars, late, unanswered, produced>>
  BY DEF Resume, Restart, Crash
<1>3. crashes' \in 0..MaxCrashes
  BY JobWorkerConstants DEF Resume, Restart, Crash, Typed
<1>4. Quiet
  BY <1>2 DEF Quiet
<1>5. Typed' /\ QuietStep
  BY <1>1, <1>2, <1>3, <1>4, IdleOK, OneWorkerMoves DEF Typed, Busy
<1> QED BY <1>5 DEF KindOfStep

LEMMA HandlerReturnsKind ==
  ASSUME QueueInv, Typed, NEW w \in Workers, HandlerReturns(w)
  PROVE  Typed' /\ KindOfStep
<1> DEFINE p == worker[w]
           q == IF p.cancelSeen THEN [p EXCEPT !.phase = "failing", !.retryable = FALSE]
                ELSE IF p.renewFailed THEN [p EXCEPT !.phase = "failing", !.retryable = TRUE]
                ELSE [p EXCEPT !.phase = "completing"]
<1>1. /\ p.phase = "handling" /\ Goto(w, q)
      /\ produced' = [produced EXCEPT ![p.job] = @ \cup {p.attempt}]
      /\ UNCHANGED <<vars, late, unanswered, crashes>>
  BY DEF HandlerReturns
<1>2. p.phase \in Busy /\ p.job \in Jobs /\ ProcessOK(p) /\ p.attempt \in Nat
  BY <1>1 DEF Typed, ProcessOK, Busy, Process
<1>3. /\ produced' \in [Jobs -> SUBSET Nat]
      /\ \A j \in Jobs : produced[j] \subseteq produced'[j]
      /\ produced'[p.job] # {}
  BY <1>1, <1>2 DEF Typed
<1>4. ProcessOK(q) /\ q.job = p.job /\ q.attempt = p.attempt
  BY <1>2, FailingOK, CompletingOK
<1>5. Quiet /\ crashes' \in 0..MaxCrashes
  BY <1>1 DEF Quiet, Typed
<1> HIDE DEF q
<1>6. Typed' /\ QuietStep
  BY <1>1, <1>2, <1>3, <1>4, <1>5, OneWorkerMoves
<1> QED BY <1>6 DEF KindOfStep

LEMMA HandlerRaisesKind ==
  ASSUME QueueInv, Typed, NEW w \in Workers, NEW retryable \in BOOLEAN,
         HandlerRaises(w, retryable)
  PROVE  Typed' /\ KindOfStep
<1> DEFINE p == worker[w]
           q == [p EXCEPT !.phase = "failing", !.retryable = retryable]
<1>1. /\ p.phase = "handling" /\ Goto(w, q)
      /\ UNCHANGED <<vars, late, unanswered, crashes, produced>>
  BY DEF HandlerRaises
<1>2. p.phase \in Busy /\ ProcessOK(p)
  BY <1>1 DEF Typed, Busy
<1>3. ProcessOK(q) /\ q.phase = "failing" /\ q.job = p.job /\ q.attempt = p.attempt
  BY <1>2, FailingOK
<1>4. Quiet /\ crashes' \in 0..MaxCrashes
  BY <1>1 DEF Quiet, Typed
<1> HIDE DEF q
<1>5. Typed' /\ QuietStep
  BY <1>1, <1>2, <1>3, <1>4, OneWorkerMoves DEF Typed
<1> QED BY <1>5 DEF KindOfStep

LEMMA SubmitResultKind ==
  ASSUME QueueInv, Typed, NEW w \in Workers, SubmitResult(w)
  PROVE  Typed' /\ KindOfStep
<1> DEFINE p == worker[w]
           q(b) == [p EXCEPT !.phase = "failing", !.retryable = b]
<1>1. /\ p.phase = "completing" /\ UNCHANGED <<crashes, produced>>
      /\ \/ Complete(w, p.job) /\ Goto(w, Idle("polling")) /\ UNCHANGED <<late, unanswered>>
         \/ Get(p.job) /\ (\E b \in BOOLEAN : Goto(w, q(b))) /\ UNCHANGED <<late, unanswered>>
         \/ TimesOut("complete", w, p.job) /\ Goto(w, q(TRUE))
  BY DEF SubmitResult, Rejected
<1>2. p.phase \in Busy /\ p.job \in Jobs /\ ProcessOK(p)
  BY <1>1 DEF Typed, ProcessOK, Busy
<1>3. \A b \in BOOLEAN : /\ ProcessOK(q(b)) /\ q(b).phase = "failing"
                         /\ q(b).job = p.job /\ q(b).attempt = p.attempt
  BY <1>2, FailingOK
<1>4. CASE Complete(w, p.job) /\ Goto(w, Idle("polling")) /\ UNCHANGED <<late, unanswered>>
  <2>1. Completes(w)
    BY <1>1, <1>4 DEF Completes, Goto
  <2>2. Typed'
    BY <1>1, <1>4, IdleOK, GotoTyped DEF Typed
  <2> QED BY <2>1, <2>2 DEF KindOfStep
<1> HIDE DEF q
<1>5. ASSUME NEW b \in BOOLEAN, Goto(w, q(b)), Quiet,
             \/ UNCHANGED <<late, unanswered>>
             \/ TimesOut("complete", w, p.job)
      PROVE  Typed' /\ QuietStep
  BY <1>1, <1>2, <1>3, <1>5, OneWorkerMoves DEF Typed
<1>6. Get(p.job) \/ TimesOut("complete", w, p.job) => Quiet
  BY <1>2 DEF Quiet, TimesOut
<1> QED BY <1>1, <1>4, <1>5, <1>6 DEF KindOfStep

LEMMA SubmitFailureKind ==
  ASSUME QueueInv, Typed, NEW w \in Workers, SubmitFailure(w)
  PROVE  Typed' /\ KindOfStep
<1> DEFINE p == worker[w]
<1>1. /\ p.phase = "failing" /\ Goto(w, Idle("polling")) /\ UNCHANGED <<crashes, produced>>
      /\ \/ (Fail(w, p.job, p.retryable, 0) \/ Get(p.job)) /\ UNCHANGED <<late, unanswered>>
         \/ TimesOut("fail", w, p.job)
  BY DEF SubmitFailure, Rejected
<1>2. p.phase \in Busy /\ p.job \in Jobs /\ p.retryable \in BOOLEAN
  BY <1>1 DEF Typed, ProcessOK, Busy, Process
<1>3. Quiet
  BY <1>1, <1>2, JobWorkerConstants DEF Quiet, TimesOut
<1>4. Typed' /\ QuietStep
  BY <1>1, <1>2, <1>3, IdleOK, OneWorkerMoves DEF Typed, Busy
<1> QED BY <1>4 DEF KindOfStep

LEMMA RenewLeaseKind ==
  ASSUME QueueInv, Typed, NEW w \in Workers, RenewLease(w)
  PROVE  Typed' /\ KindOfStep
<1> DEFINE p == worker[w]
           q(b) == [p EXCEPT !.renewIn = RenewInterval, !.cancelSeen = b]
           x == [p EXCEPT !.renewFailed = TRUE]
<1>1. /\ p.phase \in Busy /\ UNCHANGED <<crashes, produced>>
      /\ \/ /\ Renew(w, p.job, Lease) /\ UNCHANGED <<late, unanswered>>
            /\ Goto(w, q(p.cancelSeen \/ job[p.job].cancelRequested))
         \/ Get(p.job) /\ Goto(w, x) /\ UNCHANGED <<late, unanswered>>
         \/ TimesOut("renew", w, p.job) /\ Goto(w, x)
  BY DEF RenewLease, Rejected, RenewalIsDue
<1>2. /\ p.job \in Jobs /\ ProcessOK(p)
      /\ (p.cancelSeen \/ job[p.job].cancelRequested) \in BOOLEAN
  BY <1>1 DEF Typed, ProcessOK, Busy, Process
<1>3. \A b \in BOOLEAN : /\ ProcessOK(q(b)) /\ q(b).phase = p.phase
                         /\ q(b).job = p.job /\ q(b).attempt = p.attempt
  <2>1. RenewInterval \in Nat
    BY IntervalTyped
  <2>2. PICK m, n : m = p /\ n = RenewInterval
    OBVIOUS
  <2>3. ProcessOK(m) /\ n \in Nat
    BY <1>2, <2>1, <2>2
  <2> SUFFICES ASSUME NEW b \in BOOLEAN
               PROVE  /\ ProcessOK(q(b)) /\ q(b).phase = p.phase
                      /\ q(b).job = p.job /\ q(b).attempt = p.attempt
    OBVIOUS
  <2>4. q(b) = [m EXCEPT !.renewIn = n, !.cancelSeen = b]
    BY <2>2
  <2>5. /\ ProcessOK([m EXCEPT !.renewIn = n, !.cancelSeen = b])
        /\ [m EXCEPT !.renewIn = n, !.cancelSeen = b].phase = m.phase
        /\ [m EXCEPT !.renewIn = n, !.cancelSeen = b].job = m.job
        /\ [m EXCEPT !.renewIn = n, !.cancelSeen = b].attempt = m.attempt
    BY <2>3 DEF ProcessOK, Process
  <2> QED
    BY <2>2, <2>4, <2>5
<1>4. ProcessOK(x) /\ x.phase = p.phase /\ x.job = p.job /\ x.attempt = p.attempt
  BY <1>2, NotRenewingOK
<1>5. Quiet
  BY <1>1, <1>2, LeaseTerm DEF Quiet, TimesOut, LeaseIsATerm
<1> HIDE DEF q, x
<1>6. \E y : /\ ProcessOK(y) /\ Goto(w, y) /\ y.phase = p.phase
             /\ y.job = p.job /\ y.attempt = p.attempt
  BY <1>1, <1>2, <1>3, <1>4
<1>7. Typed' /\ QuietStep
  BY <1>1, <1>2, <1>5, <1>6, OneWorkerMoves DEF Typed
<1> QED BY <1>7 DEF KindOfStep

LEMMA ArrivesKind ==
  ASSUME QueueInv, Typed, NEW m \in late, Arrives(m)
  PROVE  Typed' /\ KindOfStep
<1>1. /\ late' = late \ {m} /\ UNCHANGED <<worker, unanswered, crashes, produced>>
      /\ \/ m.kind = "claim" /\ \E j \in Jobs : ClaimJob(m.worker, j, Lease)
         \/ m.kind = "complete" /\ Complete(m.worker, m.job)
         \/ m.kind = "renew" /\ Renew(m.worker, m.job, Lease)
         \/ m.kind = "fail" /\ Fail(m.worker, m.job, TRUE, 0)
         \/ UNCHANGED vars
  BY DEF Arrives
<1>2. m.worker \in Workers /\ (m.kind # "claim" => m.job \in Jobs)
  BY DEF Typed, RequestOK, Request
<1>3. Typed'
  BY <1>1 DEF Typed
<1>4. CASE m.kind = "claim" /\ \E j \in Jobs : ClaimJob(m.worker, j, Lease)
  BY <1>1, <1>3, <1>4 DEF KindOfStep, LateClaim
<1>5. CASE m.kind = "complete" /\ Complete(m.worker, m.job)
  BY <1>1, <1>3, <1>5 DEF KindOfStep, LateComplete
<1>6. CASE \/ m.kind = "renew" /\ Renew(m.worker, m.job, Lease)
           \/ m.kind = "fail" /\ Fail(m.worker, m.job, TRUE, 0)
           \/ UNCHANGED vars
  <2>1. Quiet
    BY <1>2, <1>6, LeaseTerm, JobWorkerConstants DEF Quiet, LeaseIsATerm
  <2>2. QuietStep
    BY <1>1, <2>1 DEF QuietStep, Keeps, ResultsBehind
  <2> QED BY <1>3, <2>2 DEF KindOfStep
<1> QED BY <1>1, <1>4, <1>5, <1>6

LEMMA TimePassesKind ==
  ASSUME QueueInv, Typed, TimePasses
  PROVE  Typed' /\ KindOfStep
<1> DEFINE q(v) == [worker[v] EXCEPT !.renewIn = Elapse(@), !.tardy = @ \/ RenewalIsDue(worker[v])]
<1>1. /\ Tick /\ worker' = [v \in Workers |-> q(v)]
      /\ UNCHANGED <<late, unanswered, crashes, produced>>
  BY DEF TimePasses
<1>2. ASSUME NEW v \in Workers
      PROVE  /\ ProcessOK(q(v)) /\ q(v).phase = worker[v].phase
             /\ q(v).job = worker[v].job /\ q(v).attempt = worker[v].attempt
  <2>1. worker[v] \in Process /\ ProcessOK(worker[v])
    BY DEF Typed
  <2>2. Elapse(worker[v].renewIn) \in Nat
    BY <2>1 DEF Elapse, Process
  <2>3. (worker[v].tardy \/ RenewalIsDue(worker[v])) \in BOOLEAN
    BY <2>1 DEF Process
  <2> QED BY <2>1, <2>2, <2>3 DEF ProcessOK, Process
<1> HIDE DEF q
<1>3. Typed'
  BY <1>1, <1>2 DEF Typed, ProcessOK
<1>4. QuietStep
  BY <1>1, <1>2 DEF QuietStep, Quiet, Keeps, ResultsBehind
<1> QED BY <1>3, <1>4 DEF KindOfStep

LEMMA WorkerSteps == QueueInv /\ Typed /\ [WNext]_allVars => Typed' /\ KindOfStep
<1> SUFFICES ASSUME QueueInv, Typed, [WNext]_allVars PROVE Typed' /\ KindOfStep
  OBVIOUS
<1>1. ASSUME NEW j \in Jobs, Submit(j) \/ CancelByUser(j)
      PROVE  Typed' /\ KindOfStep
  <2>1. UNCHANGED workerVars /\ Quiet
    <3>1. CASE Submit(j)
      <4>1. PICK max \in AttemptLimits, delay \in Delays : Create(j, NoKey, max, delay)
        BY <3>1 DEF Submit
      <4> QED BY <3>1, <4>1 DEF Submit, Quiet
    <3>2. CASE CancelByUser(j)
      BY <3>2 DEF CancelByUser, Quiet
    <3> QED BY <1>1, <3>1, <3>2
  <2>2. Typed' /\ QuietStep
    BY <2>1 DEF workerVars, Typed, QuietStep, Keeps, ResultsBehind
  <2> QED BY <2>2 DEF KindOfStep
<1>2. ASSUME UNCHANGED allVars
      PROVE  Typed' /\ KindOfStep
  <2>1. Quiet
    BY <1>2 DEF Quiet, allVars, vars
  <2>2. Typed' /\ QuietStep
    BY <1>2, <2>1 DEF allVars, Typed, QuietStep, Keeps, ResultsBehind
  <2> QED BY <2>2 DEF KindOfStep
<1> QED
  BY <1>1, <1>2, PollAnsweredKind, PollTimesOutKind, ResumeKind, HandlerReturnsKind,
     HandlerRaisesKind, SubmitResultKind, SubmitFailureKind, RenewLeaseKind, ArrivesKind,
     TimePassesKind DEF WNext

-----------------------------------------------------------------------------
(* The workers use the queue: whatever holds of it, holds with them.       *)

LEMMA KindIsNext == QueueInv /\ Typed /\ KindOfStep => [Next]_vars
<1> SUFFICES ASSUME QueueInv, Typed, KindOfStep PROVE [Next]_vars
  OBVIOUS
<1>1. ASSUME NEW w \in Workers, Completes(w) PROVE [Next]_vars
  <2>1. worker[w].job \in Jobs
    BY <1>1 DEF Completes, Typed, ProcessOK, Busy
  <2> QED BY <1>1, <2>1 DEF Completes, Next
<1>2. ASSUME NEW w \in Workers, NEW j \in Jobs, Takes(w, j) PROVE [Next]_vars
  BY <1>2, LeaseTerm DEF Takes, LeaseIsATerm, Next
<1>3. ASSUME NEW m \in late, LateClaim(m) PROVE [Next]_vars
  BY <1>3, LeaseTerm DEF LateClaim, LeaseIsATerm, Next, Typed, RequestOK, Request
<1>4. ASSUME NEW m \in late, LateComplete(m) PROVE [Next]_vars
  BY <1>4 DEF LateComplete, Next, Typed, RequestOK, Request
<1>5. ASSUME QuietStep PROVE [Next]_vars
  BY <1>5, QuietIsNext DEF QuietStep
<1> QED BY <1>1, <1>2, <1>3, <1>4, <1>5 DEF KindOfStep

LEMMA TypedInit == WInit => Init /\ QueueInv /\ Typed
<1> SUFFICES ASSUME WInit PROVE Init /\ QueueInv /\ Typed
  OBVIOUS
<1>1. Init /\ QueueInv
  BY QueueInvInit DEF WInit
<1>2. ProcessOK(Idle("polling"))
  BY IdleOK
<1>3. 0 \in 0..MaxCrashes
  BY JobWorkerConstants
<1> QED BY <1>1, <1>2, <1>3 DEF WInit, Typed, ProcessOK

\* Busy workers have a job of the right type in every reachable state.
THEOREM WorkerInvHolds == WSpec => [](QueueInv /\ Typed)
<1>1. QueueInv /\ Typed /\ [WNext]_allVars => (QueueInv /\ Typed)'
  BY WorkerSteps, KindIsNext, QueueInvStep
<1> QED BY <1>1, TypedInit, PTL DEF WSpec

\* The queue with its workers is the queue: every theorem about JobQueue
\* holds of the behaviours of the workers.
THEOREM WorkersUseTheQueue == WSpec => Spec
<1>1. QueueInv /\ Typed /\ [WNext]_allVars => [Next]_vars
  BY WorkerSteps, KindIsNext
<1>2. WInit => Init
  BY TypedInit
<1> QED BY <1>1, <1>2, WorkerInvHolds, PTL DEF WSpec, Spec

\* Every variable of the workers keeps its type.
THEOREM WorkersTypeCorrect == WSpec => []WTypeOK
<1>1. QueueInv /\ Typed => WTypeOK
  BY DEF QueueInv, Typed, ProcessOK, RequestOK, WTypeOK, TypeOK
<1> QED BY <1>1, WorkerInvHolds, PTL

-----------------------------------------------------------------------------
(* One handler per attempt.  An attempt that a worker has in hand has been *)
(* counted, so the next claim of the job draws a larger number.            *)

Counted ==
  \A w \in Workers : worker[w].phase \in Busy =>
    worker[w].attempt <= job[worker[w].job].attempts

\* Attempts only grow.
LEMMA AttemptsGrow ==
  ASSUME QueueInv, [Next]_vars
  PROVE  \A j \in Jobs : /\ job[j].attempts \in Nat /\ job'[j].attempts \in Nat
                         /\ job[j].attempts <= job'[j].attempts
BY EveryRowSteps DEF RowStep, RowInv, Row, QueueInv

\* A worker that is given a job is given an attempt nobody has.
LEMMA TakesStep ==
  ASSUME QueueInv, Typed, NEW w \in Workers, NEW j \in Jobs, Takes(w, j)
  PROVE  /\ worker'[w].phase = "handling" /\ worker'[w].job = j
         /\ worker'[w].attempt = job[j].attempts + 1
         /\ worker'[w].attempt = job'[j].attempts
         /\ \A v \in Workers \ {w} : worker'[v] = worker[v]
<1>1. job'[j].attempts = job[j].attempts + 1 /\ job[j].attempts \in Nat
  BY LeaseTerm, ClaimSteps DEF Takes, LeaseIsATerm, QueueInv, RowInv, Row
<1>2. /\ worker' = [worker EXCEPT ![w] = Working(j, job'[j].attempts)]
      /\ job'[j].attempts \in Nat
  BY <1>1 DEF Takes
<1> QED BY <1>1, <1>2, WorkingTyped DEF Typed

LEMMA CountedStep ==
  ASSUME QueueInv, Typed, Counted, OneHandlerPerAttempt, [WNext]_allVars
  PROVE  Counted' /\ OneHandlerPerAttempt'
<1>1. [Next]_vars /\ KindOfStep
  BY WorkerSteps, KindIsNext
<1>2. \A j \in Jobs : /\ job[j].attempts \in Nat /\ job'[j].attempts \in Nat
                      /\ job[j].attempts <= job'[j].attempts
  BY <1>1, AttemptsGrow
<1>3. \A w \in Workers : worker[w].phase \in Busy =>
        /\ worker[w].job \in Jobs /\ worker[w].attempt \in Nat
        /\ worker[w].attempt <= job[worker[w].job].attempts
  BY DEF Typed, ProcessOK, Process, Counted
<1>4. CASE \A v \in Workers : Keeps(v)
  BY <1>2, <1>3, <1>4 DEF Keeps, Counted, OneHandlerPerAttempt
<1>5. ASSUME NEW w \in Workers, NEW j \in Jobs, Takes(w, j)
      PROVE  Counted' /\ OneHandlerPerAttempt'
  <2>1. /\ worker'[w].phase = "handling" /\ worker'[w].job = j
        /\ worker'[w].attempt = job[j].attempts + 1
        /\ worker'[w].attempt = job'[j].attempts
        /\ \A v \in Workers \ {w} : worker'[v] = worker[v]
    BY <1>5, TakesStep
  <2>2. Counted'
    BY <1>2, <1>3, <2>1 DEF Counted
  <2>3. \A v \in Workers \ {w} : worker'[v].phase \in Busy /\ worker'[v].job = j =>
          worker'[v].attempt < worker'[w].attempt
    BY <1>2, <1>3, <2>1
  <2>4. \A v \in Workers : worker'[v].phase \in Busy => worker'[v].attempt \in Nat
    BY <1>2, <1>3, <2>1
  <2>5. OneHandlerPerAttempt'
    BY <2>1, <2>3, <2>4, <1>2 DEF OneHandlerPerAttempt
  <2> QED BY <2>2, <2>5
<1>6. ASSUME NEW w \in Workers, Completes(w) PROVE \A v \in Workers : Keeps(v)
  BY <1>6, IdleOK DEF Completes, Keeps, Typed
<1>7. ASSUME NEW m \in late, LateClaim(m) \/ LateComplete(m)
      PROVE  \A v \in Workers : Keeps(v)
  BY <1>7 DEF LateClaim, LateComplete, Keeps
<1> QED BY <1>1, <1>4, <1>5, <1>6, <1>7 DEF KindOfStep, QuietStep

\* No attempt of a job is ever worked on by two workers.
THEOREM AttemptsHaveOneHandler == WSpec => []OneHandlerPerAttempt
<1>1. WInit => Counted /\ OneHandlerPerAttempt
  BY IdleOK DEF WInit, Counted, OneHandlerPerAttempt
<1> QED BY <1>1, CountedStep, WorkerInvHolds, PTL DEF WSpec

-----------------------------------------------------------------------------
(* A success has a result.                                                 *)

LEMMA ResultsStep ==
  ASSUME QueueInv, Typed, ResultsBehind, SuccessHasResult, [WNext]_allVars
  PROVE  ResultsBehind' /\ SuccessHasResult'
<1>1. KindOfStep
  BY WorkerSteps
<1>2. CASE QuietStep
  BY <1>2, QuietSteps DEF QuietStep, SuccessHasResult
<1>3. ASSUME NEW w \in Workers, NEW j \in Jobs, Takes(w, j)
      PROVE  ResultsBehind' /\ SuccessHasResult'
  <2>1. UNCHANGED <<late, produced>>
    BY <1>3 DEF Takes
  <2>2. \A i \in Jobs : job'[i].status = "succeeded" <=> job[i].status = "succeeded"
    BY <1>3, LeaseTerm, ClaimSteps DEF Takes, LeaseIsATerm
  <2>3. \A v \in Workers : worker'[v].phase = "completing" =>
          worker[v].phase = "completing" /\ worker'[v].job = worker[v].job
    BY <1>3, TakesStep
  <2> QED BY <2>1, <2>2, <2>3 DEF ResultsBehind, SuccessHasResult
<1>4. ASSUME NEW m \in late, LateClaim(m)
      PROVE  ResultsBehind' /\ SuccessHasResult'
  <2>1. late' \subseteq late /\ UNCHANGED <<worker, produced>>
    BY <1>4 DEF LateClaim
  <2>2. \A i \in Jobs : job'[i].status = "succeeded" <=> job[i].status = "succeeded"
    BY <1>4, LeaseTerm, ClaimSteps DEF LateClaim, LeaseIsATerm, Typed, RequestOK, Request
  <2> QED BY <2>1, <2>2 DEF ResultsBehind, SuccessHasResult
<1>5. ASSUME NEW w \in Workers, Completes(w)
      PROVE  ResultsBehind' /\ SuccessHasResult'
  <2>1. /\ worker[w].job \in Jobs /\ produced[worker[w].job] # {}
        /\ Complete(w, worker[w].job) /\ UNCHANGED <<late, produced>>
        /\ worker' = [worker EXCEPT ![w] = Idle("polling")]
    BY <1>5 DEF Completes, Typed, ProcessOK, Busy, ResultsBehind
  <2>2. \A i \in Jobs \ {worker[w].job} : job'[i] = job[i]
    BY <2>1, CompletionSteps
  <2>3. \A v \in Workers : worker'[v].phase = "completing" =>
          worker[v].phase = "completing" /\ worker'[v].job = worker[v].job
    BY <2>1, IdleOK DEF Typed
  <2> QED BY <2>1, <2>2, <2>3 DEF ResultsBehind, SuccessHasResult
<1>6. ASSUME NEW m \in late, LateComplete(m)
      PROVE  ResultsBehind' /\ SuccessHasResult'
  <2>1. /\ m.job \in Jobs /\ m.worker \in Workers /\ produced[m.job] # {}
        /\ Complete(m.worker, m.job) /\ UNCHANGED <<worker, produced>>
        /\ late' \subseteq late
    BY <1>6 DEF LateComplete, Typed, RequestOK, Request, ResultsBehind
  <2>2. \A i \in Jobs \ {m.job} : job'[i] = job[i]
    BY <2>1, CompletionSteps
  <2> QED BY <2>1, <2>2 DEF ResultsBehind, SuccessHasResult
<1> QED BY <1>1, <1>2, <1>3, <1>4, <1>5, <1>6 DEF KindOfStep

\* No job succeeds without a result, however late the success is recorded.
THEOREM SuccessesHaveResults == WSpec => []SuccessHasResult
<1>1. WInit => ResultsBehind /\ SuccessHasResult
  <2>1. WInit => \A j \in Jobs : job[j].status = "absent"
    BY InitRows DEF WInit
  <2> QED BY <2>1, IdleOK DEF WInit, ResultsBehind, SuccessHasResult
<1> QED BY <1>1, ResultsStep, WorkerInvHolds, PTL DEF WSpec

-----------------------------------------------------------------------------
(* A lease belongs to the attempt its worker has in hand.  While no client *)
(* has given up on a request, none can arrive late.                        *)

Attributed ==
  ~unanswered =>
    /\ late = {}
    /\ \A w \in Workers :
         worker[w].phase \in Busy /\ job[worker[w].job].lockedBy = w
         => job[worker[w].job].attempts = worker[w].attempt

\* A row whose attempts are not counted on keeps its owner, if it has one.
LEMMA OwnerKept ==
  ASSUME QueueInv, [Next]_vars, NEW j \in Jobs, NEW w \in Workers,
         job'[j].lockedBy = w, job'[j].attempts = job[j].attempts
  PROVE  job[j].lockedBy = w
<1>1. RowStep(job[j], job'[j])
  BY EveryRowSteps
<1>2. job'[j].status = "running"
  BY <1>1, JobQueueConstants DEF RowStep, RowInv, Consistent
<1> QED BY <1>1, <1>2 DEF RowStep

LEMMA AttributedStep ==
  ASSUME QueueInv, Typed, Attributed, [WNext]_allVars
  PROVE  Attributed'
<1> SUFFICES ASSUME ~unanswered' PROVE
      /\ late' = {}
      /\ \A w \in Workers :
           worker'[w].phase \in Busy /\ job'[worker'[w].job].lockedBy = w
           => job'[worker'[w].job].attempts = worker'[w].attempt
  BY DEF Attributed
<1>1. [Next]_vars /\ KindOfStep
  BY WorkerSteps, KindIsNext
<1>2. /\ ~unanswered /\ late = {} /\ late' = {}
  <2>1. unanswered' = unanswered /\ late' \subseteq late
    BY <1>1 DEF KindOfStep, Completes, Takes, LateClaim, LateComplete, QuietStep, Typed
  <2> QED BY <2>1 DEF Attributed
<1>3. \A w \in Workers : worker[w].phase \in Busy => worker[w].job \in Jobs
  BY DEF Typed, ProcessOK
<1>4. CASE /\ \A v \in Workers : Keeps(v)
           /\ \A j \in Jobs : job'[j].attempts = job[j].attempts
  <2> SUFFICES ASSUME NEW w \in Workers, worker'[w].phase \in Busy,
                      job'[worker'[w].job].lockedBy = w
               PROVE  job'[worker'[w].job].attempts = worker'[w].attempt
    BY <1>2
  <2>1. /\ worker[w].phase \in Busy /\ worker'[w].job = worker[w].job
        /\ worker'[w].attempt = worker[w].attempt /\ worker[w].job \in Jobs
    BY <1>3, <1>4 DEF Keeps
  <2>2. job[worker[w].job].lockedBy = w
    BY <1>1, <1>4, <2>1, OwnerKept
  <2> QED BY <1>2, <1>4, <2>1, <2>2 DEF Attributed
<1>5. ASSUME NEW u \in Workers, NEW j \in Jobs, Takes(u, j),
             NEW w \in Workers, worker'[w].phase \in Busy,
             job'[worker'[w].job].lockedBy = w
      PROVE  job'[worker'[w].job].attempts = worker'[w].attempt
  <2>1. /\ worker'[u].job = j /\ worker'[u].attempt = job'[j].attempts
        /\ \A v \in Workers \ {u} : worker'[v] = worker[v]
    BY <1>5, TakesStep
  <2>2. /\ job'[j].lockedBy = u
        /\ \A i \in Jobs \ {j} : job'[i].attempts = job[i].attempts
    BY <1>5, LeaseTerm, ClaimSteps DEF Takes, LeaseIsATerm
  <2>3. CASE w = u
    BY <2>1, <2>3
  <2>4. CASE w # u
    <3>1. worker'[w] = worker[w] /\ worker[w].job \in Jobs \ {j}
      BY <1>3, <1>5, <2>1, <2>2, <2>4
    <3>2. job[worker[w].job].lockedBy = w
      BY <1>1, <1>5, <2>2, <3>1, OwnerKept
    <3> QED BY <1>2, <1>5, <2>2, <3>1, <3>2 DEF Attributed
  <2> QED BY <2>3, <2>4
<1>6. ASSUME NEW w \in Workers, Completes(w)
      PROVE  /\ \A v \in Workers : Keeps(v)
             /\ \A j \in Jobs : job'[j].attempts = job[j].attempts
  <2>1. \A v \in Workers : Keeps(v)
    BY <1>6, IdleOK DEF Completes, Keeps, Typed
  <2>2. Complete(w, worker[w].job) /\ worker[w].job \in Jobs
    BY <1>3, <1>6 DEF Completes, Busy
  <2> QED BY <2>1, <2>2, CompletionSteps
<1>7. QuietStep => /\ \A v \in Workers : Keeps(v)
                   /\ \A j \in Jobs : job'[j].attempts = job[j].attempts
  BY QuietSteps DEF QuietStep
<1> QED BY <1>1, <1>2, <1>4, <1>5, <1>6, <1>7 DEF KindOfStep

\* What a worker submits under a lease belongs to the attempt of that lease.
THEOREM LeasesOfThisAttempt == WSpec => []LeaseIsOfThisAttempt
<1>1. WInit => Attributed
  BY IdleOK DEF WInit, Attributed
<1>2. Attributed => LeaseIsOfThisAttempt
  BY DEF Attributed, LeaseIsOfThisAttempt
<1> QED BY <1>1, <1>2, AttributedStep, WorkerInvHolds, PTL DEF WSpec

-----------------------------------------------------------------------------
(* The lease outlives the handler: the next renewal is due before the      *)
(* lease runs out, and nothing but its holder ends a lease that is live.   *)

Hopeful(w) ==
  /\ worker[w].phase \in Busy /\ ~worker[w].renewFailed /\ ~worker[w].tardy
  /\ job[worker[w].job].timeoutIn > 0

RenewsInTime ==
  ~unanswered =>
    /\ late = {}
    /\ \A w \in Workers : Hopeful(w) =>
         /\ OwnsLease(w, job[worker[w].job])
         /\ worker[w].renewIn < job[worker[w].job].leaseIn

\* A job in hand has been claimed, so its timeout has been set.
Begun == \A w \in Workers : worker[w].phase \in Busy => job[worker[w].job].attempts > 0

\* Steps that leave a live lease of w on job i alone.
Foreign(w, i) ==
  \/ \E j \in Jobs, key \in Keys \cup {NoKey}, max \in AttemptLimits,
        delay \in Delays : Create(j, key, max, delay)
  \/ \E j \in Jobs : Get(j) \/ Cancel(j) \/ CancelDuringRecovery(j)
  \/ ClaimNone
  \/ \E v \in Workers, j \in Jobs, lease \in LeaseTerms : ClaimJob(v, j, lease)
  \/ \E v \in Workers \ {w}, j \in Jobs :
        \/ \E lease \in LeaseTerms : Renew(v, j, lease)
        \/ AppendLog(v, j) \/ Complete(v, j)
        \/ \E retryable \in BOOLEAN, delay \in Delays : Fail(v, j, retryable, delay)
  \/ UNCHANGED vars

LEMMA LiveLeaseLeftAlone ==
  ASSUME QueueInv, NEW w \in Workers, NEW i \in Jobs,
         OwnsLease(w, job[i]), job[i].timeoutIn > 0, Foreign(w, i)
  PROVE  OwnsLease(w, job'[i]) /\ job'[i].leaseIn = job[i].leaseIn
<1> DEFINE Kept == OwnsLease(w, job'[i]) /\ job'[i].leaseIn = job[i].leaseIn
<1>0. /\ RowInv(job[i]) /\ job[i].status = "running" /\ job[i].lockedBy = w
      /\ job[i].leaseIn > 0 /\ Recovered(job[i]) = job[i]
  BY LiveLeaseKept DEF QueueInv, OwnsLease
<1>1. ASSUME job'[i] = job[i] PROVE Kept
  BY <1>1
<1>2. ASSUME NEW j \in Jobs, NEW key \in Keys \cup {NoKey}, NEW max \in AttemptLimits,
             NEW delay \in Delays, Create(j, key, max, delay)
      PROVE  job'[i] = job[i]
  BY <1>0, <1>2 DEF Create, QueueInv
<1>3. ASSUME NEW j \in Jobs, Get(j) PROVE job'[i] = job[i]
  BY <1>0, <1>3 DEF Get, QueueInv
<1>4. ASSUME NEW j \in Jobs, Cancel(j) PROVE Kept
  <2>1. job' = [job EXCEPT ![j] = CancelRequested(@)]
    BY <1>4 DEF Cancel
  <2>2. CASE i # j
    BY <1>1, <2>1, <2>2 DEF QueueInv
  <2>3. CASE i = j
    BY <1>0, <2>1, <2>3 DEF CancelRequested, OwnsLease, QueueInv, RowInv, Row
  <2> QED BY <2>2, <2>3
<1>5. ASSUME ClaimNone PROVE job'[i] = job[i]
  BY <1>0, <1>5 DEF ClaimNone, Swept
<1>6. ASSUME NEW v \in Workers, NEW j \in Jobs, NEW lease \in LeaseTerms,
             ClaimJob(v, j, lease)
      PROVE  job'[i] = job[i]
  <2>1. i # j
    BY <1>0, <1>6, ClaimSteps
  <2> QED BY <1>0, <1>6, <2>1, ClaimSteps
<1>7. ASSUME NEW v \in Workers \ {w}, NEW j \in Jobs,
             \/ \E lease \in LeaseTerms : Renew(v, j, lease)
             \/ AppendLog(v, j) \/ Complete(v, j)
             \/ \E retryable \in BOOLEAN, delay \in Delays : Fail(v, j, retryable, delay)
      PROVE  job'[i] = job[i]
  <2>1. i # j
    BY <1>0, <1>7 DEF Renew, AppendLog, Complete, Fail, OwnsLease
  <2>2. ASSUME NEW lease \in LeaseTerms, Renew(v, j, lease) PROVE job'[i] = job[i]
    BY <2>1, <2>2 DEF Renew, QueueInv
  <2>3. ASSUME NEW retryable \in BOOLEAN, NEW delay \in Delays, Fail(v, j, retryable, delay)
        PROVE  job'[i] = job[i]
    BY <2>1, <2>3 DEF Fail, QueueInv
  <2>4. AppendLog(v, j) \/ Complete(v, j) => job'[i] = job[i]
    BY <2>1 DEF AppendLog, Complete, QueueInv
  <2> QED BY <1>7, <2>2, <2>3, <2>4
<1>8. ASSUME UNCHANGED vars PROVE job'[i] = job[i]
  BY <1>8 DEF vars
<1>9. ASSUME NEW j \in Jobs, CancelDuringRecovery(j) PROVE job'[i] = job[i]
  BY <1>0, <1>9 DEF CancelDuringRecovery, QueueInv
<1> HIDE DEF Kept
<1>10. Kept
  BY <1>1, <1>2, <1>3, <1>4, <1>5, <1>6, <1>7, <1>8, <1>9 DEF Foreign
<1> QED BY <1>10 DEF Kept

\* The timeout of a job in hand does not come back.
LEMMA StillBefore ==
  ASSUME QueueInv, [Next]_vars, NEW i \in Jobs, job[i].attempts > 0, job'[i].timeoutIn > 0
  PROVE  job[i].timeoutIn > 0
<1>1. RowStep(job[i], job'[i]) /\ job[i].timeoutIn \in Timer /\ job[i].timeoutIn # Off
  BY EveryRowSteps DEF QueueInv, RowInv, Row, Consistent
<1> QED BY <1>1 DEF RowStep, Timer, Off

LEMMA BegunStep ==
  ASSUME QueueInv, Typed, Begun, [WNext]_allVars
  PROVE  Begun'
<1>1. [Next]_vars /\ KindOfStep
  BY WorkerSteps, KindIsNext
<1>2. \A j \in Jobs : /\ job[j].attempts \in Nat /\ job'[j].attempts \in Nat
                      /\ job[j].attempts <= job'[j].attempts
  BY <1>1, AttemptsGrow
<1>3. \A w \in Workers : worker[w].phase \in Busy => worker[w].job \in Jobs
  BY DEF Typed, ProcessOK
<1>4. CASE \A v \in Workers : Keeps(v)
  BY <1>2, <1>3, <1>4 DEF Keeps, Begun
<1>5. ASSUME NEW w \in Workers, NEW j \in Jobs, Takes(w, j) PROVE Begun'
  BY <1>2, <1>3, <1>5, TakesStep DEF Begun
<1>6. ASSUME NEW w \in Workers, Completes(w) PROVE \A v \in Workers : Keeps(v)
  BY <1>6, IdleOK DEF Completes, Keeps, Typed
<1>7. ASSUME NEW m \in late, LateClaim(m) \/ LateComplete(m)
      PROVE  \A v \in Workers : Keeps(v)
  BY <1>7 DEF LateClaim, LateComplete, Keeps
<1> QED BY <1>1, <1>4, <1>5, <1>6, <1>7 DEF KindOfStep, QuietStep

\* A worker beside whose job something else happens keeps its time.
LEMMA BesideOthers ==
  ASSUME QueueInv, Typed, Begun, RenewsInTime, ~unanswered, [Next]_vars,
         NEW w \in Workers, worker[w].phase \in Busy, Foreign(w, worker[w].job),
         worker'[w].job = worker[w].job, worker'[w].renewIn = worker[w].renewIn,
         worker'[w].renewFailed = worker[w].renewFailed,
         worker'[w].tardy = worker[w].tardy, Hopeful(w)'
  PROVE  /\ OwnsLease(w, job'[worker'[w].job])
         /\ worker'[w].renewIn < job'[worker'[w].job].leaseIn
<1> DEFINE i == worker[w].job
<1>1. i \in Jobs /\ job[i].attempts > 0
  BY DEF Typed, ProcessOK, Begun
<1>2. job[i].timeoutIn > 0
  BY <1>1, StillBefore DEF Hopeful
<1>3. OwnsLease(w, job[i]) /\ worker[w].renewIn < job[i].leaseIn
  BY <1>2 DEF RenewsInTime, Hopeful
<1> HIDE DEF i
<1>4. OwnsLease(w, job'[i]) /\ job'[i].leaseIn = job[i].leaseIn
  BY <1>1, <1>2, <1>3, LiveLeaseLeftAlone DEF i
<1> QED BY <1>3, <1>4 DEF i

\* What one worker does is foreign to the lease of another.
Acts(u) ==
  \/ PollAnswered(u) \/ PollTimesOut(u) \/ Resume(u)
  \/ HandlerReturns(u)
  \/ \E retryable \in BOOLEAN : HandlerRaises(u, retryable)
  \/ SubmitResult(u) \/ SubmitFailure(u) \/ RenewLease(u)
  \/ Crash(u) \/ Restart(u)

LEMMA OthersAreForeign ==
  ASSUME Typed, NEW w \in Workers, NEW u \in Workers \ {w}, NEW i, Acts(u)
  PROVE  worker'[w] = worker[w] /\ Foreign(w, i)
<1>1. (UNCHANGED worker) \/ \E p : Goto(u, p)
  BY DEF Acts, PollAnswered, PollTimesOut, Resume, HandlerReturns, HandlerRaises,
         SubmitResult, SubmitFailure, RenewLease, Crash, Restart
<1>2. worker'[w] = worker[w]
  BY <1>1 DEF Goto, Typed
<1> SUFFICES Foreign(w, i)
  BY <1>2
<1>3. worker[u].phase \in Busy => /\ worker[u].job \in Jobs
                                  /\ worker[u].retryable \in BOOLEAN
  BY DEF Typed, ProcessOK, Process
<1>4. CASE PollAnswered(u)
  BY <1>4, LeaseTerm DEF PollAnswered, Foreign, LeaseIsATerm
<1>5. CASE \/ PollTimesOut(u) \/ Resume(u) \/ HandlerReturns(u)
           \/ (\E retryable \in BOOLEAN : HandlerRaises(u, retryable))
           \/ Crash(u) \/ Restart(u)
  <2>1. UNCHANGED vars
    BY <1>5 DEF PollTimesOut, TimesOut, Resume, HandlerReturns, HandlerRaises, Crash, Restart
  <2> QED BY <2>1 DEF Foreign
<1>6. CASE SubmitResult(u)
  <2>1. worker[u].job \in Jobs
    BY <1>3, <1>6 DEF SubmitResult, Busy
  <2>2. \/ Complete(u, worker[u].job) \/ Get(worker[u].job) \/ UNCHANGED vars
    BY <1>6 DEF SubmitResult, Rejected, TimesOut
  <2> QED BY <2>1, <2>2 DEF Foreign
<1>7. CASE SubmitFailure(u)
  <2>1. worker[u].job \in Jobs /\ worker[u].retryable \in BOOLEAN
    BY <1>3, <1>7 DEF SubmitFailure, Busy
  <2>2. \/ Fail(u, worker[u].job, worker[u].retryable, 0)
        \/ Get(worker[u].job) \/ UNCHANGED vars
    BY <1>7 DEF SubmitFailure, Rejected, TimesOut
  <2> QED BY <2>1, <2>2, JobWorkerConstants DEF Foreign
<1>8. CASE RenewLease(u)
  <2>1. worker[u].job \in Jobs
    BY <1>3, <1>8 DEF RenewLease, RenewalIsDue
  <2>2. \/ Renew(u, worker[u].job, Lease) \/ Get(worker[u].job) \/ UNCHANGED vars
    BY <1>8 DEF RenewLease, Rejected, TimesOut
  <2> QED BY <2>1, <2>2, LeaseTerm DEF Foreign, LeaseIsATerm
<1> QED BY <1>4, <1>5, <1>6, <1>7, <1>8 DEF Acts

InTime(w) ==
  /\ OwnsLease(w, job[worker[w].job])
  /\ worker[w].renewIn < job[worker[w].job].leaseIn

\* The worker itself: it renews, goes on without a renewal, or stops.
LEMMA OwnActions ==
  ASSUME QueueInv, Typed, Begun, RenewsInTime, [Next]_vars, ~unanswered, ~unanswered',
         NEW w \in Workers, Acts(w), Hopeful(w)'
  PROVE  InTime(w)'
<1> DEFINE p == worker[w]
<1>1. worker \in [Workers -> Process] /\ p \in Process
  BY DEF Typed
<1>2. ASSUME NEW phase \in {"polling", "backoff", "down"}, Goto(w, Idle(phase))
      PROVE  FALSE
  <2>1. worker'[w] = Idle(phase)
    BY <1>1, <1>2 DEF Goto
  <2>2. Idle(phase).phase \notin Busy
    BY IdleOK
  <2> QED BY <2>1, <2>2 DEF Hopeful
<1>3. ASSUME NEW kind, NEW j, TimesOut(kind, w, j) PROVE FALSE
  BY <1>3 DEF TimesOut
<1>4. CASE PollAnswered(w)
  <2>1. ASSUME UNCHANGED worker PROVE FALSE
    BY <1>4, <2>1 DEF PollAnswered, Hopeful, Busy
  <2>2. ASSUME NEW j \in Jobs, ClaimJob(w, j, Lease),
               Goto(w, Working(j, job'[j].attempts))
        PROVE  InTime(w)'
    <3>1. /\ job'[j].status = "running" /\ job'[j].lockedBy = w /\ job'[j].leaseIn = Lease
          /\ job'[j].attempts \in Nat
      BY <2>2, LeaseTerm, ClaimSteps DEF LeaseIsATerm, QueueInv, RowInv, Row
    <3>2. worker'[w] = Working(j, job'[j].attempts)
      BY <1>1, <2>2 DEF Goto
    <3>3. worker'[w].job = j /\ worker'[w].renewIn = RenewInterval
      BY <3>1, <3>2, WorkingTyped
    <3> QED BY <3>1, <3>3, IntervalTyped, LeaseTerm DEF InTime, OwnsLease, LeaseIsATerm
  <2> QED BY <1>4, <2>1, <2>2 DEF PollAnswered
\* The handler ends: what follows is reported under the same lease.
<1>5. ASSUME p.phase \in Busy, worker'[w].job = p.job, worker'[w].renewIn = p.renewIn,
             worker'[w].renewFailed = p.renewFailed, worker'[w].tardy = p.tardy,
             Foreign(w, p.job)
      PROVE  InTime(w)'
  BY <1>5, BesideOthers DEF InTime
<1>6. ASSUME NEW b \in BOOLEAN, p.phase \in Busy, Foreign(w, p.job),
             \/ Goto(w, [p EXCEPT !.phase = "failing", !.retryable = b])
             \/ Goto(w, [p EXCEPT !.phase = "completing"])
      PROVE  InTime(w)'
  <2>1. /\ worker'[w].job = p.job /\ worker'[w].renewIn = p.renewIn
        /\ worker'[w].renewFailed = p.renewFailed /\ worker'[w].tardy = p.tardy
    BY <1>1, <1>6 DEF Goto, Process
  <2> QED BY <1>5, <1>6, <2>1
<1>7. CASE HandlerReturns(w) \/ \E b \in BOOLEAN : HandlerRaises(w, b)
  <2>1. UNCHANGED vars /\ p.phase \in Busy
    BY <1>7 DEF HandlerReturns, HandlerRaises, Busy
  <2>2. Foreign(w, p.job)
    BY <2>1 DEF Foreign
  <2>3. \E b \in BOOLEAN : \/ Goto(w, [p EXCEPT !.phase = "failing", !.retryable = b])
                           \/ Goto(w, [p EXCEPT !.phase = "completing"])
    BY <1>7 DEF HandlerReturns, HandlerRaises
  <2> QED BY <1>6, <2>1, <2>2, <2>3
<1>8. CASE SubmitResult(w)
  <2>1. p.phase = "completing" /\ p.phase \in Busy /\ p.job \in Jobs
    BY <1>8 DEF SubmitResult, Busy, Typed, ProcessOK
  <2>2. Get(p.job) => Foreign(w, p.job)
    BY <2>1 DEF Foreign
  <2>3. \/ Goto(w, Idle("polling"))
        \/ TimesOut("complete", w, p.job)
        \/ /\ Get(p.job)
           /\ \E b \in BOOLEAN : Goto(w, [p EXCEPT !.phase = "failing", !.retryable = b])
    BY <1>8 DEF SubmitResult, Rejected
  <2> QED BY <1>2, <1>3, <1>6, <2>1, <2>2, <2>3
<1>9. CASE RenewLease(w)
  <2>1. p.phase \in Busy /\ p.job \in Jobs
    BY <1>9 DEF RenewLease, RenewalIsDue, Typed, ProcessOK
  <2>2. ASSUME Goto(w, [p EXCEPT !.renewFailed = TRUE]) PROVE FALSE
    BY <1>1, <2>2 DEF Goto, Hopeful, Process
  <2>3. ASSUME Renew(w, p.job, Lease), NEW b,
               Goto(w, [p EXCEPT !.renewIn = RenewInterval, !.cancelSeen = b])
        PROVE  InTime(w)'
    <3>1. worker'[w].job = p.job /\ worker'[w].renewIn = RenewInterval
      BY <1>1, <2>3 DEF Goto, Process
    <3>2. /\ job' = [job EXCEPT ![p.job].leaseIn = Lease]
          /\ job[p.job].status = "running" /\ job[p.job].lockedBy = w
      BY <2>3 DEF Renew, OwnsLease
    <3>3. /\ job'[p.job].status = "running" /\ job'[p.job].lockedBy = w
          /\ job'[p.job].leaseIn = Lease
      BY <2>1, <3>2 DEF QueueInv, Row
    <3> QED BY <3>1, <3>3, IntervalTyped, LeaseTerm DEF InTime, OwnsLease, LeaseIsATerm
  <2>4. \/ Renew(w, p.job, Lease) /\ \E b :
             Goto(w, [p EXCEPT !.renewIn = RenewInterval, !.cancelSeen = b])
        \/ Goto(w, [p EXCEPT !.renewFailed = TRUE])
    BY <1>9 DEF RenewLease
  <2> QED BY <2>2, <2>3, <2>4
<1>10. CASE SubmitFailure(w) \/ PollTimesOut(w) \/ Resume(w) \/ Crash(w) \/ Restart(w)
  BY <1>2, <1>10 DEF SubmitFailure, PollTimesOut, Resume, Crash, Restart
<1> QED BY <1>4, <1>7, <1>8, <1>9, <1>10 DEF Acts

\* Time passes: a renewal that is due is sent first, or is tardy.
LEMMA TimePassesInTime ==
  ASSUME QueueInv, Typed, Begun, RenewsInTime, [Next]_vars, ~unanswered,
         NEW w \in Workers, TimePasses, Hopeful(w)'
  PROVE  InTime(w)'
<1> DEFINE p == worker[w]
           i == p.job
<1>1. /\ p \in Process
      /\ worker'[w] = [p EXCEPT !.renewIn = Elapse(@), !.tardy = @ \/ RenewalIsDue(p)]
  BY DEF TimePasses, Typed
<1>2. /\ worker'[w].renewIn = Elapse(p.renewIn) /\ worker'[w].tardy = (p.tardy \/ RenewalIsDue(p))
      /\ worker'[w].phase = p.phase /\ worker'[w].job = i
      /\ worker'[w].renewFailed = p.renewFailed
  BY <1>1 DEF Process
<1>3. p.phase \in Busy /\ ~p.renewFailed /\ ~p.tardy /\ ~RenewalIsDue(p)
  BY <1>1, <1>2 DEF Hopeful, Process
<1>4. i \in Jobs /\ job[i].attempts > 0
  BY <1>3 DEF Typed, ProcessOK, Begun
<1>5. job[i].timeoutIn > 0
  BY <1>2, <1>4, StillBefore DEF Hopeful
<1>6. OwnsLease(w, job[i]) /\ p.renewIn < job[i].leaseIn
  BY <1>3, <1>5 DEF RenewsInTime, Hopeful
<1>7. p.renewIn \in Nat /\ p.renewIn # 0
  BY <1>1, <1>3 DEF RenewalIsDue, Process
<1>8. job'[i] = Aged(job[i]) /\ job[i] \in Row
  BY <1>4 DEF TimePasses, Tick, QueueInv
<1>9. /\ job'[i].status = "running" /\ job'[i].lockedBy = w
      /\ job'[i].leaseIn = Elapse(job[i].leaseIn)
  BY <1>6, <1>8 DEF Aged, OwnsLease, Row, Terminal
<1>10. job[i].leaseIn \in Int
  BY <1>8 DEF Row, Timer, Off
<1> QED BY <1>2, <1>6, <1>7, <1>9, <1>10 DEF InTime, OwnsLease, Elapse

LEMMA RenewsInTimeStep ==
  ASSUME QueueInv, Typed, Begun, RenewsInTime, [WNext]_allVars
  PROVE  RenewsInTime'
<1> SUFFICES ASSUME ~unanswered'
             PROVE  late' = {} /\ \A w \in Workers : Hopeful(w)' => InTime(w)'
  BY DEF RenewsInTime, InTime
<1>1. [Next]_vars /\ KindOfStep
  BY WorkerSteps, KindIsNext
<1>2. /\ ~unanswered /\ late = {} /\ late' = {}
  <2>1. unanswered' = unanswered /\ late' \subseteq late
    BY <1>1 DEF KindOfStep, Completes, Takes, LateClaim, LateComplete, QuietStep, Typed
  <2> QED BY <2>1 DEF RenewsInTime
<1> SUFFICES ASSUME NEW w \in Workers, Hopeful(w)' PROVE InTime(w)'
  BY <1>2
<1>3. ASSUME worker'[w] = worker[w], Foreign(w, worker[w].job) PROVE InTime(w)'
  <2>1. worker[w].phase \in Busy
    BY <1>3 DEF Hopeful
  <2> QED BY <1>1, <1>2, <1>3, <2>1, BesideOthers DEF InTime
<1>4. ASSUME NEW u \in Workers \ {w}, Acts(u) PROVE InTime(w)'
  BY <1>3, <1>4, OthersAreForeign
<1>5. CASE Acts(w)
  BY <1>1, <1>2, <1>5, OwnActions
<1>6. ASSUME NEW j \in Jobs, Submit(j) \/ CancelByUser(j) PROVE InTime(w)'
  <2>1. UNCHANGED worker
    BY <1>6 DEF Submit, CancelByUser, workerVars
  <2>2. CASE Submit(j)
    <3>1. PICK max \in AttemptLimits, delay \in Delays : Create(j, NoKey, max, delay)
      BY <2>2 DEF Submit
    <3>2. Foreign(w, worker[w].job)
      BY <3>1 DEF Foreign
    <3> QED BY <1>3, <2>1, <3>2
  <2>3. CASE CancelByUser(j)
    <3>1. Foreign(w, worker[w].job)
      BY <2>3 DEF CancelByUser, Foreign
    <3> QED BY <1>3, <2>1, <3>1
  <2> QED BY <1>6, <2>2, <2>3
<1>7. CASE TimePasses
  BY <1>1, <1>2, <1>7, TimePassesInTime
<1>8. CASE UNCHANGED allVars
  BY <1>3, <1>8 DEF allVars, Foreign, vars
<1>9. ASSUME NEW m \in late, Arrives(m) PROVE FALSE
  BY <1>2, <1>9
<1>10. WNext => \/ \E u \in Workers : Acts(u)
                \/ \E m \in late : Arrives(m)
                \/ \E j \in Jobs : Submit(j) \/ CancelByUser(j)
                \/ TimePasses
  BY DEF WNext, Acts
<1> QED BY <1>4, <1>5, <1>6, <1>7, <1>8, <1>9, <1>10

\* Renewing every half lease is enough, for every lease the runtime accepts.
THEOREM LeasesOutliveHandlers == WSpec => []LeaseOutlivesHandler
<1>1. WInit => Begun /\ RenewsInTime
  BY IdleOK DEF WInit, Begun, RenewsInTime, Hopeful
<1>2. RenewsInTime => LeaseOutlivesHandler
  BY DEF RenewsInTime, Hopeful, LeaseOutlivesHandler
<1> QED BY <1>1, <1>2, RenewsInTimeStep, BegunStep, WorkerInvHolds, PTL DEF WSpec
=============================================================================
