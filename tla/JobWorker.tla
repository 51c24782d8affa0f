----------------------------- MODULE JobWorker ------------------------------
(***************************************************************************)
(* The Python worker runtime against the Job queue                         *)
(* (workers/mmdash-worker/.../jobs/runtime.py).  A worker has one job at a *)
(* time; its renewal loop runs beside the handler.  A request that times   *)
(* out at the client may still reach Core later, or never: it waits in     *)
(* late.  A worker that crashes restarts under the same worker_id, as it   *)
(* does when MMDASH_WORKER_ID is configured.                               *)
(***************************************************************************)
EXTENDS JobQueue, FiniteSets

CONSTANTS
  NoJob,     \* the worker has no job
  Lease,     \* lease_seconds of every worker; the runtime asks for at least 10
  MaxLate,   \* bound: requests under way after their client gave up
  MaxCrashes \* bound: crashes

ASSUME JobWorkerConstants ==
  /\ NoJob \notin Jobs
  /\ Lease \in LeaseTerms /\ Lease > 1
  /\ 0 \in Delays
  /\ MaxLate \in Nat
  /\ MaxCrashes \in Nat

VARIABLES
  worker,    \* the state of each worker process
  late,      \* requests whose client has given up
  unanswered,\* history: some client has given up on a request
  crashes,   \* crashes so far
  produced   \* history: the attempts of each job whose handler returned a result

workerVars == <<worker, late, unanswered, crashes, produced>>
allVars == <<job, logs, announced, worker, late, unanswered, crashes, produced>>

-----------------------------------------------------------------------------
Phases == {"polling", "backoff", "handling", "completing", "failing", "down"}
Busy == {"handling", "completing", "failing"}

\* Mutant of RenewInterval: the whole lease.
RenewIntervalWhole == Lease

\* renew_interval_seconds is not set by the launcher: max(1, lease / 2).
RenewInterval == IF Lease \div 2 > 1 THEN Lease \div 2 ELSE 1

\* tardy is history: a renewal was due and was not sent before time passed.
Process == [phase : Phases, job : Jobs \cup {NoJob}, attempt : Nat, renewIn : Nat,
            cancelSeen : BOOLEAN, renewFailed : BOOLEAN, retryable : BOOLEAN,
            tardy : BOOLEAN]

Request == [kind : {"claim", "renew", "complete", "fail"}, worker : Workers,
            job : Jobs \cup {NoJob}]

Idle(phase) ==
  [phase |-> phase, job |-> NoJob, attempt |-> 0, renewIn |-> 0,
   cancelSeen |-> FALSE, renewFailed |-> FALSE, retryable |-> FALSE, tardy |-> FALSE]

Working(j, attempt) ==
  [Idle("handling") EXCEPT !.job = j, !.attempt = attempt, !.renewIn = RenewInterval]

WInit ==
  /\ Init
  /\ worker = [w \in Workers |-> Idle("polling")]
  /\ late = {}
  /\ unanswered = FALSE
  /\ crashes = 0
  /\ produced = [j \in Jobs |-> {}]

Goto(w, p) == worker' = [worker EXCEPT ![w] = p]

\* The client gives up on a request that may still arrive.
TimesOut(kind, w, j) ==
  /\ Cardinality(late) < MaxLate
  /\ late' = late \cup {[kind |-> kind, worker |-> w, job |-> j]}
  /\ unanswered' = TRUE
  /\ UNCHANGED vars

\* Core answers 409: reading the job recovers it, the lease is not w's.
Rejected(w, j) == Get(j) /\ ~OwnsLease(w, job'[j])

-----------------------------------------------------------------------------
(* run_once and run_forever                                                *)

\* Mutant of PollAnswered: the attempt is read from the row before the claim.
PollAnsweredStale(w) ==
  /\ worker[w].phase = "polling"
  /\ \/ ClaimNone /\ UNCHANGED worker
     \/ \E j \in Jobs : /\ ClaimJob(w, j, Lease)
                        /\ Goto(w, Working(j, job[j].attempts))
  /\ UNCHANGED <<late, unanswered, crashes, produced>>

PollAnswered(w) ==
  /\ worker[w].phase = "polling"
  /\ \/ ClaimNone /\ UNCHANGED worker
     \/ \E j \in Jobs : /\ ClaimJob(w, j, Lease)
                        /\ Goto(w, Working(j, job'[j].attempts))
  /\ UNCHANGED <<late, unanswered, crashes, produced>>

PollTimesOut(w) ==
  /\ worker[w].phase = "polling"
  /\ TimesOut("claim", w, NoJob)
  /\ Goto(w, Idle("backoff"))
  /\ UNCHANGED <<crashes, produced>>

Resume(w) ==
  /\ worker[w].phase = "backoff"
  /\ Goto(w, Idle("polling"))
  /\ UNCHANGED <<vars, late, unanswered, crashes, produced>>

(* _process: the handler returns, or raises                                *)

HandlerReturns(w) ==
  LET p == worker[w] IN
  /\ p.phase = "handling"
  /\ produced' = [produced EXCEPT ![p.job] = @ \cup {p.attempt}]
  /\ Goto(w, IF p.cancelSeen THEN [p EXCEPT !.phase = "failing", !.retryable = FALSE]
             ELSE IF p.renewFailed THEN [p EXCEPT !.phase = "failing", !.retryable = TRUE]
             ELSE [p EXCEPT !.phase = "completing"])
  /\ UNCHANGED <<vars, late, unanswered, crashes>>

HandlerRaises(w, retryable) ==
  /\ worker[w].phase = "handling"
  /\ Goto(w, [worker[w] EXCEPT !.phase = "failing", !.retryable = retryable])
  /\ UNCHANGED <<vars, late, unanswered, crashes, produced>>

\* A refusal by Core (4xx) is final, an error of Core (5xx) is retried; a hook
\* may refuse a result although the lease is live.
SubmitResult(w) ==
  LET p == worker[w]
      ToFail(retryable) == [p EXCEPT !.phase = "failing", !.retryable = retryable]
  IN
  /\ p.phase = "completing"
  /\ \/ Complete(w, p.job) /\ Goto(w, Idle("polling")) /\ UNCHANGED <<late, unanswered>>
     \/ Rejected(w, p.job) /\ Goto(w, ToFail(FALSE)) /\ UNCHANGED <<late, unanswered>>
     \/ /\ Get(p.job)
        /\ \E retryable \in BOOLEAN : Goto(w, ToFail(retryable))
        /\ UNCHANGED <<late, unanswered>>
     \/ TimesOut("complete", w, p.job) /\ Goto(w, ToFail(TRUE))
  /\ UNCHANGED <<crashes, produced>>

\* _submit_failure: whatever comes back, the loop goes on.
SubmitFailure(w) ==
  LET p == worker[w] IN
  /\ p.phase = "failing"
  /\ \/ Fail(w, p.job, p.retryable, 0) /\ UNCHANGED <<late, unanswered>>
     \/ Rejected(w, p.job) /\ UNCHANGED <<late, unanswered>>
     \/ TimesOut("fail", w, p.job)
  /\ Goto(w, Idle("polling"))
  /\ UNCHANGED <<crashes, produced>>

(* _renew_loop                                                             *)

RenewalIsDue(p) == p.phase \in Busy /\ ~p.renewFailed /\ p.renewIn = 0

RenewLease(w) ==
  LET p == worker[w] IN
  /\ RenewalIsDue(p)
  /\ \/ /\ Renew(w, p.job, Lease)
        /\ Goto(w, [p EXCEPT !.renewIn = RenewInterval,
                             !.cancelSeen = @ \/ job[p.job].cancelRequested])
        /\ UNCHANGED <<late, unanswered>>
     \/ /\ Rejected(w, p.job)
        /\ Goto(w, [p EXCEPT !.renewFailed = TRUE])
        /\ UNCHANGED <<late, unanswered>>
     \/ TimesOut("renew", w, p.job) /\ Goto(w, [p EXCEPT !.renewFailed = TRUE])
  /\ UNCHANGED <<crashes, produced>>

Crash(w) ==
  /\ crashes < MaxCrashes
  /\ worker[w].phase # "down"
  /\ Goto(w, Idle("down"))
  /\ crashes' = crashes + 1
  /\ UNCHANGED <<vars, late, unanswered, produced>>

Restart(w) ==
  /\ worker[w].phase = "down"
  /\ Goto(w, Idle("polling"))
  /\ UNCHANGED <<vars, late, unanswered, crashes, produced>>

-----------------------------------------------------------------------------
(* A late request arrives with no one waiting for the answer, or never.    *)

Arrives(m) ==
  /\ m \in late
  /\ late' = late \ {m}
  /\ \/ m.kind = "claim" /\ \E j \in Jobs : ClaimJob(m.worker, j, Lease)
     \/ m.kind = "renew" /\ Renew(m.worker, m.job, Lease)
     \/ m.kind = "complete" /\ Complete(m.worker, m.job)
     \/ m.kind = "fail" /\ Fail(m.worker, m.job, TRUE, 0)
     \/ UNCHANGED vars
  /\ UNCHANGED <<worker, unanswered, crashes, produced>>

Submit(j) ==
  /\ \E max \in AttemptLimits, delay \in Delays : Create(j, NoKey, max, delay)
  /\ UNCHANGED workerVars

CancelByUser(j) == (Cancel(j) \/ CancelDuringRecovery(j)) /\ UNCHANGED workerVars

TimePasses ==
  /\ Tick
  /\ worker' = [w \in Workers |->
       [worker[w] EXCEPT !.renewIn = Elapse(@), !.tardy = @ \/ RenewalIsDue(worker[w])]]
  /\ UNCHANGED <<late, unanswered, crashes, produced>>

WNext ==
  \/ \E w \in Workers :
       \/ PollAnswered(w) \/ PollTimesOut(w) \/ Resume(w)
       \/ HandlerReturns(w)
       \/ \E retryable \in BOOLEAN : HandlerRaises(w, retryable)
       \/ SubmitResult(w) \/ SubmitFailure(w) \/ RenewLease(w)
       \/ Crash(w) \/ Restart(w)
  \/ \E m \in late : Arrives(m)
  \/ \E j \in Jobs : Submit(j) \/ CancelByUser(j)
  \/ TimePasses

WSpec == WInit /\ [][WNext]_allVars

\* Processes run, restart, and their handlers end; the timer of a renewal
\* fires; a poll that is retried for ever is answered in the end.
WFairness ==
  /\ WF_allVars(TimePasses)
  /\ \A w \in Workers :
       /\ SF_allVars(PollAnswered(w))
       /\ WF_allVars(Resume(w)) /\ WF_allVars(Restart(w))
       /\ WF_allVars(HandlerReturns(w) \/ \E r \in BOOLEAN : HandlerRaises(w, r))
       /\ WF_allVars(SubmitResult(w)) /\ WF_allVars(SubmitFailure(w))
       /\ WF_allVars(RenewLease(w))

WFairSpec == WSpec /\ WFairness

-----------------------------------------------------------------------------
\* Every variable has its type.
WTypeOK ==
  /\ TypeOK
  /\ worker \in [Workers -> Process]
  /\ late \subseteq Request
  /\ unanswered \in BOOLEAN
  /\ crashes \in 0..MaxCrashes
  /\ produced \in [Jobs -> SUBSET Nat]

\* Two workers never work on the same attempt of a job, whatever claims
\* arrive late: an attempt number belongs to the one claim that drew it.
OneHandlerPerAttempt ==
  \A v, w \in Workers :
    /\ worker[v].phase \in Busy /\ worker[w].phase \in Busy
    /\ worker[v].job = worker[w].job /\ worker[v].attempt = worker[w].attempt
    => v = w

\* A job succeeds only on a result that a handler has returned for it, also
\* when the success is recorded by a request that its worker gave up on.
SuccessHasResult ==
  \A j \in Jobs : job[j].status = "succeeded" => produced[j] # {}

\* The worker that owns the lease of a job and works on it, works on the
\* attempt the lease was given for, so what it submits belongs to that
\* attempt.  Requests carry no attempt number: this holds because a worker
\* has one job at a time, and only as long as no client has given up on a
\* request that may still arrive.
LeaseIsOfThisAttempt ==
  ~unanswered => \A w \in Workers :
    /\ worker[w].phase \in Busy
    /\ job[worker[w].job].lockedBy = w
    => job[worker[w].job].attempts = worker[w].attempt

\* Renewing every half lease is enough: as long as every request is answered
\* and renewals are sent when they are due, a handler that may still succeed
\* keeps its lease for as long as it runs, also after crashes and restarts.
LeaseOutlivesHandler ==
  ~unanswered => \A w \in Workers :
    /\ worker[w].phase \in Busy /\ ~worker[w].renewFailed /\ ~worker[w].tardy
    /\ job[worker[w].job].timeoutIn > 0
    => OwnsLease(w, job[worker[w].job])

\* Jobs end although workers crash and requests are lost on the way.
EveryJobEndsWithWorkers ==
  \A j \in Jobs : job[j].status = "queued" ~> job[j].status \in Terminal
=============================================================================
