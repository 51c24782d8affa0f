------------------------------ MODULE JobQueue ------------------------------
(***************************************************************************)
(* The durable Job queue of Core: the rows of the table jobs and the       *)
(* transactions that change them (backend/internal/jobs/postgres.go).      *)
(* Any worker may send any request at any time; a store transaction is one *)
(* step.  The clock is modelled by what remains of each deadline: a timer  *)
(* holds the time left until the stored timestamp, 0 once the timestamp is *)
(* <= now, and Off where the column is NULL, for which neither <= nor >    *)
(* holds in SQL.                                                           *)
(***************************************************************************)
EXTENDS Integers

CONSTANTS
  Jobs,          \* identifiers, each used for at most one row
  Workers,       \* values of worker_id
  Keys,          \* idempotency keys of one project and job type
  NoWorker,      \* locked_by IS NULL
  NoKey,         \* idempotency_key IS NULL
  CanClaim,      \* <<worker, job>>: the job's type and project are the worker's
  AttemptLimits, \* values of max_attempts a client asks for
  Timeout,       \* timeout_seconds
  LeaseTerms,    \* values of lease_seconds a worker asks for
  Delays         \* retry_delay_seconds and delays until the first available_at

ASSUME JobQueueConstants ==
  /\ NoWorker \notin Workers
  /\ NoKey \notin Keys
  /\ CanClaim \subseteq Workers \X Jobs
  /\ AttemptLimits \subseteq Nat \ {0}
  /\ Timeout \in Nat \ {0}
  /\ LeaseTerms \subseteq Nat \ {0}
  /\ Delays \subseteq Nat

VARIABLES
  job,           \* the row of each job
  logs,          \* the rows of job_logs
  announced      \* the events of each job written to system_outbox

vars == <<job, logs, announced>>

-----------------------------------------------------------------------------
Terminal == {"succeeded", "failed", "cancelled", "timed_out"}
Statuses == {"absent", "queued", "running"} \cup Terminal
EventTypes == {"created", "cancel_requested", "queued"} \cup Terminal

Off == -1
Timer == Nat \cup {Off}
Elapse(t) == IF t > 0 THEN t - 1 ELSE t

Row == [status : Statuses, attempts : Nat, maxAttempts : Nat \ {0},
        key : Keys \cup {NoKey}, availableIn : Nat, timeoutIn : Timer,
        leaseIn : Timer, lockedBy : Workers \cup {NoWorker},
        cancelRequested : BOOLEAN, hasResult : BOOLEAN]

Log == [job : Jobs, attempt : Nat, worker : Workers]

NewRow(status, key, max, delay) ==
  [status |-> status, attempts |-> 0, maxAttempts |-> max, key |-> key,
   availableIn |-> delay, timeoutIn |-> Off, leaseIn |-> Off,
   lockedBy |-> NoWorker, cancelRequested |-> FALSE, hasResult |-> FALSE]

Init ==
  /\ job = [j \in Jobs |-> NewRow("absent", NoKey, 1, 0)]
  /\ logs = {}
  /\ announced = [j \in Jobs |-> {}]

\* Every way out of "running" clears the lock and the lease.
Released(r, status) ==
  [r EXCEPT !.status = status, !.lockedBy = NoWorker, !.leaseIn = Off]

\* Mutant of HasRetry: one attempt too many.
HasRetryInclusive(r) == r.attempts <= r.maxAttempts

HasRetry(r) == r.attempts < r.maxAttempts

-----------------------------------------------------------------------------
(* recoverExpired: three UPDATEs in this order, over one row or over all.  *)

RecoverCancelled(r) ==
  IF r.status = "running" /\ r.cancelRequested /\ r.leaseIn = 0
  THEN Released(r, "cancelled") ELSE r

RecoverTimedOut(r) ==
  IF r.status \in {"queued", "running"} /\ r.timeoutIn = 0
  THEN Released(r, "timed_out") ELSE r

\* Mutant of RecoverLease: available_at becomes NULL.
RecoverLeaseUnscheduled(r) ==
  IF r.status = "running" /\ r.leaseIn = 0
  THEN IF HasRetry(r) THEN [Released(r, "queued") EXCEPT !.availableIn = Off]
                      ELSE Released(r, "failed")
  ELSE r

RecoverLease(r) ==
  IF r.status = "running" /\ r.leaseIn = 0
  THEN IF HasRetry(r) THEN [Released(r, "queued") EXCEPT !.availableIn = 0]
                      ELSE Released(r, "failed")
  ELSE r

\* Mutant of Recovered: only the first of the three updates.
RecoveredCancelledOnly(r) == RecoverCancelled(r)

Recovered(r) == RecoverLease(RecoverTimedOut(RecoverCancelled(r)))

\* Mutant of Claimed: attempts is not incremented.
ClaimedUncounted(r, w, lease) ==
  [r EXCEPT !.status = "running", !.lockedBy = w, !.leaseIn = lease,
            !.timeoutIn = IF @ = Off THEN Timeout ELSE @]

\* SET clauses of Claim, Complete, Fail and Cancel.
Claimed(r, w, lease) ==
  [r EXCEPT !.status = "running", !.attempts = @ + 1, !.lockedBy = w,
            !.leaseIn = lease, !.timeoutIn = IF @ = Off THEN Timeout ELSE @]

\* Mutant of Completed: a result beats a cancellation.
CompletedRegardless(r) ==
  IF r.timeoutIn = 0 THEN Released(r, "timed_out")
  ELSE [Released(r, "succeeded") EXCEPT !.hasResult = TRUE]

Completed(r) ==
  IF r.cancelRequested THEN Released(r, "cancelled")
  ELSE IF r.timeoutIn = 0 THEN Released(r, "timed_out")
  ELSE [Released(r, "succeeded") EXCEPT !.hasResult = TRUE]

Failed(r, retryable, delay) ==
  IF r.cancelRequested THEN Released(r, "cancelled")
  ELSE IF r.timeoutIn = 0 THEN Released(r, "timed_out")
  ELSE IF retryable /\ HasRetry(r)
       THEN [Released(r, "queued") EXCEPT !.availableIn = delay]
  ELSE Released(r, "failed")

CancelRequested(r) ==
  [r EXCEPT !.status = IF @ = "queued" THEN "cancelled" ELSE @,
            !.cancelRequested = TRUE]

\* Each UPDATE of recoverExpired has a snapshot of its own.  The first passes
\* over a row whose cancellation commits only afterwards; the others see it.
Overtaken(r) == RecoverLease(RecoverTimedOut(CancelRequested(r)))

OwnsLease(w, r) == r.status = "running" /\ r.lockedBy = w /\ r.leaseIn > 0

-----------------------------------------------------------------------------
Announce(j, event) == announced' = [announced EXCEPT ![j] = @ \cup {event}]

\* A second request with a used key resolves to the first row: no step.
Create(j, key, max, delay) ==
  /\ job[j].status = "absent"
  /\ key # NoKey => \A k \in Jobs : job[k].key # key
  /\ job' = [job EXCEPT ![j] = NewRow("queued", key, max, delay)]
  /\ Announce(j, "created")
  /\ UNCHANGED logs

\* Every service operation on one job reads it first, which recovers it.
Get(j) ==
  /\ job' = [job EXCEPT ![j] = Recovered(@)]
  /\ UNCHANGED <<logs, announced>>

Swept == [j \in Jobs |-> Recovered(job[j])]

\* The claim finds no row, or only rows that other transactions have locked.
ClaimNone ==
  /\ job' = Swept
  /\ UNCHANGED <<logs, announced>>

\* FOR UPDATE SKIP LOCKED may pass over any row that another transaction
\* holds, so whatever the ORDER BY, any eligible row may be the one returned.
ClaimJob(w, j, lease) ==
  /\ <<w, j>> \in CanClaim
  /\ Swept[j].status = "queued"
  /\ Swept[j].availableIn = 0
  /\ job' = [Swept EXCEPT ![j] = Claimed(@, w, lease)]
  /\ UNCHANGED <<logs, announced>>

\* Lost leases leave no trace: ErrLeaseLost rolls the recovery back too.
Renew(w, j, lease) ==
  /\ OwnsLease(w, job[j])
  /\ job[j].timeoutIn > 0
  /\ job' = [job EXCEPT ![j].leaseIn = lease]
  /\ UNCHANGED <<logs, announced>>

AppendLog(w, j) ==
  /\ OwnsLease(w, job[j])
  /\ job[j].timeoutIn > 0
  /\ logs' = logs \cup {[job |-> j, attempt |-> job[j].attempts, worker |-> w]}
  /\ UNCHANGED <<job, announced>>

Complete(w, j) ==
  /\ OwnsLease(w, job[j])
  /\ job' = [job EXCEPT ![j] = Completed(@)]
  /\ Announce(j, job'[j].status)
  /\ UNCHANGED logs

Fail(w, j, retryable, delay) ==
  /\ OwnsLease(w, job[j])
  /\ job' = [job EXCEPT ![j] = Failed(@, retryable, delay)]
  /\ Announce(j, job'[j].status)
  /\ UNCHANGED logs

\* Mutant of Cancel: finished jobs are cancelled too.
CancelAnything(j) ==
  /\ job[j].status # "absent"
  /\ job' = [job EXCEPT ![j] = CancelRequested(@)]
  /\ Announce(j, "cancel_requested")
  /\ UNCHANGED logs

\* Cancelling a finished job answers with the row and changes nothing.
Cancel(j) ==
  /\ job[j].status \in {"queued", "running"}
  /\ job' = [job EXCEPT ![j] = CancelRequested(@)]
  /\ Announce(j, "cancel_requested")
  /\ UNCHANGED logs

\* A cancellation that commits between the updates of a recovery.  The two
\* transactions are one step: nobody but another recovery can change the row of
\* an expired lease between them, and that one would simply end the job.
CancelDuringRecovery(j) ==
  /\ job[j].status = "running" /\ job[j].leaseIn = 0
  /\ ~job[j].cancelRequested
  /\ job' = [job EXCEPT ![j] = Overtaken(@)]
  /\ Announce(j, "cancel_requested")
  /\ UNCHANGED logs

\* No statement reads the timers of a finished row: they stop.
Aged(r) ==
  IF r.status \in Terminal THEN r
  ELSE [r EXCEPT !.availableIn = Elapse(@), !.timeoutIn = Elapse(@),
                 !.leaseIn = Elapse(@)]

Tick ==
  /\ job' = [j \in Jobs |-> Aged(job[j])]
  /\ UNCHANGED <<logs, announced>>

Next ==
  \/ \E j \in Jobs, key \in Keys \cup {NoKey}, max \in AttemptLimits,
        delay \in Delays : Create(j, key, max, delay)
  \/ \E j \in Jobs : Get(j)
  \/ ClaimNone
  \/ \E w \in Workers, j \in Jobs, lease \in LeaseTerms : ClaimJob(w, j, lease)
  \/ \E w \in Workers, j \in Jobs, lease \in LeaseTerms : Renew(w, j, lease)
  \/ \E w \in Workers, j \in Jobs : AppendLog(w, j)
  \/ \E w \in Workers, j \in Jobs : Complete(w, j)
  \/ \E w \in Workers, j \in Jobs, retryable \in BOOLEAN, delay \in Delays :
        Fail(w, j, retryable, delay)
  \/ \E j \in Jobs : Cancel(j) \/ CancelDuringRecovery(j)
  \/ Tick

Spec == Init /\ [][Next]_vars

-----------------------------------------------------------------------------
\* Every variable has its type.
TypeOK ==
  /\ job \in [Jobs -> Row]
  /\ logs \subseteq Log
  /\ announced \in [Jobs -> SUBSET EventTypes]

\* A row carries a lock and a lease exactly while it is running, an absolute
\* timeout exactly since its first claim, and a result exactly when it has
\* succeeded, whatever mix of recovery, claims and late answers produced it.
Consistent(r) ==
  /\ r.status = "running" <=> r.lockedBy # NoWorker
  /\ r.status = "running" <=> r.leaseIn # Off
  /\ r.attempts > 0 <=> r.timeoutIn # Off
  /\ r.hasResult <=> r.status = "succeeded"
  /\ r.status \in {"running", "succeeded", "failed", "timed_out"} => r.attempts > 0

RowConsistency == \A j \in Jobs : Consistent(job[j])

\* The attempt budget: no row is claimed more often than max_attempts, and a
\* row waiting in the queue always has an attempt left, so a claim never
\* needs to look at max_attempts (buildClaimQuery does not).
AttemptBudget ==
  \A j \in Jobs :
    /\ job[j].attempts <= job[j].maxAttempts
    /\ job[j].status = "queued" => HasRetry(job[j])

\* An idempotency key names one row.
UniqueKeys ==
  \A j, k \in Jobs : job[j].key = job[k].key /\ job[j].key # NoKey => j = k

\* The attempt number in the logs identifies one worker, also after leases
\* were lost and the job was claimed by another worker.
OneWorkerPerAttempt ==
  \A l, m \in logs : l.job = m.job /\ l.attempt = m.attempt => l.worker = m.worker

\* A success is always announced to the other modules, and only a success is.
SuccessAnnounced ==
  \A j \in Jobs : "succeeded" \in announced[j] <=> job[j].status = "succeeded"

\* A finished job never changes again, whoever still works on it.
TerminalIsFinal ==
  [][\A j \in Jobs : job[j].status \in Terminal => job'[j] = job[j]]_vars

\* Cancellation takes precedence: once a cancellation has been recorded, no
\* late result, failure, retry or lease recovery can make the job succeed,
\* fail or go back to the queue.  A recovery that was already under way when
\* it was recorded still may requeue or fail the job, but nothing after it.
CancellationWins ==
  [][\A j \in Jobs :
       job[j].cancelRequested =>
         /\ job'[j].cancelRequested
         /\ \/ job'[j].status = job[j].status
            \/ job'[j].status \in {"running", "cancelled", "timed_out"}]_vars

\* A lease passes from one worker to another only after it has expired.
LeaseHandover ==
  [][\A j \in Jobs :
       /\ job[j].lockedBy # NoWorker
       /\ job'[j].lockedBy \notin {NoWorker, job[j].lockedBy}
       => job[j].leaseIn = 0]_vars

\* The timeout is absolute: neither a retry nor a renewal moves it.
TimeoutIsAbsolute ==
  [][\A j \in Jobs :
       job[j].timeoutIn # Off => job'[j].timeoutIn \in {job[j].timeoutIn, job[j].timeoutIn - 1}]_vars

=============================================================================
