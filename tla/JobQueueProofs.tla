--------------------------- MODULE JobQueueProofs ---------------------------
(***************************************************************************)
(* Proofs about JobQueue for any number of jobs, workers, keys and any     *)
(* lease terms, delays and attempt limits.  Rows are independent of each   *)
(* other but for the idempotency key, so the inductive invariant is a      *)
(* predicate of one row, and each SET clause has a lemma.                  *)
(***************************************************************************)
EXTENDS JobQueue, TLAPS

\* The budget of attempts; a row not yet inserted is blank.
Budget(r) ==
  /\ r.status = "absent" => r.attempts = 0 /\ r.key = NoKey
  /\ r.attempts <= r.maxAttempts
  /\ r.status = "queued" => HasRetry(r)

CancelKept(r) == r.cancelRequested => r.status \notin {"absent", "succeeded"}

\* What a step must leave of a cancellation that it finds recorded.
CancelStands(r, s) ==
  r.cancelRequested =>
    /\ s.cancelRequested
    /\ s.status = r.status \/ s.status \in {"running", "cancelled", "timed_out"}

RowInv(r) == r \in Row /\ Consistent(r) /\ Budget(r) /\ CancelKept(r)

USE DEF Off, Timer, Terminal, Statuses

\* What must be known of a row when it is released to a status.
LEMMA ReleasedInv ==
  ASSUME NEW r, RowInv(r), r.status \in {"queued", "running"}, r.attempts > 0,
         NEW s \in Statuses \ {"absent", "running", "succeeded"},
         s = "queued" => HasRetry(r)
  PROVE  /\ RowInv(Released(r, s)) /\ Released(r, s).attempts = r.attempts
         /\ Released(r, s).key = r.key /\ Released(r, s).timeoutIn = r.timeoutIn
         /\ Released(r, s).lockedBy = NoWorker /\ Released(r, s).status = s
         /\ Released(r, s).cancelRequested = r.cancelRequested
<1> DEFINE n == Released(r, s)
<1>1. /\ n \in Row /\ n.status = s /\ n.lockedBy = NoWorker /\ n.leaseIn = Off
      /\ n.attempts = r.attempts /\ n.key = r.key /\ n.maxAttempts = r.maxAttempts
      /\ n.timeoutIn = r.timeoutIn /\ n.hasResult = r.hasResult
      /\ n.cancelRequested = r.cancelRequested
  BY DEF RowInv, Row, Released
<1> HIDE DEF n
<1>2. Consistent(n) /\ Budget(n) /\ CancelKept(n)
  BY <1>1 DEF RowInv, Consistent, Budget, CancelKept, HasRetry
<1> QED BY <1>1, <1>2 DEF RowInv, n

\* A row that is released to the queue may be due at any time.
LEMMA DelayedInv ==
  ASSUME NEW r, RowInv(r), NEW delay \in Nat
  PROVE  /\ RowInv([r EXCEPT !.availableIn = delay])
         /\ [r EXCEPT !.availableIn = delay].attempts = r.attempts
         /\ [r EXCEPT !.availableIn = delay].key = r.key
         /\ [r EXCEPT !.availableIn = delay].timeoutIn = r.timeoutIn
         /\ [r EXCEPT !.availableIn = delay].lockedBy = r.lockedBy
         /\ [r EXCEPT !.availableIn = delay].status = r.status
         /\ [r EXCEPT !.availableIn = delay].cancelRequested = r.cancelRequested
BY DEF RowInv, Row, Consistent, Budget, CancelKept, HasRetry

\* Recovery keeps the invariant; it changes neither the counters nor the key,
\* never touches a finished row, and leaves a row running only if it leaves
\* the row alone.
LEMMA RecoveredInv ==
  ASSUME NEW r, RowInv(r)
  PROVE  /\ RowInv(Recovered(r))
         /\ Recovered(r).attempts = r.attempts
         /\ Recovered(r).key = r.key
         /\ Recovered(r).timeoutIn = r.timeoutIn
         /\ Recovered(r).status \in {"running", "absent"} => Recovered(r) = r
         /\ r.status \in Terminal \cup {"absent"} => Recovered(r) = r
         /\ r.leaseIn # 0 /\ r.lockedBy # NoWorker
              => Recovered(r) = r \/ Recovered(r).status = "timed_out"
         /\ "succeeded" = Recovered(r).status <=> "succeeded" = r.status
         /\ CancelStands(r, Recovered(r))
<1>1. CASE RecoverCancelled(r) # r
  <2>1. RecoverCancelled(r) = Released(r, "cancelled")
    BY <1>1 DEF RecoverCancelled
  <2>2. r.status = "running" /\ r.cancelRequested /\ r.leaseIn = 0
    BY <1>1 DEF RecoverCancelled
  <2>3. Recovered(r) = Released(r, "cancelled")
    BY <2>1 DEF Recovered, RecoverTimedOut, RecoverLease, Released, RowInv, Row
  <2>4. RowInv(Released(r, "cancelled"))
    BY <2>2, ReleasedInv DEF RowInv, Row, Consistent
  <2> QED BY <2>2, <2>3, <2>4 DEF Released, RowInv, Row, CancelStands
<1>2. CASE RecoverCancelled(r) = r /\ RecoverTimedOut(r) # r
  <2>1. RecoverTimedOut(r) = Released(r, "timed_out")
    BY <1>2 DEF RecoverTimedOut
  <2>2. r.status \in {"queued", "running"} /\ r.timeoutIn = 0
    BY <1>2 DEF RecoverTimedOut
  <2>3. Recovered(r) = Released(r, "timed_out")
    BY <1>2, <2>1 DEF Recovered, RecoverLease, Released, RowInv, Row
  <2>4. RowInv(Released(r, "timed_out"))
    BY <2>2, ReleasedInv DEF RowInv, Row, Consistent
  <2> QED BY <2>2, <2>3, <2>4 DEF Released, RowInv, Row, CancelStands
<1>3. CASE RecoverCancelled(r) = r /\ RecoverTimedOut(r) = r
  <2>1. Recovered(r) = RecoverLease(r)
    BY <1>3 DEF Recovered
  <2>2. CASE r.status = "running" /\ r.leaseIn = 0
    <3>1. ~r.cancelRequested
      BY <1>3, <2>2 DEF RecoverCancelled, Released, RowInv, Row
    <3>2. r.attempts > 0
      BY <2>2 DEF RowInv, Consistent
    <3>3. CASE HasRetry(r)
      <4>1. Recovered(r) = [Released(r, "queued") EXCEPT !.availableIn = 0]
        BY <2>1, <2>2, <3>3 DEF RecoverLease
      <4>2. RowInv(Released(r, "queued"))
        BY <2>2, <3>2, <3>3, ReleasedInv
      <4>3. RowInv([Released(r, "queued") EXCEPT !.availableIn = 0])
        BY <4>2 DEF RowInv, Row, Consistent, Budget, CancelKept, HasRetry
      <4> QED BY <2>2, <3>1, <4>1, <4>3 DEF Released, RowInv, Row, CancelStands
    <3>4. CASE ~HasRetry(r)
      <4>1. Recovered(r) = Released(r, "failed")
        BY <2>1, <2>2, <3>4 DEF RecoverLease
      <4>2. RowInv(Released(r, "failed"))
        BY <2>2, <3>2, <3>4, ReleasedInv
      <4> QED BY <2>2, <3>1, <4>1, <4>2 DEF Released, RowInv, Row, CancelStands
    <3> QED BY <3>3, <3>4
  <2>3. CASE ~(r.status = "running" /\ r.leaseIn = 0)
    BY <2>1, <2>3 DEF RecoverLease, CancelStands
  <2> QED BY <2>2, <2>3
<1> QED BY <1>1, <1>2, <1>3

\* A claim keeps the invariant of the queued row it takes.
LEMMA ClaimedInv ==
  ASSUME NEW r, RowInv(r), r.status = "queued",
         NEW w \in Workers, NEW lease \in LeaseTerms
  PROVE  /\ RowInv(Claimed(r, w, lease))
         /\ Claimed(r, w, lease).attempts = r.attempts + 1
         /\ Claimed(r, w, lease).key = r.key
         /\ Claimed(r, w, lease).status = "running"
         /\ Claimed(r, w, lease).lockedBy = w
         /\ CancelStands(r, Claimed(r, w, lease))
         /\ r.timeoutIn # Off => Claimed(r, w, lease).timeoutIn = r.timeoutIn
<1> DEFINE timer == IF r.timeoutIn = Off THEN Timeout ELSE r.timeoutIn
<1> DEFINE tries == r.attempts + 1
<1>1. timer \in Nat /\ tries \in Nat
  BY JobQueueConstants DEF RowInv, Row
<1>2. w # NoWorker /\ lease \in Nat
  BY JobQueueConstants
<1>3. r \in Row /\ r.attempts < r.maxAttempts /\ ~r.hasResult
  BY DEF RowInv, Consistent, Budget, CancelKept, HasRetry, Row
<1>4. Claimed(r, w, lease) = [r EXCEPT !.status = "running", !.attempts = tries,
                                !.lockedBy = w, !.leaseIn = lease, !.timeoutIn = timer]
  BY DEF Claimed
<1>t. tries = r.attempts + 1
  OBVIOUS
<1> HIDE DEF timer, tries
<1> DEFINE c == [r EXCEPT !.status = "running", !.attempts = tries,
                          !.lockedBy = w, !.leaseIn = lease, !.timeoutIn = timer]
<1>5. c \in Row
  <2>1. r \in [status : Statuses, attempts : Nat, maxAttempts : Nat \ {0},
               key : Keys \cup {NoKey}, availableIn : Nat, timeoutIn : Timer,
               leaseIn : Timer, lockedBy : Workers \cup {NoWorker},
               cancelRequested : BOOLEAN, hasResult : BOOLEAN]
    BY <1>3 DEF Row
  <2>2. "running" \in Statuses /\ timer \in Timer /\ lease \in Timer
        /\ w \in Workers \cup {NoWorker}
    BY <1>1, <1>2
  <2> HIDE DEF Statuses, Timer, Terminal, Off
  <2> QED BY <1>1, <2>1, <2>2 DEF Row
<1>6. /\ c.status = "running" /\ c.attempts = tries
      /\ c.lockedBy = w /\ c.leaseIn = lease /\ c.timeoutIn = timer
      /\ c.key = r.key /\ c.maxAttempts = r.maxAttempts
      /\ c.hasResult = r.hasResult /\ c.cancelRequested = r.cancelRequested
  BY <1>3, <1>4 DEF Row
<1>7. r.attempts \in Nat /\ r.maxAttempts \in Nat
  BY <1>3 DEF Row
<1> HIDE DEF c
<1>8. Consistent(c) /\ Budget(c) /\ CancelKept(c)
  BY <1>1, <1>2, <1>3, <1>6, <1>7, <1>t DEF Consistent, Budget, CancelKept, HasRetry
<1> QED BY <1>4, <1>5, <1>6, <1>8, <1>t DEF RowInv, CancelStands, timer, c

\* A worker's answer keeps the invariant of the running row it ends.
LEMMA CompletedInv ==
  ASSUME NEW r, RowInv(r), r.status = "running"
  PROVE  /\ RowInv(Completed(r))
         /\ Completed(r).attempts = r.attempts
         /\ Completed(r).key = r.key
         /\ Completed(r).timeoutIn = r.timeoutIn
         /\ Completed(r).lockedBy = NoWorker
         /\ Completed(r).status \in {"cancelled", "timed_out", "succeeded"}
         /\ CancelStands(r, Completed(r))
<1>1. r.attempts > 0
  BY DEF RowInv, Consistent
<1>2. CASE r.cancelRequested
  BY <1>1, <1>2, ReleasedInv DEF Completed, CancelStands
<1>3. CASE ~r.cancelRequested /\ r.timeoutIn = 0
  BY <1>1, <1>3, ReleasedInv DEF Completed, CancelStands
<1>4. CASE ~r.cancelRequested /\ r.timeoutIn # 0
  <2> DEFINE n == [r EXCEPT !.status = "succeeded", !.lockedBy = NoWorker, !.leaseIn = Off,
                            !.hasResult = TRUE]
  <2>1. Completed(r) = n
    BY <1>4 DEF Completed, Released, RowInv, Row
  <2>2. /\ n \in Row /\ n.status = "succeeded" /\ n.lockedBy = NoWorker /\ n.leaseIn = Off
        /\ n.attempts = r.attempts /\ n.key = r.key /\ n.maxAttempts = r.maxAttempts
        /\ n.timeoutIn = r.timeoutIn /\ n.hasResult = TRUE
        /\ n.cancelRequested = r.cancelRequested
    BY DEF RowInv, Row
  <2> HIDE DEF n
  <2>3. Consistent(n) /\ Budget(n) /\ CancelKept(n)
    BY <1>1, <1>4, <2>2 DEF RowInv, Consistent, Budget, CancelKept, HasRetry
  <2> QED BY <1>4, <2>1, <2>2, <2>3 DEF RowInv, CancelStands
<1> QED BY <1>2, <1>3, <1>4

LEMMA FailedInv ==
  ASSUME NEW r, RowInv(r), r.status = "running",
         NEW retryable \in BOOLEAN, NEW delay \in Delays
  PROVE  /\ RowInv(Failed(r, retryable, delay))
         /\ Failed(r, retryable, delay).attempts = r.attempts
         /\ Failed(r, retryable, delay).key = r.key
         /\ Failed(r, retryable, delay).timeoutIn = r.timeoutIn
         /\ Failed(r, retryable, delay).lockedBy = NoWorker
         /\ Failed(r, retryable, delay).status
              \in {"cancelled", "timed_out", "queued", "failed"}
         /\ CancelStands(r, Failed(r, retryable, delay))
<1>1. r.attempts > 0 /\ delay \in Nat
  BY JobQueueConstants DEF RowInv, Consistent
<1>2. CASE r.cancelRequested
  BY <1>1, <1>2, ReleasedInv DEF Failed, CancelStands
<1>3. CASE ~r.cancelRequested /\ r.timeoutIn = 0
  BY <1>1, <1>3, ReleasedInv DEF Failed, CancelStands
<1>4. CASE ~r.cancelRequested /\ r.timeoutIn # 0 /\ retryable /\ HasRetry(r)
  <2> DEFINE n == Released(r, "queued")
  <2>1. RowInv(n) /\ n.attempts = r.attempts /\ n.key = r.key /\ n.timeoutIn = r.timeoutIn
        /\ n.lockedBy = NoWorker /\ n.status = "queued"
    BY <1>1, <1>4, ReleasedInv
  <2>2. Failed(r, retryable, delay) = [n EXCEPT !.availableIn = delay]
    BY <1>4 DEF Failed
  <2>3. CancelStands(r, Failed(r, retryable, delay))
    BY <1>4 DEF CancelStands
  <2> HIDE DEF n
  <2> QED BY <1>1, <2>1, <2>2, <2>3, DelayedInv
<1>5. CASE ~r.cancelRequested /\ r.timeoutIn # 0 /\ ~(retryable /\ HasRetry(r))
  BY <1>1, <1>5, ReleasedInv DEF Failed, CancelStands
<1> QED BY <1>2, <1>3, <1>4, <1>5

\* So do a cancellation of a live row, a renewal and the passing of time.
LEMMA CancelledInv ==
  ASSUME NEW r, RowInv(r), r.status \in {"queued", "running"}
  PROVE  /\ RowInv(CancelRequested(r))
         /\ CancelRequested(r).attempts = r.attempts
         /\ CancelRequested(r).key = r.key
         /\ CancelRequested(r).timeoutIn = r.timeoutIn
         /\ CancelRequested(r).lockedBy = r.lockedBy
         /\ CancelRequested(r).status \in {"running", "cancelled"}
         /\ CancelStands(r, CancelRequested(r))
BY DEF CancelStands, RowInv, Row, Consistent, Budget, CancelKept, HasRetry, CancelRequested

\* A cancellation in the middle of a recovery leaves the job ended or queued.
LEMMA OvertakenInv ==
  ASSUME NEW r, RowInv(r), r.status = "running", r.leaseIn = 0
  PROVE  /\ RowInv(Overtaken(r))
         /\ Overtaken(r).attempts = r.attempts
         /\ Overtaken(r).key = r.key
         /\ Overtaken(r).timeoutIn = r.timeoutIn
         /\ Overtaken(r).lockedBy = NoWorker
         /\ Overtaken(r).status \in {"timed_out", "queued", "failed"}
<1> DEFINE c == CancelRequested(r)
<1>1. /\ RowInv(c) /\ c.attempts = r.attempts /\ c.key = r.key
      /\ c.timeoutIn = r.timeoutIn
  BY CancelledInv
<1>2. c.status = "running" /\ c.leaseIn = 0 /\ c.attempts > 0
  BY <1>1 DEF CancelRequested, RowInv, Row, Consistent
<1>3. Overtaken(r) = RecoverLease(RecoverTimedOut(c))
  BY DEF Overtaken
<1> HIDE DEF c
<1>4. CASE c.timeoutIn = 0
  <2> DEFINE n == Released(c, "timed_out")
  <2>1. RecoverTimedOut(c) = n
    BY <1>2, <1>4 DEF RecoverTimedOut
  <2>2. RowInv(n) /\ n.attempts = c.attempts /\ n.key = c.key /\ n.timeoutIn = c.timeoutIn
        /\ n.lockedBy = NoWorker /\ n.status = "timed_out"
    BY <1>1, <1>2, ReleasedInv
  <2>3. RecoverLease(n) = n
    BY <2>2 DEF RecoverLease
  <2> QED BY <1>1, <1>3, <2>1, <2>2, <2>3
<1>5. CASE c.timeoutIn # 0 /\ HasRetry(c)
  <2> DEFINE n == Released(c, "queued")
  <2>1. RecoverLease(RecoverTimedOut(c)) = [n EXCEPT !.availableIn = 0]
    BY <1>2, <1>5 DEF RecoverTimedOut, RecoverLease
  <2>2. RowInv(n) /\ n.attempts = c.attempts /\ n.key = c.key /\ n.timeoutIn = c.timeoutIn
        /\ n.lockedBy = NoWorker /\ n.status = "queued"
    BY <1>1, <1>2, <1>5, ReleasedInv
  <2> HIDE DEF n
  <2> DEFINE m == [n EXCEPT !.availableIn = 0]
  <2>3. /\ RowInv(m) /\ m.attempts = n.attempts /\ m.key = n.key /\ m.timeoutIn = n.timeoutIn
        /\ m.lockedBy = n.lockedBy /\ m.status = n.status
    <3>1. 0 \in Nat
      OBVIOUS
    <3> QED BY <2>2, <3>1, DelayedInv
  <2>4. Overtaken(r) = m
    BY <1>3, <2>1
  <2> HIDE DEF m
  <2> QED BY <1>1, <2>2, <2>3, <2>4
<1>6. CASE c.timeoutIn # 0 /\ ~HasRetry(c)
  <2>1. RecoverLease(RecoverTimedOut(c)) = Released(c, "failed")
    BY <1>2, <1>6 DEF RecoverTimedOut, RecoverLease
  <2> QED BY <1>1, <1>2, <1>3, <2>1, ReleasedInv
<1> QED BY <1>4, <1>5, <1>6

LEMMA RenewedInv ==
  ASSUME NEW r, RowInv(r), r.status = "running", NEW lease \in Nat
  PROVE  LET s == [r EXCEPT !.leaseIn = lease]
         IN  /\ RowInv(s)
             /\ s.attempts = r.attempts /\ s.status = r.status
             /\ s.timeoutIn = r.timeoutIn /\ s.lockedBy = r.lockedBy
             /\ s.key = r.key /\ s.cancelRequested = r.cancelRequested
<1> DEFINE s == [r EXCEPT !.leaseIn = lease]
<1>1. s \in Row
  BY DEF RowInv, Row
<1>2. /\ s.status = r.status /\ s.attempts = r.attempts /\ s.leaseIn = lease
      /\ s.maxAttempts = r.maxAttempts /\ s.timeoutIn = r.timeoutIn
      /\ s.lockedBy = r.lockedBy /\ s.cancelRequested = r.cancelRequested
      /\ s.hasResult = r.hasResult /\ s.key = r.key
  BY DEF RowInv, Row
<1> HIDE DEF s
<1>3. Consistent(s) /\ Budget(s) /\ CancelKept(s)
  BY <1>2 DEF RowInv, Consistent, Budget, CancelKept, HasRetry
<1> QED BY <1>1, <1>2, <1>3 DEF RowInv, s

LEMMA AgedInv ==
  ASSUME NEW r, RowInv(r)
  PROVE  /\ RowInv(Aged(r))
         /\ Aged(r).attempts = r.attempts
         /\ Aged(r).key = r.key
         /\ Aged(r).status = r.status
         /\ Aged(r).lockedBy = r.lockedBy
         /\ Aged(r).cancelRequested = r.cancelRequested
         /\ r.status \in Terminal => Aged(r) = r
         /\ r.timeoutIn # Off
              => Aged(r).timeoutIn \in {r.timeoutIn, r.timeoutIn - 1}
<1>1. CASE r.status \in Terminal
  BY <1>1 DEF Aged, RowInv, Row
<1>2. CASE r.status \notin Terminal
  <2>1. /\ Elapse(r.availableIn) \in Nat
        /\ Elapse(r.timeoutIn) \in Timer
        /\ Elapse(r.leaseIn) \in Timer
    BY DEF Elapse, RowInv, Row
  <2>2. /\ Elapse(r.timeoutIn) = Off <=> r.timeoutIn = Off
        /\ Elapse(r.leaseIn) = Off <=> r.leaseIn = Off
        /\ Elapse(r.timeoutIn) \in {r.timeoutIn, r.timeoutIn - 1}
    BY DEF Elapse, RowInv, Row
  <2>3. Aged(r) = [r EXCEPT !.availableIn = Elapse(@), !.timeoutIn = Elapse(@),
                            !.leaseIn = Elapse(@)]
    BY <1>2 DEF Aged
  <2> DEFINE a == Elapse(r.availableIn)
             t == Elapse(r.timeoutIn)
             l == Elapse(r.leaseIn)
             s == [r EXCEPT !.availableIn = a, !.timeoutIn = t, !.leaseIn = l]
  <2>4. r \in Row /\ a \in Nat /\ t \in Timer /\ l \in Timer /\ Aged(r) = s
    BY <2>1, <2>3 DEF RowInv
  <2>5. (t = Off <=> r.timeoutIn = Off) /\ (l = Off <=> r.leaseIn = Off)
        /\ t \in {r.timeoutIn, r.timeoutIn - 1}
    BY <2>2
  <2> HIDE DEF a, t, l
  <2>6. /\ s \in Row /\ s.timeoutIn = t /\ s.leaseIn = l
        /\ s.status = r.status /\ s.attempts = r.attempts /\ s.key = r.key
        /\ s.maxAttempts = r.maxAttempts /\ s.lockedBy = r.lockedBy
        /\ s.hasResult = r.hasResult /\ s.cancelRequested = r.cancelRequested
    BY <2>4 DEF Row
  <2> HIDE DEF s
  <2>7. Consistent(s) /\ Budget(s) /\ CancelKept(s)
    BY <2>5, <2>6 DEF RowInv, Consistent, Budget, CancelKept, HasRetry
  <2> QED BY <1>2, <2>4, <2>5, <2>6, <2>7 DEF RowInv
<1> QED BY <1>1, <1>2

-----------------------------------------------------------------------------
(* What any step of the queue does to one row.                             *)

RowStep(r, s) ==
  /\ RowInv(s)
  /\ r.status \in Terminal => s = r
  /\ r.lockedBy # NoWorker /\ s.lockedBy \notin {NoWorker, r.lockedBy}
       => r.leaseIn = 0
  /\ r.timeoutIn # Off => s.timeoutIn \in {r.timeoutIn, r.timeoutIn - 1}
  /\ s.attempts >= r.attempts
  /\ s.status = "running" /\ s.attempts = r.attempts => s.lockedBy = r.lockedBy
  /\ CancelStands(r, s)

QueueInv ==
  /\ job \in [Jobs -> Row]
  /\ logs \subseteq Log
  /\ announced \in [Jobs -> SUBSET EventTypes]
  /\ \A j \in Jobs : RowInv(job[j])

\* A row that is left alone, and one that is recovered, take a row step.
LEMMA IdleStep ==
  ASSUME NEW r, RowInv(r)
  PROVE  RowStep(r, r)
BY DEF RowStep, CancelStands, RowInv, Row

LEMMA RecoveryStep ==
  ASSUME NEW r, RowInv(r)
  PROVE  RowStep(r, Recovered(r))
<1> DEFINE s == Recovered(r)
<1>1. /\ RowInv(s)
      /\ s.attempts = r.attempts
      /\ s.timeoutIn = r.timeoutIn
      /\ s.status = "running" => s = r
      /\ r.status \in Terminal => s = r
      /\ CancelStands(r, s)
  BY RecoveredInv
<1>2. s.lockedBy \in {NoWorker, r.lockedBy}
  BY <1>1 DEF RowInv, Consistent
<1>3. r.attempts \in Nat
  BY DEF RowInv, Row
<1> HIDE DEF s
<1>4. RowStep(r, s)
  BY <1>1, <1>2, <1>3 DEF RowStep
<1> QED BY <1>4 DEF s

\* A recovery followed by a claim: the only step that gives a row a new owner.
LEMMA ClaimStep ==
  ASSUME NEW r, RowInv(r), Recovered(r).status = "queued",
         NEW w \in Workers, NEW lease \in LeaseTerms
  PROVE  RowStep(r, Claimed(Recovered(r), w, lease))
<1> DEFINE q == Recovered(r)
           s == Claimed(q, w, lease)
<1>1. /\ RowInv(q) /\ q.attempts = r.attempts /\ q.timeoutIn = r.timeoutIn
      /\ r.status \notin Terminal
      /\ r.leaseIn # 0 /\ r.lockedBy # NoWorker => q = r
      /\ CancelStands(r, q)
  BY RecoveredInv
<1>2. /\ RowInv(s) /\ s.status = "running" /\ CancelStands(q, s) /\ s.attempts = q.attempts + 1
      /\ q.timeoutIn # Off => s.timeoutIn = q.timeoutIn
  BY <1>1, ClaimedInv
<1>3. r.lockedBy # NoWorker => r.leaseIn = 0
  BY <1>1 DEF RowInv, Consistent
<1>4. r.attempts \in Nat
  BY DEF RowInv, Row
<1> HIDE DEF s, q
<1>5. RowStep(r, s)
  BY <1>1, <1>2, <1>3, <1>4 DEF RowStep, CancelStands
<1> QED BY <1>5 DEF s, q

LEMMA InitRows ==
  Init => \A j \in Jobs : /\ job[j] = NewRow("absent", NoKey, 1, 0)
                          /\ job[j].key = NoKey
                          /\ job[j].status = "absent"
<1>1. NewRow("absent", NoKey, 1, 0).key = NoKey
  BY DEF NewRow
<1>2. NewRow("absent", NoKey, 1, 0).status = "absent"
  BY DEF NewRow
<1> QED BY <1>1, <1>2 DEF Init

\* The initial state satisfies the invariant.
LEMMA QueueInvInit == Init => QueueInv
<1> SUFFICES ASSUME Init PROVE QueueInv
  OBVIOUS
<1>1. RowInv(NewRow("absent", NoKey, 1, 0))
  BY JobQueueConstants
     DEF RowInv, Row, NewRow, Consistent, Budget, CancelKept, HasRetry
<1>2. \A j \in Jobs : job[j] = NewRow("absent", NoKey, 1, 0)
  BY InitRows
<1>3. job \in [Jobs -> Row]
  BY <1>1 DEF Init, RowInv
<1> QED BY <1>1, <1>2, <1>3 DEF Init, QueueInv, EventTypes

\* Every step of the queue is a row step of every row.
LEMMA EveryRowSteps ==
  ASSUME QueueInv, [Next]_vars
  PROVE  \A i \in Jobs : RowStep(job[i], job'[i])
<1> SUFFICES ASSUME NEW i \in Jobs PROVE RowStep(job[i], job'[i])
  OBVIOUS
<1> USE DEF QueueInv
<1>0. RowInv(job[i]) /\ job[i] \in Row
  BY DEF RowInv
<1>1. ASSUME NEW j \in Jobs, NEW key \in Keys \cup {NoKey},
             NEW max \in AttemptLimits, NEW delay \in Delays,
             Create(j, key, max, delay)
      PROVE  RowStep(job[i], job'[i])
  <2>1. RowInv(NewRow("queued", key, max, delay))
    BY JobQueueConstants
       DEF RowInv, Row, NewRow, Consistent, Budget, CancelKept, HasRetry
  <2>2. CASE i # j
    BY <1>0, <1>1, <2>2, IdleStep DEF Create
  <2>3. CASE i = j
    <3>1. job'[i] = NewRow("queued", key, max, delay) /\ job[i].status = "absent"
      BY <1>1, <2>3 DEF Create
    <3>2. /\ job[i].attempts = 0 /\ job[i].lockedBy = NoWorker /\ job[i].timeoutIn = Off
          /\ ~job[i].cancelRequested
      BY <1>0, <3>1 DEF RowInv, Consistent, Row, Budget, CancelKept
    <3>3. job'[i].attempts = 0 /\ job'[i].status = "queued"
      BY <3>1 DEF NewRow
    <3> QED BY <2>1, <3>1, <3>2, <3>3 DEF RowStep, CancelStands
  <2> QED BY <2>2, <2>3
<1>2. ASSUME NEW j \in Jobs, Get(j)
      PROVE  RowStep(job[i], job'[i])
  BY <1>0, <1>2, IdleStep, RecoveryStep DEF Get
<1>3. ASSUME ClaimNone
      PROVE  RowStep(job[i], job'[i])
  BY <1>0, <1>3, RecoveryStep DEF ClaimNone, Swept
<1>4. ASSUME NEW w \in Workers, NEW j \in Jobs, NEW lease \in LeaseTerms,
             ClaimJob(w, j, lease)
      PROVE  RowStep(job[i], job'[i])
  <2>1. CASE i # j
    BY <1>0, <1>4, <2>1, RecoveryStep DEF ClaimJob, Swept
  <2>2. CASE i = j
    BY <1>0, <1>4, <2>2, ClaimStep DEF ClaimJob, Swept
  <2> QED BY <2>1, <2>2
<1>5. ASSUME NEW w \in Workers, NEW j \in Jobs, NEW lease \in LeaseTerms,
             Renew(w, j, lease)
      PROVE  RowStep(job[i], job'[i])
  <2>1. CASE i # j
    BY <1>0, <1>5, <2>1, IdleStep DEF Renew
  <2>2. CASE i = j
    <3>1. job'[i] = [job[i] EXCEPT !.leaseIn = lease] /\ job[i].status = "running"
      BY <1>5, <2>2 DEF Renew, OwnsLease
    <3>2. lease \in Nat
      BY JobQueueConstants
    <3> QED BY <1>0, <3>1, <3>2, RenewedInv DEF RowStep, CancelStands, Row
  <2> QED BY <2>1, <2>2
<1>6. ASSUME NEW w \in Workers, NEW j \in Jobs, AppendLog(w, j)
      PROVE  RowStep(job[i], job'[i])
  BY <1>0, <1>6, IdleStep DEF AppendLog
<1>7. ASSUME NEW w \in Workers, NEW j \in Jobs, Complete(w, j)
      PROVE  RowStep(job[i], job'[i])
  <2>1. CASE i # j
    BY <1>0, <1>7, <2>1, IdleStep DEF Complete
  <2>2. CASE i = j
    <3>1. job'[i] = Completed(job[i]) /\ job[i].status = "running"
      BY <1>7, <2>2 DEF Complete, OwnsLease
    <3> QED BY <1>0, <3>1, CompletedInv DEF RowStep, Row
  <2> QED BY <2>1, <2>2
<1>8. ASSUME NEW w \in Workers, NEW j \in Jobs, NEW retryable \in BOOLEAN,
             NEW delay \in Delays, Fail(w, j, retryable, delay)
      PROVE  RowStep(job[i], job'[i])
  <2>1. CASE i # j
    BY <1>0, <1>8, <2>1, IdleStep DEF Fail
  <2>2. CASE i = j
    <3>1. job'[i] = Failed(job[i], retryable, delay) /\ job[i].status = "running"
      BY <1>8, <2>2 DEF Fail, OwnsLease
    <3>2. /\ RowInv(job'[i]) /\ job'[i].attempts = job[i].attempts
          /\ job'[i].lockedBy = NoWorker /\ job'[i].timeoutIn = job[i].timeoutIn
          /\ job'[i].status # "running" /\ CancelStands(job[i], job'[i])
      BY <1>0, <3>1, FailedInv
    <3>3. job[i].attempts \in Nat
      BY <1>0 DEF RowInv, Row
    <3> QED BY <3>1, <3>2, <3>3 DEF RowStep
  <2> QED BY <2>1, <2>2
<1>9. ASSUME NEW j \in Jobs, Cancel(j)
      PROVE  RowStep(job[i], job'[i])
  <2>1. CASE i # j
    BY <1>0, <1>9, <2>1, IdleStep DEF Cancel
  <2>2. CASE i = j
    <3>1. /\ job'[i] = CancelRequested(job[i])
          /\ job[i].status \in {"queued", "running"}
      BY <1>9, <2>2 DEF Cancel
    <3> QED BY <1>0, <3>1, CancelledInv DEF RowStep, Row
  <2> QED BY <2>1, <2>2
<1>10. ASSUME Tick
       PROVE  RowStep(job[i], job'[i])
  BY <1>0, <1>10, AgedInv DEF Tick, RowStep, CancelStands, RowInv, Row
<1>11. ASSUME UNCHANGED vars
       PROVE  RowStep(job[i], job'[i])
  BY <1>0, <1>11, IdleStep DEF vars
<1>12. ASSUME NEW j \in Jobs, CancelDuringRecovery(j)
       PROVE  RowStep(job[i], job'[i])
  <2>1. CASE i # j
    BY <1>0, <1>12, <2>1, IdleStep DEF CancelDuringRecovery
  <2>2. CASE i = j
    <3>1. /\ job'[i] = Overtaken(job[i]) /\ job[i].status = "running"
          /\ job[i].leaseIn = 0 /\ ~job[i].cancelRequested
      BY <1>12, <2>2 DEF CancelDuringRecovery
    <3> QED BY <1>0, <3>1, OvertakenInv DEF RowStep, CancelStands, Row
  <2> QED BY <2>1, <2>2
<1> QED BY <1>1, <1>2, <1>3, <1>4, <1>5, <1>6, <1>7, <1>8, <1>9, <1>10, <1>11, <1>12 DEF Next

\* The types of the other variables are kept too.
LEMMA QueueInvStep == QueueInv /\ [Next]_vars => QueueInv'
<1> SUFFICES ASSUME QueueInv, [Next]_vars PROVE QueueInv'
  OBVIOUS
<1>1. \A i \in Jobs : RowInv(job'[i])
  BY EveryRowSteps DEF RowStep
<1>2. job' = [i \in Jobs |-> job'[i]]
  BY DEF QueueInv, Next, vars, Create, Get, ClaimNone, Swept, ClaimJob, Renew,
         AppendLog, Complete, Fail, Cancel, CancelDuringRecovery, Tick
<1>3. job' \in [Jobs -> Row]
  BY <1>1, <1>2 DEF RowInv
<1>4. logs' \subseteq Log
  <2>1. ASSUME NEW w \in Workers, NEW j \in Jobs, AppendLog(w, j)
        PROVE  logs' \subseteq Log
    <3>1. job[j].attempts \in Nat
      BY DEF QueueInv, Row
    <3> QED BY <2>1, <3>1 DEF AppendLog, QueueInv, Log
  <2>2. \/ UNCHANGED logs
        \/ \E w \in Workers, j \in Jobs : AppendLog(w, j)
    BY DEF Next, vars, Create, Get, ClaimNone, ClaimJob, Renew, Complete, Fail,
           Cancel, CancelDuringRecovery, Tick
  <2> QED BY <2>1, <2>2 DEF QueueInv
<1>5. announced' \in [Jobs -> SUBSET EventTypes]
  <2>1. ASSUME NEW j \in Jobs, NEW event \in EventTypes, Announce(j, event)
        PROVE  announced' \in [Jobs -> SUBSET EventTypes]
    BY <2>1 DEF QueueInv, Announce
  <2>2. ASSUME NEW w \in Workers, NEW j \in Jobs, Complete(w, j)
        PROVE  job'[j].status \in EventTypes
    <3>1. job'[j] = Completed(job[j]) /\ job[j].status = "running"
      BY <2>2 DEF Complete, OwnsLease, QueueInv
    <3> QED BY <3>1, CompletedInv DEF QueueInv, EventTypes
  <2>3. ASSUME NEW w \in Workers, NEW j \in Jobs, NEW retryable \in BOOLEAN,
               NEW delay \in Delays, Fail(w, j, retryable, delay)
        PROVE  job'[j].status \in EventTypes
    <3>1. job'[j] = Failed(job[j], retryable, delay) /\ job[j].status = "running"
      BY <2>3 DEF Fail, OwnsLease, QueueInv
    <3> QED BY <3>1, FailedInv DEF QueueInv, EventTypes
  <2>4. "created" \in EventTypes /\ "cancel_requested" \in EventTypes
    BY DEF EventTypes
  <2>5. UNCHANGED announced => announced' \in [Jobs -> SUBSET EventTypes]
    BY DEF QueueInv
  <2>6. \/ UNCHANGED announced
        \/ \E j \in Jobs, event \in EventTypes : Announce(j, event)
    BY <2>2, <2>3, <2>4 DEF Next, vars, Create, Get, ClaimNone, ClaimJob, Renew,
       AppendLog, Complete, Fail, Cancel, CancelDuringRecovery, Tick
  <2> QED BY <2>1, <2>5, <2>6
<1> QED BY <1>1, <1>3, <1>4, <1>5 DEF QueueInv

THEOREM QueueInvHolds == Spec => []QueueInv
BY QueueInvInit, QueueInvStep, PTL DEF Spec

\* Every variable keeps its type.
THEOREM TypeCorrect == Spec => []TypeOK
<1>1. QueueInv => TypeOK
  BY DEF QueueInv, TypeOK
<1> QED BY <1>1, QueueInvHolds, PTL

\* Lock, lease, timeout and result always agree with the status.
THEOREM RowsConsistent == Spec => []RowConsistency
<1>1. QueueInv => RowConsistency
  BY DEF QueueInv, RowInv, RowConsistency
<1> QED BY <1>1, QueueInvHolds, PTL

\* No job is attempted more than max_attempts times.
THEOREM BudgetKept == Spec => []AttemptBudget
<1>1. QueueInv => AttemptBudget
  BY DEF QueueInv, RowInv, Budget, AttemptBudget
<1> QED BY <1>1, QueueInvHolds, PTL

\* A recorded cancellation is not undone: from then on the job can only be
\* tried again, be cancelled or time out.
THEOREM CancellationDecides == Spec => CancellationWins
<1>1. QueueInv /\ [Next]_vars
        => [\A j \in Jobs :
              job[j].cancelRequested =>
                /\ job'[j].cancelRequested
                /\ \/ job'[j].status = job[j].status
                   \/ job'[j].status \in {"running", "cancelled", "timed_out"}]_vars
  BY EveryRowSteps DEF RowStep, CancelStands
<1> QED BY <1>1, QueueInvHolds, PTL DEF Spec, CancellationWins

\* No job whose cancellation was ever recorded has succeeded, although a
\* recovery may have put it back into the queue and a worker may have run it again.
THEOREM CancelledNeverSucceeds ==
  Spec => [](\A j \in Jobs : job[j].cancelRequested => job[j].status # "succeeded")
<1>1. QueueInv => \A j \in Jobs : job[j].cancelRequested => job[j].status # "succeeded"
  BY DEF QueueInv, RowInv, CancelKept
<1> QED BY <1>1, QueueInvHolds, PTL

\* Finished jobs are never touched, by no one.
THEOREM FinishedForGood == Spec => TerminalIsFinal
<1>1. QueueInv /\ [Next]_vars
        => [\A j \in Jobs : job[j].status \in Terminal => job'[j] = job[j]]_vars
  BY EveryRowSteps DEF RowStep
<1> QED BY <1>1, QueueInvHolds, PTL DEF Spec, TerminalIsFinal

\* At most one worker owns a live lease, and only its expiry ends it early.
THEOREM LeasesExpireFirst == Spec => LeaseHandover
<1>1. QueueInv /\ [Next]_vars
        => [\A j \in Jobs :
              /\ job[j].lockedBy # NoWorker
              /\ job'[j].lockedBy \notin {NoWorker, job[j].lockedBy}
              => job[j].leaseIn = 0]_vars
  BY EveryRowSteps DEF RowStep
<1> QED BY <1>1, QueueInvHolds, PTL DEF Spec, LeaseHandover

\* Neither renewals nor retries extend the time a job may take.
THEOREM TimeoutNeverMoves == Spec => TimeoutIsAbsolute
<1>1. QueueInv /\ [Next]_vars
        => [\A j \in Jobs : job[j].timeoutIn # Off
              => job'[j].timeoutIn \in {job[j].timeoutIn, job[j].timeoutIn - 1}]_vars
  BY EveryRowSteps DEF RowStep
<1> QED BY <1>1, QueueInvHolds, PTL DEF Spec, TimeoutIsAbsolute

-----------------------------------------------------------------------------
(* Facts that relate rows to each other, to the logs and to the events.    *)

SuccessKept(i) ==
  /\ job'[i].status = "succeeded" <=> job[i].status = "succeeded"
  /\ "succeeded" \in announced'[i] <=> "succeeded" \in announced[i]

\* Only Create writes a key, and only Complete makes a job succeed.
LEMMA KeysAndSuccesses ==
  ASSUME QueueInv, [Next]_vars
  PROVE  /\ \/ \A i \in Jobs : job'[i].key = job[i].key
            \/ \E j \in Jobs, key \in Keys \cup {NoKey}, max \in AttemptLimits,
                  delay \in Delays : Create(j, key, max, delay)
         /\ \/ \A i \in Jobs : SuccessKept(i)
            \/ \E w \in Workers, j \in Jobs : Complete(w, j)
<1> USE DEF QueueInv, SuccessKept
<1> DEFINE Kept(i) == job'[i].key = job[i].key /\ SuccessKept(i)
<1>1. ASSUME NEW j \in Jobs, NEW key \in Keys \cup {NoKey},
             NEW max \in AttemptLimits, NEW delay \in Delays,
             Create(j, key, max, delay)
      PROVE  \A i \in Jobs : SuccessKept(i)
  <2>1. /\ job' = [job EXCEPT ![j] = NewRow("queued", key, max, delay)]
        /\ job[j].status = "absent"
        /\ announced' = [announced EXCEPT ![j] = @ \cup {"created"}]
    BY <1>1 DEF Create, Announce
  <2>2. NewRow("queued", key, max, delay).status = "queued"
    BY DEF NewRow
  <2> QED BY <2>1, <2>2
<1>2. ASSUME NEW j \in Jobs, Get(j) PROVE \A i \in Jobs : Kept(i)
  BY <1>2, RecoveredInv DEF Get
<1>3. ASSUME ClaimNone PROVE \A i \in Jobs : Kept(i)
  BY <1>3, RecoveredInv DEF ClaimNone, Swept
<1>4. ASSUME NEW w \in Workers, NEW j \in Jobs, NEW lease \in LeaseTerms,
             ClaimJob(w, j, lease)
      PROVE  \A i \in Jobs : Kept(i)
  <2>1. job' = [Swept EXCEPT ![j] = Claimed(@, w, lease)] /\ UNCHANGED announced
        /\ Swept[j].status = "queued"
    BY <1>4 DEF ClaimJob
  <2>2. ASSUME NEW i \in Jobs
        PROVE  /\ Swept[i].key = job[i].key
               /\ RowInv(Swept[i])
               /\ Swept[i].status = "succeeded" <=> job[i].status = "succeeded"
    BY RecoveredInv DEF Swept
  <2>3. /\ Claimed(Swept[j], w, lease).key = Swept[j].key
        /\ Claimed(Swept[j], w, lease).status = "running"
    <3>1. RowInv(Swept[j]) /\ Swept[j].status = "queued"
      BY <2>1, <2>2
    <3> HIDE DEF QueueInv
    <3> QED BY <3>1, ClaimedInv
  <2>4. \A i \in Jobs : job'[i] = IF i = j THEN Claimed(Swept[j], w, lease) ELSE Swept[i]
    BY <2>1 DEF Swept
  <2> QED BY <2>1, <2>2, <2>3, <2>4
<1>5. ASSUME NEW w \in Workers, NEW j \in Jobs, NEW lease \in LeaseTerms,
             Renew(w, j, lease)
      PROVE  \A i \in Jobs : Kept(i)
  <2>1. lease \in Nat /\ job[j].status = "running" /\ RowInv(job[j])
    BY <1>5, JobQueueConstants DEF Renew, OwnsLease
  <2>2. job' = [job EXCEPT ![j] = [job[j] EXCEPT !.leaseIn = lease]] /\ UNCHANGED announced
    BY <1>5 DEF Renew
  <2> QED BY <2>1, <2>2, RenewedInv
<1>6. ASSUME NEW w \in Workers, NEW j \in Jobs, AppendLog(w, j)
      PROVE  \A i \in Jobs : Kept(i)
  BY <1>6 DEF AppendLog
<1>7. ASSUME NEW w \in Workers, NEW j \in Jobs, Complete(w, j)
      PROVE  \A i \in Jobs : job'[i].key = job[i].key
  BY <1>7, CompletedInv DEF Complete, OwnsLease
<1>8. ASSUME NEW w \in Workers, NEW j \in Jobs, NEW retryable \in BOOLEAN,
             NEW delay \in Delays, Fail(w, j, retryable, delay)
      PROVE  \A i \in Jobs : Kept(i)
  <2>1. job[j].status = "running" /\ job' = [job EXCEPT ![j] = Failed(@, retryable, delay)]
    BY <1>8 DEF Fail, OwnsLease
  <2>2. announced' = [announced EXCEPT ![j] = @ \cup {job'[j].status}]
    BY <1>8 DEF Fail, Announce
  <2>3. /\ Failed(job[j], retryable, delay).status # "succeeded"
        /\ Failed(job[j], retryable, delay).key = job[j].key
    BY <2>1, FailedInv
  <2> QED BY <2>1, <2>2, <2>3
<1>9. ASSUME NEW j \in Jobs, Cancel(j) PROVE \A i \in Jobs : Kept(i)
  BY <1>9, CancelledInv DEF Cancel, Announce
<1>10. ASSUME Tick PROVE \A i \in Jobs : Kept(i)
  BY <1>10, AgedInv DEF Tick
<1>11. ASSUME UNCHANGED vars PROVE \A i \in Jobs : Kept(i)
  BY <1>11 DEF vars
<1>12. ASSUME NEW j \in Jobs, CancelDuringRecovery(j) PROVE \A i \in Jobs : Kept(i)
  <2>1. /\ job[j].status = "running" /\ job[j].leaseIn = 0 /\ RowInv(job[j])
        /\ job' = [job EXCEPT ![j] = Overtaken(job[j])]
        /\ announced' = [announced EXCEPT ![j] = @ \cup {"cancel_requested"}]
    BY <1>12 DEF CancelDuringRecovery, Announce
  <2> QED BY <2>1, OvertakenInv
<1>13. \/ \A i \in Jobs : Kept(i)
       \/ \E j \in Jobs, key \in Keys \cup {NoKey}, max \in AttemptLimits,
             delay \in Delays : Create(j, key, max, delay)
       \/ \E w \in Workers, j \in Jobs : Complete(w, j)
  <2> HIDE DEF Kept, QueueInv, SuccessKept
  <2> QED BY <1>2, <1>3, <1>4, <1>5, <1>6, <1>8, <1>9, <1>10, <1>11, <1>12 DEF Next
<1> HIDE DEF QueueInv, SuccessKept
<1> QED BY <1>1, <1>7, <1>13

\* An idempotency key never names two jobs, whatever requests race.
THEOREM KeysUnique == Spec => []UniqueKeys
<1>1. Init => UniqueKeys
  <2>1. Init => \A j \in Jobs : job[j].key = NoKey
    BY InitRows
  <2> QED BY <2>1 DEF UniqueKeys
<1>2. QueueInv /\ UniqueKeys /\ [Next]_vars => UniqueKeys'
  <2> SUFFICES ASSUME QueueInv, UniqueKeys, [Next]_vars PROVE UniqueKeys'
    OBVIOUS
  <2>1. CASE \A i \in Jobs : job'[i].key = job[i].key
    BY <2>1 DEF UniqueKeys
  <2>2. ASSUME NEW j \in Jobs, NEW key \in Keys \cup {NoKey},
               NEW max \in AttemptLimits, NEW delay \in Delays,
               Create(j, key, max, delay)
        PROVE  UniqueKeys'
    <3>1. /\ job'[j].key = key
          /\ \A i \in Jobs \ {j} : job'[i].key = job[i].key
          /\ key # NoKey => \A i \in Jobs : job[i].key # key
      BY <2>2 DEF Create, NewRow, QueueInv
    <3> QED BY <3>1 DEF UniqueKeys
  <2> QED BY <2>1, <2>2, KeysAndSuccesses
<1> QED BY <1>1, <1>2, QueueInvHolds, PTL DEF Spec

\* Other modules hear of every success, and of no success that was not one.
THEOREM SuccessesAnnounced == Spec => []SuccessAnnounced
<1>1. Init => SuccessAnnounced
  <2>1. Init => \A j \in Jobs : job[j].status = "absent" /\ announced[j] = {}
    BY InitRows DEF Init
  <2> QED BY <2>1 DEF SuccessAnnounced
<1>2. QueueInv /\ SuccessAnnounced /\ [Next]_vars => SuccessAnnounced'
  <2> SUFFICES ASSUME QueueInv, SuccessAnnounced, [Next]_vars PROVE SuccessAnnounced'
    OBVIOUS
  <2>1. ASSUME NEW w \in Workers, NEW j \in Jobs, Complete(w, j)
        PROVE  SuccessAnnounced'
    <3>1. /\ job' = [job EXCEPT ![j] = Completed(@)]
          /\ announced' = [announced EXCEPT ![j] = @ \cup {job'[j].status}]
          /\ job[j].status = "running"
      BY <2>1 DEF Complete, Announce, OwnsLease
    <3> QED BY <3>1 DEF SuccessAnnounced, QueueInv
  <2>2. CASE \A i \in Jobs : SuccessKept(i)
    BY <2>2 DEF SuccessAnnounced, SuccessKept
  <2> QED BY <2>1, <2>2, KeysAndSuccesses
<1> QED BY <1>1, <1>2, QueueInvHolds, PTL DEF Spec

\* The logs never run ahead of the attempts, and those of the attempt under
\* way were written by the worker that owns it.
LogInv ==
  \A l \in logs :
    /\ l.attempt <= job[l.job].attempts
    /\ l.attempt = job[l.job].attempts /\ job[l.job].status = "running"
         => l.worker = job[l.job].lockedBy

\* A log line can be attributed: one attempt, one worker.
THEOREM LogsAttributed == Spec => []OneWorkerPerAttempt
<1> DEFINE I == LogInv /\ OneWorkerPerAttempt
<1>1. Init => I
  BY DEF Init, LogInv, OneWorkerPerAttempt
<1>2. QueueInv /\ I /\ [Next]_vars => I'
  <2> SUFFICES ASSUME QueueInv, I, [Next]_vars PROVE I'
    OBVIOUS
  <2>1. ASSUME NEW l \in logs
        PROVE  /\ l.attempt <= job'[l.job].attempts
               /\ l.attempt = job'[l.job].attempts /\ job'[l.job].status = "running"
                    => l.worker = job'[l.job].lockedBy
    <3>1. l.job \in Jobs /\ l.attempt \in Nat
      BY DEF QueueInv, Log
    <3>2. RowStep(job[l.job], job'[l.job]) /\ RowInv(job[l.job])
      BY <3>1, EveryRowSteps DEF QueueInv
    <3> QED BY <3>1, <3>2 DEF LogInv, RowStep, RowInv, Row, Consistent
  <2>2. ASSUME NEW w \in Workers, NEW j \in Jobs, AppendLog(w, j)
        PROVE  I'
    <3> DEFINE l == [job |-> j, attempt |-> job[j].attempts, worker |-> w]
    <3>1. logs' = logs \cup {l} /\ job' = job /\ job[j].status = "running"
          /\ job[j].lockedBy = w
      BY <2>2 DEF AppendLog, OwnsLease
    <3>2. job[j].attempts \in Nat
      BY DEF QueueInv, Row
    <3>3. \A m \in logs : m.job = j /\ m.attempt = job[j].attempts => m.worker = w
      BY <3>1 DEF LogInv
    <3> QED BY <3>1, <3>2, <3>3 DEF LogInv, OneWorkerPerAttempt
  <2>3. \/ UNCHANGED logs
        \/ \E w \in Workers, j \in Jobs : AppendLog(w, j)
    BY DEF Next, vars, Create, Get, ClaimNone, ClaimJob, Renew, Complete, Fail,
           Cancel, CancelDuringRecovery, Tick
  <2> QED BY <2>1, <2>2, <2>3 DEF LogInv, OneWorkerPerAttempt
<1> QED BY <1>1, <1>2, QueueInvHolds, PTL DEF Spec

-----------------------------------------------------------------------------
(* What other modules need to know of the steps of the queue.              *)

\* The steps that neither count an attempt nor make a job succeed.
Quiet ==
  \/ \E j \in Jobs, key \in Keys \cup {NoKey}, max \in AttemptLimits,
        delay \in Delays : Create(j, key, max, delay)
  \/ \E j \in Jobs : Get(j)
  \/ ClaimNone
  \/ \E w \in Workers, j \in Jobs, lease \in LeaseTerms : Renew(w, j, lease)
  \/ \E w \in Workers, j \in Jobs : AppendLog(w, j)
  \/ \E w \in Workers, j \in Jobs, retryable \in BOOLEAN, delay \in Delays :
        Fail(w, j, retryable, delay)
  \/ \E j \in Jobs : Cancel(j) \/ CancelDuringRecovery(j)
  \/ Tick
  \/ UNCHANGED vars

LEMMA QuietIsNext == Quiet => [Next]_vars
BY DEF Quiet, Next

LEMMA QuietSteps ==
  ASSUME QueueInv, Quiet, NEW i \in Jobs
  PROVE  /\ job'[i].attempts = job[i].attempts
         /\ job'[i].status = "succeeded" <=> job[i].status = "succeeded"
<1> USE DEF QueueInv
<1> DEFINE Kept == /\ job'[i].attempts = job[i].attempts
                   /\ job'[i].status = "succeeded" <=> job[i].status = "succeeded"
<1>0. RowInv(job[i]) /\ job[i] \in Row
  BY DEF RowInv
<1>1. ASSUME NEW j \in Jobs, NEW key \in Keys \cup {NoKey},
             NEW max \in AttemptLimits, NEW delay \in Delays,
             Create(j, key, max, delay)
      PROVE  Kept
  <2>1. job[j].status = "absent" /\ job' = [job EXCEPT ![j] = NewRow("queued", key, max, delay)]
    BY <1>1 DEF Create
  <2>2. i = j => job[i].attempts = 0
    BY <1>0, <2>1 DEF RowInv, Budget
  <2>3. NewRow("queued", key, max, delay).attempts = 0 /\ NewRow("queued", key, max, delay).status = "queued"
    BY DEF NewRow
  <2> QED BY <2>1, <2>2, <2>3
<1>2. ASSUME NEW j \in Jobs, Get(j) PROVE Kept
  BY <1>0, <1>2, RecoveredInv DEF Get
<1>3. ASSUME ClaimNone PROVE Kept
  BY <1>0, <1>3, RecoveredInv DEF ClaimNone, Swept
<1>4. ASSUME NEW w \in Workers, NEW j \in Jobs, NEW lease \in LeaseTerms,
             Renew(w, j, lease)
      PROVE  Kept
  <2>1. lease \in Nat /\ job[j].status = "running" /\ RowInv(job[j])
    BY <1>4, JobQueueConstants DEF Renew, OwnsLease
  <2>2. job' = [job EXCEPT ![j] = [job[j] EXCEPT !.leaseIn = lease]]
    BY <1>4 DEF Renew
  <2> QED BY <2>1, <2>2, RenewedInv
<1>5. ASSUME NEW w \in Workers, NEW j \in Jobs, AppendLog(w, j) PROVE Kept
  BY <1>5 DEF AppendLog
<1>6. ASSUME NEW w \in Workers, NEW j \in Jobs, NEW retryable \in BOOLEAN,
             NEW delay \in Delays, Fail(w, j, retryable, delay)
      PROVE  Kept
  <2>1. job[j].status = "running" /\ job' = [job EXCEPT ![j] = Failed(@, retryable, delay)]
    BY <1>6 DEF Fail, OwnsLease
  <2>2. /\ Failed(job[j], retryable, delay).status # "succeeded"
        /\ Failed(job[j], retryable, delay).attempts = job[j].attempts
    BY <2>1, FailedInv
  <2> QED BY <2>1, <2>2
<1>7. ASSUME NEW j \in Jobs, Cancel(j) PROVE Kept
  BY <1>7, CancelledInv DEF Cancel
<1>8. ASSUME Tick PROVE Kept
  BY <1>0, <1>8, AgedInv DEF Tick
<1>9. ASSUME UNCHANGED vars PROVE Kept
  BY <1>9 DEF vars
<1>10. ASSUME NEW j \in Jobs, CancelDuringRecovery(j) PROVE Kept
  <2>1. /\ job[j].status = "running" /\ job[j].leaseIn = 0
        /\ job' = [job EXCEPT ![j] = Overtaken(job[j])]
    BY <1>10 DEF CancelDuringRecovery
  <2> QED BY <2>1, OvertakenInv
<1> HIDE DEF QueueInv, Kept
<1>11. Kept
  BY <1>1, <1>2, <1>3, <1>4, <1>5, <1>6, <1>7, <1>8, <1>9, <1>10 DEF Quiet
<1> QED BY <1>11 DEF Kept

\* A claim counts one attempt of one row; the others are at most recovered.
LEMMA ClaimSteps ==
  ASSUME QueueInv, NEW w \in Workers, NEW j \in Jobs, NEW lease \in LeaseTerms,
         ClaimJob(w, j, lease)
  PROVE  /\ job'[j].attempts = job[j].attempts + 1
         /\ job'[j].status = "running" /\ job'[j].lockedBy = w
         /\ job'[j].leaseIn = lease
         /\ job[j].status \in {"queued", "running"}
         /\ Recovered(job[j]).status = "queued"
         /\ \A i \in Jobs \ {j} : /\ job'[i] = Recovered(job[i])
                                  /\ job'[i].attempts = job[i].attempts
         /\ \A i \in Jobs : job'[i].status = "succeeded" <=> job[i].status = "succeeded"
<1>1. \A i \in Jobs : RowInv(job[i]) /\ Swept[i] = Recovered(job[i])
  BY DEF QueueInv, Swept
<1>2. Recovered(job[j]).status = "queued"
  BY <1>1 DEF ClaimJob
<1>3. /\ job' = [Swept EXCEPT ![j] = Claimed(Swept[j], w, lease)]
      /\ Swept = [i \in Jobs |-> Swept[i]]
  BY DEF ClaimJob, Swept
<1>4. /\ job'[j] = Claimed(Recovered(job[j]), w, lease)
      /\ \A i \in Jobs \ {j} : job'[i] = Recovered(job[i])
  BY <1>1, <1>3
<1>5. RowInv(Recovered(job[j])) /\ Recovered(job[j]).attempts = job[j].attempts
  BY <1>1, RecoveredInv
<1>6. /\ job'[j].attempts = job[j].attempts + 1
      /\ job'[j].status = "running" /\ job'[j].lockedBy = w
  BY <1>2, <1>4, <1>5, ClaimedInv
<1>7. job'[j].leaseIn = lease
  BY <1>4, <1>5 DEF Claimed, RowInv, Row
<1>8. job[j].status \notin Terminal \cup {"absent"}
  BY <1>1, <1>2, RecoveredInv
<1>9. job[j].status \in Statuses
  BY <1>1 DEF RowInv, Row
<1>10. \A i \in Jobs \ {j} :
         /\ job'[i].attempts = job[i].attempts
         /\ job'[i].status = "succeeded" <=> job[i].status = "succeeded"
  BY <1>1, <1>4, RecoveredInv
<1> QED BY <1>2, <1>4, <1>6, <1>7, <1>8, <1>9, <1>10

LEMMA CompletionSteps ==
  ASSUME QueueInv, NEW w \in Workers, NEW j \in Jobs, Complete(w, j)
  PROVE  /\ job[j].status = "running" /\ job[j].lockedBy = w
         /\ job'[j].status \in {"cancelled", "timed_out", "succeeded"}
         /\ job'[j].lockedBy = NoWorker
         /\ \A i \in Jobs : job'[i].attempts = job[i].attempts
         /\ \A i \in Jobs \ {j} : job'[i] = job[i]
<1>1. job[j].status = "running" /\ job[j].lockedBy = w /\ RowInv(job[j])
  BY DEF Complete, OwnsLease, QueueInv
<1>2. /\ job'[j] = Completed(job[j])
      /\ \A i \in Jobs \ {j} : job'[i] = job[i]
  BY DEF Complete, QueueInv
<1> QED BY <1>1, <1>2, CompletedInv

\* The lease that has not expired survives every sweep.
LEMMA LiveLeaseKept ==
  ASSUME NEW r, RowInv(r), r.status = "running", r.leaseIn > 0, r.timeoutIn > 0
  PROVE  Recovered(r) = r
BY DEF RowInv, Row, Recovered, RecoverCancelled, RecoverTimedOut, RecoverLease

-----------------------------------------------------------------------------
(* For the modules whose rows mirror the jobs: only Create inserts a row,  *)
(* and a row that has ended is never live again.                           *)

Live == {"queued", "running"}

Stays(r, s) ==
  /\ s.status = "absent" <=> r.status = "absent"
  /\ s.status \in Live => r.status \in Live

LEMMA StaysIfSame == ASSUME NEW r PROVE Stays(r, r)
BY DEF Stays

LEMMA RecoveredStays ==
  ASSUME NEW r, RowInv(r)
  PROVE  Stays(r, Recovered(r))
<1>1. /\ RowInv(Recovered(r))
      /\ Recovered(r).status = "absent" => Recovered(r) = r
      /\ r.status \in Terminal \cup {"absent"} => Recovered(r) = r
  BY RecoveredInv
<1>2. r.status \in Statuses
  BY DEF RowInv, Row
<1> QED BY <1>1, <1>2 DEF Stays, Live

\* The operations that call no hook of another module.
Unhooked ==
  \/ \E j \in Jobs : Get(j)
  \/ ClaimNone
  \/ \E w \in Workers, j \in Jobs, lease \in LeaseTerms : Renew(w, j, lease)
  \/ \E j \in Jobs : Cancel(j) \/ CancelDuringRecovery(j)
  \/ Tick
  \/ UNCHANGED vars

LEMMA UnhookedIsNext == Unhooked => [Next]_vars
BY DEF Unhooked, Next

LEMMA UnhookedStays ==
  ASSUME QueueInv, Unhooked, NEW i \in Jobs
  PROVE  Stays(job[i], job'[i])
<1>0. RowInv(job[i]) /\ job \in [Jobs -> Row]
  BY DEF QueueInv
<1>1. ASSUME NEW j \in Jobs, Get(j) PROVE Stays(job[i], job'[i])
  BY <1>0, <1>1, RecoveredStays, StaysIfSame DEF Get
<1>2. ASSUME ClaimNone PROVE Stays(job[i], job'[i])
  BY <1>0, <1>2, RecoveredStays DEF ClaimNone, Swept
<1>3. ASSUME NEW w \in Workers, NEW j \in Jobs, NEW lease \in LeaseTerms,
             Renew(w, j, lease)
      PROVE  Stays(job[i], job'[i])
  <2>1. lease \in Nat /\ job[j].status = "running" /\ RowInv(job[j])
    BY <1>3, JobQueueConstants DEF Renew, OwnsLease, QueueInv
  <2>2. job' = [job EXCEPT ![j] = [job[j] EXCEPT !.leaseIn = lease]]
    BY <1>3 DEF Renew
  <2> QED BY <1>0, <2>1, <2>2, RenewedInv DEF Stays
<1>4. ASSUME NEW j \in Jobs, Cancel(j) PROVE Stays(job[i], job'[i])
  <2>1. /\ job[j].status \in Live /\ RowInv(job[j])
        /\ job' = [job EXCEPT ![j] = CancelRequested(job[j])]
    BY <1>4 DEF Cancel, Live, QueueInv
  <2>2. CancelRequested(job[j]).status \in {"running", "cancelled"}
    BY <2>1, CancelledInv DEF Live
  <2> QED BY <1>0, <2>1, <2>2 DEF Stays, Live
<1>5. ASSUME Tick PROVE Stays(job[i], job'[i])
  BY <1>0, <1>5, AgedInv DEF Tick, Stays
<1>6. ASSUME UNCHANGED vars PROVE Stays(job[i], job'[i])
  BY <1>6, StaysIfSame DEF vars
<1>7. ASSUME NEW j \in Jobs, CancelDuringRecovery(j) PROVE Stays(job[i], job'[i])
  <2>1. /\ job[j].status = "running" /\ job[j].leaseIn = 0 /\ RowInv(job[j])
        /\ job' = [job EXCEPT ![j] = Overtaken(job[j])]
    BY <1>7 DEF CancelDuringRecovery, QueueInv
  <2>2. Overtaken(job[j]).status \in {"timed_out", "queued", "failed"}
    BY <2>1, OvertakenInv
  <2> QED BY <1>0, <2>1, <2>2 DEF Stays, Live
<1> QED BY <1>1, <1>2, <1>3, <1>4, <1>5, <1>6, <1>7 DEF Unhooked

LEMMA ClaimStays ==
  ASSUME QueueInv, NEW w \in Workers, NEW j \in Jobs, NEW lease \in LeaseTerms,
         ClaimJob(w, j, lease), NEW i \in Jobs
  PROVE  Stays(job[i], job'[i])
<1>1. RowInv(job[i])
  BY DEF QueueInv
<1>2. CASE i = j
  BY <1>2, ClaimSteps DEF Stays, Live
<1>3. CASE i # j
  BY <1>1, <1>3, ClaimSteps, RecoveredStays
<1> QED BY <1>2, <1>3

\* A completion ends the job; a failure ends it or returns it to the queue.
LEMMA CompleteStays ==
  ASSUME QueueInv, NEW w \in Workers, NEW j \in Jobs, Complete(w, j)
  PROVE  /\ \A i \in Jobs : Stays(job[i], job'[i])
         /\ job[j].status = "running" /\ job'[j].status \notin Live
BY CompletionSteps, StaysIfSame DEF Stays, Live

LEMMA FailStays ==
  ASSUME QueueInv, NEW w \in Workers, NEW j \in Jobs, NEW retryable \in BOOLEAN,
         NEW delay \in Delays, Fail(w, j, retryable, delay)
  PROVE  /\ \A i \in Jobs : Stays(job[i], job'[i])
         /\ job[j].status = "running" /\ job'[j].status # "running"
<1>1. /\ job[j].status = "running" /\ RowInv(job[j]) /\ job \in [Jobs -> Row]
      /\ job' = [job EXCEPT ![j] = Failed(job[j], retryable, delay)]
  BY DEF Fail, OwnsLease, QueueInv
<1>2. Failed(job[j], retryable, delay).status \in {"cancelled", "timed_out", "queued", "failed"}
  BY <1>1, FailedInv
<1> QED BY <1>1, <1>2, StaysIfSame DEF Stays, Live

\* Only a claim gives a row to a worker, and only a completion makes it succeed.
LEMMA QuietOwner ==
  ASSUME QueueInv, Quiet, NEW i \in Jobs
  PROVE  /\ job'[i].lockedBy \in {NoWorker, job[i].lockedBy}
         /\ job'[i].status = "succeeded" <=> job[i].status = "succeeded"
<1>1. RowStep(job[i], job'[i])
  BY EveryRowSteps, QuietIsNext
<1>2. job'[i].attempts = job[i].attempts
  BY QuietSteps
<1>3. CASE job'[i].status = "running"
  BY <1>1, <1>2, <1>3, QuietSteps DEF RowStep
<1>4. CASE job'[i].status # "running"
  BY <1>1, <1>4, QuietSteps DEF RowStep, RowInv, Consistent
<1> QED BY <1>3, <1>4

LEMMA UnhookedIsQuiet == Unhooked => Quiet
BY DEF Unhooked, Quiet
=============================================================================
