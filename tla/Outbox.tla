------------------------------- MODULE Outbox -------------------------------
(***************************************************************************)
(* The transactional outbox of Core: publication of events, durable        *)
(* deliveries to consumers, and the processors that work through them      *)
(* (backend/internal/platform/outbox).  Every Core process runs one        *)
(* processor, whose owner string is a fresh UUID.  Timers hold the time    *)
(* left until a stored timestamp, and Off for NULL, as in JobQueue.        *)
(***************************************************************************)
EXTENDS Integers

CONSTANTS
  Events, Consumers,
  Matches,          \* <<event, consumer>>: the registry of the event bus
  Owners,           \* the processes that ever run
  NoOwner,          \* locked_by IS NULL
  Live,             \* the delivery_key of the first publication
  Replays,          \* the identifiers of replays, used as delivery_key
  None,             \* no event, no delivery
  EventAttempts,    \* system_outbox.max_attempts
  DeliveryAttempts, \* system_event_deliveries.max_attempts
  EventLease, DeliveryLease, RetryDelay

Keys == Replays \cup {Live}
Deliveries == Events \X Consumers \X Keys

ASSUME OutboxConstants ==
  /\ Matches \subseteq Events \X Consumers
  /\ NoOwner \notin Owners
  /\ Live \notin Replays
  /\ None \notin Events \cup Deliveries
  /\ EventAttempts \in Nat \ {0}
  /\ DeliveryAttempts \in Nat \ {0}
  /\ EventLease \in Nat \ {0}
  /\ DeliveryLease \in Nat \ {0}
  /\ RetryDelay \in Nat

VARIABLES
  event,      \* the rows of system_outbox
  delivery,   \* the rows of system_event_deliveries
  consumed,   \* the rows of system_event_consumptions
  failures,   \* the rows of system_event_failures: <<delivery, attempt>>
  proc,       \* what each processor is doing
  handled     \* history: deliveries whose consumer has returned without error

vars == <<event, delivery, consumed, failures, proc, handled>>

-----------------------------------------------------------------------------
Off == -1
Elapse(t) == IF t > 0 THEN t - 1 ELSE t

\* A row of either table: "leased" is publishing or processing, "done" is
\* published or succeeded.
Statuses == {"absent", "pending", "leased", "done", "failed"}
Row == [status : Statuses, attempts : Nat, availableIn : Nat,
        leaseIn : Nat \cup {Off}, lockedBy : Owners \cup {NoOwner}]

NewRow(status) ==
  [status |-> status, attempts |-> 0, availableIn |-> 0, leaseIn |-> Off,
   lockedBy |-> NoOwner]

Unlocked(r, status) ==
  [r EXCEPT !.status = status, !.lockedBy = NoOwner, !.leaseIn = Off]

\* Mutant of Retried: the delay is subtracted.
RetriedEarlier(r, max, delay) ==
  IF r.attempts < max THEN [Unlocked(r, "pending") EXCEPT !.availableIn = -delay]
                      ELSE Unlocked(r, "failed")

\* Back to pending while attempts remain, otherwise failed.
Retried(r, max, delay) ==
  IF r.attempts < max THEN [Unlocked(r, "pending") EXCEPT !.availableIn = delay]
                      ELSE Unlocked(r, "failed")

\* Mutant of Recovered: expired leases stay.
RecoveredNever(r, max) == r

\* The first statement of both claims.
Recovered(r, max) ==
  IF r.status = "leased" /\ r.leaseIn = 0 THEN Retried(r, max, 0) ELSE r

Leased(r, owner, lease) ==
  [r EXCEPT !.status = "leased", !.attempts = @ + 1, !.lockedBy = owner,
            !.leaseIn = lease]

Claimable(r, max) ==
  r.status = "pending" /\ r.availableIn = 0 /\ r.attempts < max

\* No later statement looks at the lease time, only at the owner.
Owns(owner, r) == r.status = "leased" /\ r.lockedBy = owner

Phases == {"publish", "release", "fetch", "handle", "complete", "fail", "idle", "dead"}
Process == [phase : Phases, event : Events \cup {None},
            delivery : Deliveries \cup {None}, attempt : Nat]

At(phase) == [phase |-> phase, event |-> None, delivery |-> None, attempt |-> 0]

Init ==
  /\ event = [e \in Events |-> NewRow("absent")]
  /\ delivery = [d \in Deliveries |-> NewRow("absent")]
  /\ consumed = {}
  /\ failures = {}
  /\ proc = [p \in Owners |-> At("idle")]
  /\ handled = {}

Goto(p, s) == proc' = [proc EXCEPT ![p] = s]

-----------------------------------------------------------------------------
(* Writer.Write, in the transaction of the domain change.                  *)

WriteEvent(e) ==
  /\ event[e].status = "absent"
  /\ event' = [event EXCEPT ![e] = NewRow("pending")]
  /\ UNCHANGED <<delivery, consumed, failures, proc, handled>>

(* RunOnce: publication.  Claims may pass over rows locked by others.      *)

SweptEvents == [e \in Events |-> Recovered(event[e], EventAttempts)]

ClaimEvent(p) ==
  /\ proc[p].phase = "idle"
  /\ \E e \in Events :
       /\ Claimable(SweptEvents[e], EventAttempts)
       /\ event' = [SweptEvents EXCEPT ![e] = Leased(@, p, EventLease)]
       /\ Goto(p, [At("publish") EXCEPT !.event = e])
  /\ UNCHANGED <<delivery, consumed, failures, handled>>

ClaimNoEvent(p) ==
  /\ proc[p].phase = "idle"
  /\ event' = SweptEvents
  /\ Goto(p, At("fetch"))
  /\ UNCHANGED <<delivery, consumed, failures, handled>>

\* One live delivery per matching consumer, unless there is one already.
Publish(p) ==
  LET e == proc[p].event IN
  /\ proc[p].phase = "publish"
  /\ Owns(p, event[e])
  /\ event' = [event EXCEPT ![e] = Unlocked(@, "done")]
  /\ delivery' = [d \in Deliveries |->
                    IF /\ d[1] = e /\ <<e, d[2]>> \in Matches /\ d[3] = Live
                       /\ delivery[d].status = "absent"
                    THEN NewRow("pending") ELSE delivery[d]]
  /\ Goto(p, At("fetch"))
  /\ UNCHANGED <<consumed, failures, handled>>

\* The lease was lost (ErrLeaseLost), or the transaction failed: roll back.
PublishFails(p) ==
  /\ proc[p].phase = "publish"
  /\ Goto(p, [proc[p] EXCEPT !.phase = "release"])
  /\ UNCHANGED <<event, delivery, consumed, failures, handled>>

\* Mutant of FailEvent: whoever holds the lease.
FailEventUnowned(p) ==
  /\ proc[p].phase = "release"
  /\ event' = [event EXCEPT ![proc[p].event] = Retried(@, EventAttempts, RetryDelay)]
  /\ Goto(p, At("idle"))
  /\ UNCHANGED <<delivery, consumed, failures, handled>>

FailEvent(p) ==
  LET e == proc[p].event IN
  /\ proc[p].phase = "release"
  /\ event' = IF Owns(p, event[e])
              THEN [event EXCEPT ![e] = Retried(@, EventAttempts, RetryDelay)]
              ELSE event
  /\ Goto(p, At("idle"))
  /\ UNCHANGED <<delivery, consumed, failures, handled>>

(* RunOnce: delivery.                                                      *)

SweptDeliveries == [d \in Deliveries |-> Recovered(delivery[d], DeliveryAttempts)]

ClaimDelivery(p) ==
  /\ proc[p].phase = "fetch"
  /\ \E d \in Deliveries :
       /\ Claimable(SweptDeliveries[d], DeliveryAttempts)
       /\ delivery' = [SweptDeliveries EXCEPT ![d] = Leased(@, p, DeliveryLease)]
       /\ Goto(p, [At("handle") EXCEPT !.delivery = d,
                                       !.attempt = delivery'[d].attempts])
  /\ UNCHANGED <<event, consumed, failures, handled>>

ClaimNoDelivery(p) ==
  /\ proc[p].phase = "fetch"
  /\ delivery' = SweptDeliveries
  /\ Goto(p, At("idle"))
  /\ UNCHANGED <<event, consumed, failures, handled>>

\* The consumer runs, however long it takes, and returns or fails.
Handle(p) ==
  /\ proc[p].phase = "handle"
  /\ \/ /\ Goto(p, [proc[p] EXCEPT !.phase = "complete"])
        /\ handled' = handled \cup {proc[p].delivery}
     \/ Goto(p, [proc[p] EXCEPT !.phase = "fail"]) /\ UNCHANGED handled
  /\ UNCHANGED <<event, delivery, consumed, failures>>

\* Mutant of CompleteDelivery: whoever holds the lease.
CompleteDeliveryUnowned(p) ==
  LET d == proc[p].delivery IN
  /\ proc[p].phase = "complete"
  /\ delivery' = [delivery EXCEPT ![d] = Unlocked(@, "done")]
  /\ consumed' = consumed \cup {d}
  /\ Goto(p, At("idle"))
  /\ UNCHANGED <<event, failures, handled>>

CompleteDelivery(p) ==
  LET d == proc[p].delivery IN
  /\ proc[p].phase = "complete"
  /\ IF Owns(p, delivery[d])
     THEN /\ delivery' = [delivery EXCEPT ![d] = Unlocked(@, "done")]
          /\ consumed' = consumed \cup {d}
     ELSE UNCHANGED <<delivery, consumed>>
  /\ Goto(p, At("idle"))
  /\ UNCHANGED <<event, failures, handled>>

FailDelivery(p) ==
  LET d == proc[p].delivery IN
  /\ proc[p].phase = "fail"
  /\ IF Owns(p, delivery[d])
     THEN /\ delivery' = [delivery EXCEPT ![d] = Retried(@, DeliveryAttempts, RetryDelay)]
          /\ failures' = failures \cup {<<d, proc[p].attempt>>}
     ELSE UNCHANGED <<delivery, failures>>
  /\ Goto(p, At("idle"))
  /\ UNCHANGED <<event, consumed, handled>>

\* The transaction that reports the outcome fails: RunOnce returns an error.
ReportFails(p) ==
  /\ proc[p].phase \in {"release", "complete", "fail"}
  /\ Goto(p, At("idle"))
  /\ UNCHANGED <<event, delivery, consumed, failures, handled>>

\* A process ends at any point; another one runs, or is started.
Crash(p) ==
  /\ proc[p].phase # "dead"
  /\ \E q \in Owners \ {p} : proc[q].phase # "dead"
  /\ Goto(p, At("dead"))
  /\ UNCHANGED <<event, delivery, consumed, failures, handled>>

(* An administrator asks for a replay of an event.                         *)

CreateReplay(e, targets, key) ==
  /\ event[e].status # "absent"
  /\ targets # {} /\ \A c \in targets : <<e, c>> \in Matches
  /\ \A d \in Deliveries : d[3] = key => delivery[d].status = "absent"
  /\ delivery' = [d \in Deliveries |->
                    IF d[1] = e /\ d[2] \in targets /\ d[3] = key
                    THEN NewRow("pending") ELSE delivery[d]]
  /\ UNCHANGED <<event, consumed, failures, proc, handled>>

Aged(r) ==
  IF r.status \in {"pending", "leased"}
  THEN [r EXCEPT !.availableIn = Elapse(@), !.leaseIn = Elapse(@)] ELSE r

Tick ==
  /\ event' = [e \in Events |-> Aged(event[e])]
  /\ delivery' = [d \in Deliveries |-> Aged(delivery[d])]
  /\ UNCHANGED <<consumed, failures, proc, handled>>

RunOnce(p) ==
  \/ ClaimEvent(p) \/ ClaimNoEvent(p) \/ Publish(p) \/ PublishFails(p) \/ FailEvent(p)
  \/ ClaimDelivery(p) \/ ClaimNoDelivery(p) \/ Handle(p)
  \/ CompleteDelivery(p) \/ FailDelivery(p)

Next ==
  \/ \E e \in Events : WriteEvent(e)
  \/ \E p \in Owners : RunOnce(p) \/ ReportFails(p) \/ Crash(p)
  \/ \E e \in Events, targets \in SUBSET Consumers, key \in Replays :
        CreateReplay(e, targets, key)
  \/ Tick

Spec == Init /\ [][Next]_vars

-----------------------------------------------------------------------------
\* Every variable has its type.
TypeOK ==
  /\ event \in [Events -> Row]
  /\ delivery \in [Deliveries -> Row]
  /\ consumed \subseteq Deliveries
  /\ failures \subseteq Deliveries \X Nat
  /\ proc \in [Owners -> Process]
  /\ handled \subseteq Deliveries

\* Publication is atomic: an event has its live deliveries exactly when it is
\* published, one for every consumer registered for it, whatever publisher
\* crashed or lost its lease on the way.
PublishedToAll ==
  \A e \in Events, c \in Consumers :
    delivery[<<e, c, Live>>].status # "absent"
      <=> event[e].status = "done" /\ <<e, c>> \in Matches

\* The failure history names past attempts only: an attempt that is still
\* leased, or that was lost to another processor, never appears as failed.
FailuresArePast ==
  \A d \in Deliveries, n \in 1..DeliveryAttempts :
    <<d, n>> \in failures =>
      /\ n <= delivery[d].attempts
      /\ delivery[d].status = "leased" => n < delivery[d].attempts

\* The outbox keeps the promise of EventDelivery for live deliveries.
Fate(e, c) ==
  IF <<e, c>> \notin Matches \/ event[e].status = "absent" THEN "none"
  ELSE IF event[e].status = "failed" THEN "abandoned"
  ELSE CASE delivery[<<e, c, Live>>].status = "done" -> "delivered"
         [] delivery[<<e, c, Live>>].status = "failed" -> "abandoned"
         [] OTHER -> "owed"

Promise == INSTANCE EventDelivery WITH
  fate <- [pair \in Events \X Consumers |-> Fate(pair[1], pair[2])],
  ran <- {pair \in Events \X Consumers : <<pair[1], pair[2], Live>> \in handled}

KeepsPromise == Promise!AbsSpec

\* Processors run (Run calls RunOnce in a loop, consumers return), and time
\* passes.  A processor that polls for ever takes what it can claim.
Fairness ==
  /\ WF_vars(Tick)
  /\ \A p \in Owners : /\ WF_vars(RunOnce(p))
                       /\ SF_vars(ClaimEvent(p)) /\ SF_vars(ClaimDelivery(p))

FairSpec == Spec /\ Fairness

\* No event is forgotten: what was committed is settled for each consumer,
\* delivered or, after the last attempt, abandoned, although processes crash.
EverythingIsSettled ==
  \A e \in Events, c \in Consumers :
    Fate(e, c) = "owed" ~> Fate(e, c) \in {"delivered", "abandoned"}
=============================================================================
