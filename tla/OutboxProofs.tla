---------------------------- MODULE OutboxProofs ----------------------------
(***************************************************************************)
(* Proofs about Outbox for any events, consumers, registry, processes,     *)
(* replays, attempts, leases and delays: its safety properties, and that   *)
(* it keeps the promise of EventDelivery.  The invariant ties what a       *)
(* processor has in hand to the row of the delivery; the simulation rests  *)
(* on the way the statuses of rows may go (Drift).                         *)
(***************************************************************************)
EXTENDS Outbox, TLAPS

Handling == {"handle", "complete", "fail"}

\* What a processor has in hand; as long as it has not lost the lease, the
\* row is still in the attempt it has claimed.
ProcOK(p) ==
  LET d == proc[p].delivery IN
  /\ proc[p].phase \in {"publish", "release"} => proc[p].event \in Events
  /\ proc[p].phase \in Handling =>
       /\ d \in Deliveries
       /\ delivery[d].status # "absent"
       /\ Owns(p, delivery[d]) => delivery[d].attempts = proc[p].attempt
  /\ proc[p].phase = "complete" => d \in handled

\* FailuresArePast for attempts of any number, and no failure before the row.
FailureOK(d, n) ==
  <<d, n>> \in failures =>
    /\ delivery[d].status # "absent"
    /\ n <= delivery[d].attempts
    /\ delivery[d].status = "leased" => n < delivery[d].attempts

OInv ==
  /\ TypeOK
  /\ \A p \in Owners : ProcOK(p)
  /\ \A d \in Deliveries, n \in Nat : FailureOK(d, n)
  /\ PublishedToAll

-----------------------------------------------------------------------------
(* Rows.                                                                   *)

LEMMA Numbers ==
  /\ EventAttempts \in Nat /\ DeliveryAttempts \in Nat /\ EventLease \in Nat
  /\ DeliveryLease \in Nat /\ RetryDelay \in Nat /\ 0 \in Nat
BY OutboxConstants

LEMMA NewRowFacts ==
  ASSUME NEW s \in Statuses
  PROVE  NewRow(s) \in Row /\ NewRow(s).status = s
BY DEF NewRow, Row

LEMMA UnlockedFacts ==
  ASSUME NEW r \in Row, NEW s \in Statuses
  PROVE  /\ Unlocked(r, s) \in Row /\ Unlocked(r, s).status = s
         /\ Unlocked(r, s).attempts = r.attempts
BY DEF Unlocked, Row

LEMMA RetriedFacts ==
  ASSUME NEW r \in Row, NEW max \in Nat, NEW delay \in Nat
  PROVE  /\ Retried(r, max, delay) \in Row
         /\ Retried(r, max, delay).attempts = r.attempts
         /\ Retried(r, max, delay).status \in {"pending", "failed"}
<1> DEFINE u == Unlocked(r, "pending")
<1>1. u \in Row /\ u.status = "pending" /\ u.attempts = r.attempts
  BY UnlockedFacts DEF Statuses
<1>2. /\ Unlocked(r, "failed") \in Row /\ Unlocked(r, "failed").status = "failed"
      /\ Unlocked(r, "failed").attempts = r.attempts
  BY UnlockedFacts DEF Statuses
<1>3. Retried(r, max, delay) = IF r.attempts < max THEN [u EXCEPT !.availableIn = delay]
                                                   ELSE Unlocked(r, "failed")
  BY DEF Retried
<1> HIDE DEF u
<1>4. /\ [u EXCEPT !.availableIn = delay] \in Row
      /\ [u EXCEPT !.availableIn = delay].status = "pending"
      /\ [u EXCEPT !.availableIn = delay].attempts = r.attempts
  BY <1>1 DEF Row
<1> QED
  BY <1>2, <1>3, <1>4

\* How a status may go without publication, delivery or creation of the row.
Drift(r, s) ==
  \/ s.status = r.status
  \/ r.status \in {"pending", "leased"} /\ s.status \in {"pending", "leased", "failed"}

\* What may become of a row of deliveries while the processor q works.
Kept(r, s, q) ==
  /\ s \in Row
  /\ s.status = "absent" => r.status = "absent"
  /\ r.status # "absent" => s.attempts >= r.attempts
  /\ s.status = "leased" =>
       \/ r.status = "leased" /\ s.attempts = r.attempts /\ s.lockedBy = r.lockedBy
       \/ s.lockedBy = q /\ s.attempts > r.attempts

LEMMA RecoveredFacts ==
  ASSUME NEW r \in Row, NEW max \in Nat, NEW q
  PROVE  /\ Drift(r, Recovered(r, max)) /\ Kept(r, Recovered(r, max), q)
         /\ Recovered(r, max).attempts = r.attempts
<1>1. CASE r.status = "leased" /\ r.leaseIn = 0
  <2>1. Recovered(r, max) = Retried(r, max, 0)
    BY <1>1 DEF Recovered
  <2>2. /\ Recovered(r, max) \in Row /\ Recovered(r, max).attempts = r.attempts
        /\ Recovered(r, max).status \in {"pending", "failed"}
    BY <2>1, RetriedFacts, Numbers
  <2>3. r.attempts \in Nat
    BY DEF Row
  <2> QED
    BY <1>1, <2>2, <2>3 DEF Drift, Kept
<1>2. CASE ~(r.status = "leased" /\ r.leaseIn = 0)
  BY <1>2 DEF Recovered, Drift, Kept, Row
<1> QED
  BY <1>1, <1>2

LEMMA LeasedRow ==
  ASSUME NEW m \in Row, NEW q \in Owners, NEW lease \in Nat
  PROVE  /\ Leased(m, q, lease) \in Row /\ Leased(m, q, lease).status = "leased"
         /\ Leased(m, q, lease).lockedBy = q /\ Leased(m, q, lease).attempts = m.attempts + 1
<1> DEFINE l == Leased(m, q, lease)
<1>1. m.attempts + 1 \in Nat
  BY DEF Row
<1>2. l = [m EXCEPT !.status = "leased", !.attempts = m.attempts + 1, !.lockedBy = q,
                    !.leaseIn = lease]
  BY DEF Leased
<1> HIDE DEF l
<1>3. l \in Row
  BY <1>1, <1>2 DEF Row, Statuses
<1>4. l.status = "leased" /\ l.lockedBy = q /\ l.attempts = m.attempts + 1
  BY <1>2 DEF Row
<1> QED
  BY <1>3, <1>4 DEF l

LEMMA LeasedFacts ==
  ASSUME NEW r \in Row, NEW max \in Nat, NEW q \in Owners, NEW lease \in Nat,
         Claimable(Recovered(r, max), max)
  PROVE  LET s == Leased(Recovered(r, max), q, lease) IN
         /\ Drift(r, s) /\ Kept(r, s, q) /\ s \in Row /\ s.status = "leased"
         /\ s.lockedBy = q /\ s.attempts = r.attempts + 1 /\ r.status # "absent"
<1> DEFINE m == Recovered(r, max)
           s == Leased(m, q, lease)
<1>1. m \in Row /\ Drift(r, m) /\ m.attempts = r.attempts /\ m.status = "pending"
  BY RecoveredFacts DEF Kept, Claimable
<1> HIDE DEF m
<1>2. s \in Row /\ s.status = "leased" /\ s.lockedBy = q /\ s.attempts = r.attempts + 1
  BY <1>1, LeasedRow
<1>3. r.status \in {"pending", "leased"} /\ r.attempts \in Nat
  BY <1>1 DEF Drift, Row
<1>4. Drift(r, s) /\ Kept(r, s, q)
  BY <1>2, <1>3 DEF Drift, Kept
<1> QED
  BY <1>2, <1>3, <1>4 DEF m

LEMMA AgedFacts ==
  ASSUME NEW r \in Row, NEW q
  PROVE  Aged(r) \in Row /\ Drift(r, Aged(r)) /\ Kept(r, Aged(r), q)
<1>1. Elapse(r.availableIn) \in Nat /\ Elapse(r.leaseIn) \in Nat \cup {Off}
  BY DEF Elapse, Row, Off
<1>2. /\ Aged(r) \in Row /\ Aged(r).status = r.status /\ Aged(r).attempts = r.attempts
      /\ Aged(r).lockedBy = r.lockedBy
  BY <1>1 DEF Aged, Row
<1> QED
  BY <1>2 DEF Drift, Kept, Row

LEMMA Unchanged ==
  ASSUME NEW r \in Row, NEW q PROVE Drift(r, r) /\ Kept(r, r, q)
BY DEF Drift, Kept, Row

-----------------------------------------------------------------------------
(* What every step preserves.                                              *)

\* The rows may move, one processor may go on, one failure be recorded.
LEMMA InHandKept ==
  ASSUME OInv, NEW q,
         event' \in [Events -> Row], delivery' \in [Deliveries -> Row],
         consumed' \subseteq Deliveries, failures' \subseteq Deliveries \X Nat,
         proc' \in [Owners -> Process], handled' \subseteq Deliveries, handled \subseteq handled',
         \A d \in Deliveries : Kept(delivery[d], delivery'[d], q),
         \A d \in Deliveries, n \in Nat : <<d, n>> \in failures' =>
           <<d, n>> \in failures \/ FailureOK(d, n)',
         \A p \in Owners : (p # q /\ proc'[p] = proc[p]) \/ ProcOK(p)'
  PROVE  /\ TypeOK'
         /\ \A p \in Owners : ProcOK(p)'
         /\ \A d \in Deliveries, n \in Nat : FailureOK(d, n)'
<1>1. TypeOK'
  BY DEF TypeOK
<1>2. ASSUME NEW p \in Owners PROVE ProcOK(p)'
  <2> SUFFICES ASSUME p # q, proc'[p] = proc[p] PROVE ProcOK(p)'
    OBVIOUS
  <2> DEFINE d == proc[p].delivery
  <2>1. ProcOK(p)
    BY DEF OInv
  <2>2. ASSUME proc[p].phase \in Handling
        PROVE  /\ d \in Deliveries /\ delivery'[d].status # "absent"
               /\ Owns(p, delivery'[d]) => delivery'[d].attempts = proc[p].attempt
    BY <2>1, <2>2 DEF ProcOK, Kept, Owns
  <2> QED
    BY <2>1, <2>2 DEF ProcOK
<1>3. ASSUME NEW d \in Deliveries, NEW n \in Nat PROVE FailureOK(d, n)'
  <2> SUFFICES ASSUME <<d, n>> \in failures' PROVE FailureOK(d, n)'
    BY DEF FailureOK
  <2>1. CASE <<d, n>> \in failures
    <3>1. FailureOK(d, n) /\ Kept(delivery[d], delivery'[d], q)
          /\ delivery[d] \in Row /\ delivery'[d] \in Row
      BY DEF OInv, TypeOK
    <3> QED
      BY <2>1, <3>1 DEF FailureOK, Kept, Row
  <2> QED
    BY <2>1
<1> QED
  BY <1>1, <1>2, <1>3

-----------------------------------------------------------------------------
(* The promise.                                                            *)

Promised == Promise!AbsNext \/ UNCHANGED Promise!absVars

\* Nothing happens to a pair, or it is given up.
LEMMA GivenUp ==
  ASSUME UNCHANGED handled,
         \A e \in Events, c \in Consumers :
           \/ Fate(e, c)' = Fate(e, c)
           \/ Fate(e, c) = "owed" /\ Fate(e, c)' = "abandoned"
  PROVE  Promised
<1> DEFINE lost == {pair \in Events \X Consumers :
                      Fate(pair[1], pair[2]) = "owed" /\ Fate(pair[1], pair[2])' = "abandoned"}
<1>1. \A pair \in Events \X Consumers : pair[1] \in Events /\ pair[2] \in Consumers
  OBVIOUS
<1>2. \A pair \in Events \X Consumers :
        Fate(pair[1], pair[2])' = IF pair \in lost THEN "abandoned" ELSE Fate(pair[1], pair[2])
  BY <1>1
<1>3. \A pair \in lost : pair \in Events \X Consumers /\ Fate(pair[1], pair[2]) = "owed"
  OBVIOUS
<1>4. lost \in SUBSET (Events \X Consumers)
  OBVIOUS
<1> HIDE DEF lost
<1>5. Promise!Abandon(lost)
  BY <1>2, <1>3 DEF Promise!Abandon, Promise!Pairs
<1> QED
  BY <1>4, <1>5 DEF Promised, Promise!AbsNext, Promise!Pairs

LEMMA Drifting ==
  ASSUME OInv, UNCHANGED handled,
         \A e \in Events : Drift(event[e], event'[e]),
         \A e \in Events, c \in Consumers :
           Drift(delivery[<<e, c, Live>>], delivery'[<<e, c, Live>>])
  PROVE  PublishedToAll' /\ Promised
<1>1. PublishedToAll'
  <2>1. ASSUME NEW e \in Events, NEW c \in Consumers
        PROVE  (delivery'[<<e, c, Live>>].status # "absent"
                 <=> event'[e].status = "done" /\ <<e, c>> \in Matches)
    <3>1. /\ event[e].status = "done" <=> event'[e].status = "done"
          /\ delivery[<<e, c, Live>>].status = "absent"
               <=> delivery'[<<e, c, Live>>].status = "absent"
      BY DEF Drift
    <3>2. (delivery[<<e, c, Live>>].status # "absent"
             <=> event[e].status = "done" /\ <<e, c>> \in Matches)
      BY DEF OInv, PublishedToAll
    <3> QED
      BY <3>1, <3>2
  <2> QED
    BY <2>1 DEF PublishedToAll
<1>2. ASSUME NEW e \in Events, NEW c \in Consumers
      PROVE  \/ Fate(e, c)' = Fate(e, c)
             \/ Fate(e, c) = "owed" /\ Fate(e, c)' = "abandoned"
  <2> DEFINE d == <<e, c, Live>>
  <2>1. /\ Drift(event[e], event'[e]) /\ Drift(delivery[d], delivery'[d])
        /\ delivery[d].status # "absent" <=> event[e].status = "done" /\ <<e, c>> \in Matches
        /\ delivery'[d].status # "absent" <=> event'[e].status = "done" /\ <<e, c>> \in Matches
    BY <1>1 DEF OInv, PublishedToAll
  <2> HIDE DEF d
  <2> QED
    BY <2>1 DEF Fate, Drift, d
<1> QED
  BY <1>1, <1>2, GivenUp

\* The steps that neither create rows of live deliveries nor complete them.
LEMMA Stepped ==
  ASSUME OInv, NEW q, UNCHANGED handled,
         event' \in [Events -> Row], delivery' \in [Deliveries -> Row],
         consumed' \subseteq Deliveries, failures' \subseteq Deliveries \X Nat,
         proc' \in [Owners -> Process],
         \A e \in Events : Drift(event[e], event'[e]),
         \A d \in Deliveries : Kept(delivery[d], delivery'[d], q),
         \A e \in Events, c \in Consumers :
           Drift(delivery[<<e, c, Live>>], delivery'[<<e, c, Live>>]),
         \A d \in Deliveries, n \in Nat : <<d, n>> \in failures' =>
           <<d, n>> \in failures \/ FailureOK(d, n)',
         \A p \in Owners : (p # q /\ proc'[p] = proc[p]) \/ ProcOK(p)'
  PROVE  OInv' /\ Promised
<1>1. handled' \subseteq Deliveries
  BY DEF OInv, TypeOK
<1>2. /\ TypeOK' /\ \A p \in Owners : ProcOK(p)'
      /\ \A d \in Deliveries, n \in Nat : FailureOK(d, n)'
  BY <1>1, InHandKept
<1>3. PublishedToAll' /\ Promised
  BY Drifting
<1> QED
  BY <1>2, <1>3 DEF OInv

LEMMA Typed ==
  ASSUME OInv
  PROVE  /\ event \in [Events -> Row] /\ delivery \in [Deliveries -> Row]
         /\ consumed \subseteq Deliveries /\ failures \subseteq Deliveries \X Nat
         /\ proc \in [Owners -> Process] /\ handled \subseteq Deliveries
         /\ \A e \in Events, c \in Consumers : <<e, c, Live>> \in Deliveries
BY DEF OInv, TypeOK, Deliveries, Keys

LEMMA EventsStay ==
  ASSUME OInv, UNCHANGED event
  PROVE  event' \in [Events -> Row] /\ \A e \in Events : Drift(event[e], event'[e])
BY Typed DEF Drift

LEMMA DeliveriesStay ==
  ASSUME OInv, UNCHANGED delivery, NEW q
  PROVE  /\ delivery' \in [Deliveries -> Row]
         /\ \A d \in Deliveries : Kept(delivery[d], delivery'[d], q)
         /\ \A e \in Events, c \in Consumers :
              Drift(delivery[<<e, c, Live>>], delivery'[<<e, c, Live>>])
BY Typed, Unchanged

\* It is enough to look at one processor.
LEMMA GotoFacts ==
  ASSUME OInv, NEW p \in Owners, NEW s \in Process, Goto(p, s)
  PROVE  /\ proc' \in [Owners -> Process] /\ proc'[p] = s
         /\ \A o \in Owners : o # p => proc'[o] = proc[o]
BY Typed DEF Goto

LEMMA AtFacts ==
  ASSUME NEW phase \in Phases
  PROVE  At(phase) \in Process /\ At(phase).phase = phase
BY DEF At, Process

\* A processor without anything in hand.
Free(p) == proc[p].phase \in {"idle", "fetch", "dead"}

LEMMA FreeIsOK ==
  ASSUME NEW p \in Owners, Free(p)' PROVE ProcOK(p)'
BY DEF Free, ProcOK, Handling

-----------------------------------------------------------------------------
(* Publication.                                                            *)

Done == OInv' /\ Promised

LEMMA SweepsEvents ==
  ASSUME OInv, NEW e \in Events
  PROVE  SweptEvents[e] \in Row /\ Drift(event[e], SweptEvents[e])
BY Typed, RecoveredFacts, Numbers DEF SweptEvents, Kept

LEMMA ClaimEventKeeps ==
  ASSUME OInv, NEW p \in Owners, ClaimEvent(p) PROVE Done
<1>1. PICK e \in Events :
        /\ Claimable(SweptEvents[e], EventAttempts)
        /\ event' = [SweptEvents EXCEPT ![e] = Leased(SweptEvents[e], p, EventLease)]
        /\ Goto(p, [At("publish") EXCEPT !.event = e])
  BY DEF ClaimEvent
<1>2. UNCHANGED <<delivery, consumed, failures, handled>>
  BY DEF ClaimEvent
<1> DEFINE s == [At("publish") EXCEPT !.event = e]
<1>3. s \in Process /\ s.phase = "publish" /\ s.event = e
  BY DEF At, Process, Phases
<1> HIDE DEF s
<1>4. /\ proc' \in [Owners -> Process] /\ proc'[p] = s
      /\ \A o \in Owners : o # p => proc'[o] = proc[o]
  BY <1>1, <1>3, GotoFacts DEF s
<1>5. ProcOK(p)'
  BY <1>3, <1>4 DEF ProcOK, Handling
<1>6. SweptEvents[e] = Recovered(event[e], EventAttempts)
  BY DEF SweptEvents
<1>7. /\ Leased(SweptEvents[e], p, EventLease) \in Row
      /\ Drift(event[e], Leased(SweptEvents[e], p, EventLease))
  BY <1>1, <1>6, Typed, LeasedFacts, Numbers
<1>8. SweptEvents \in [Events -> Row]
  <2>1. SweptEvents = [x \in Events |-> Recovered(event[x], EventAttempts)]
    BY DEF SweptEvents
  <2>2. \A x \in Events : Recovered(event[x], EventAttempts) \in Row
    BY Typed, RecoveredFacts, Numbers DEF Kept
  <2> QED
    BY <2>1, <2>2
<1>9. event' \in [Events -> Row] /\ \A x \in Events : Drift(event[x], event'[x])
  BY <1>1, <1>7, <1>8, SweepsEvents
<1> QED
  BY <1>2, <1>4, <1>5, <1>9, Typed, DeliveriesStay, Stepped DEF Done

LEMMA ClaimNoEventKeeps ==
  ASSUME OInv, NEW p \in Owners, ClaimNoEvent(p) PROVE Done
<1>1. /\ event' = [x \in Events |-> Recovered(event[x], EventAttempts)]
      /\ Goto(p, At("fetch")) /\ UNCHANGED <<delivery, consumed, failures, handled>>
  BY DEF ClaimNoEvent, SweptEvents
<1>2. \A x \in Events : /\ Recovered(event[x], EventAttempts) \in Row
                        /\ Drift(event[x], Recovered(event[x], EventAttempts))
  BY Typed, RecoveredFacts, Numbers DEF Kept
<1>3. event' \in [Events -> Row] /\ \A x \in Events : Drift(event[x], event'[x])
  BY <1>1, <1>2
<1>4. /\ proc' \in [Owners -> Process] /\ proc'[p] = At("fetch")
      /\ \A o \in Owners : o # p => proc'[o] = proc[o]
  BY <1>1, AtFacts, GotoFacts DEF Phases
<1>5. ProcOK(p)'
  BY <1>4, AtFacts, FreeIsOK DEF Free, Phases
<1> QED
  BY <1>1, <1>3, <1>4, <1>5, Typed, DeliveriesStay, Stepped DEF Done

LEMMA PublishFailsKeeps ==
  ASSUME OInv, NEW p \in Owners, PublishFails(p) PROVE Done
<1>1. /\ proc[p].phase = "publish" /\ UNCHANGED <<event, delivery, consumed, failures, handled>>
      /\ Goto(p, [proc[p] EXCEPT !.phase = "release"])
  BY DEF PublishFails
<1> DEFINE s == [proc[p] EXCEPT !.phase = "release"]
<1>2. s \in Process /\ s.phase = "release" /\ s.event = proc[p].event
  BY Typed DEF Process, Phases
<1> HIDE DEF s
<1>3. /\ proc' \in [Owners -> Process] /\ proc'[p] = s
      /\ \A o \in Owners : o # p => proc'[o] = proc[o]
  BY <1>1, <1>2, GotoFacts DEF s
<1>4. ProcOK(p)'
  BY <1>1, <1>2, <1>3 DEF OInv, ProcOK, Handling
<1> QED
  BY <1>1, <1>3, <1>4, Typed, EventsStay, DeliveriesStay, Stepped DEF Done

LEMMA FailEventKeeps ==
  ASSUME OInv, NEW p \in Owners, FailEvent(p) PROVE Done
<1> DEFINE e == proc[p].event
           r == Retried(event[e], EventAttempts, RetryDelay)
<1>1. /\ proc[p].phase = "release" /\ UNCHANGED <<delivery, consumed, failures, handled>>
      /\ event' = IF Owns(p, event[e]) THEN [event EXCEPT ![e] = r] ELSE event
      /\ Goto(p, At("idle"))
  BY DEF FailEvent
<1>2. e \in Events
  BY <1>1 DEF OInv, ProcOK
<1>3. Owns(p, event[e]) => r \in Row /\ Drift(event[e], r)
  <2>1. PICK m : m = event[e]
    OBVIOUS
  <2>2. m \in Row /\ m.attempts \in Nat
    BY <1>2, <2>1, Typed DEF Row
  <2>3. /\ Retried(m, EventAttempts, RetryDelay) \in Row
        /\ Retried(m, EventAttempts, RetryDelay).attempts = m.attempts
        /\ Retried(m, EventAttempts, RetryDelay).status \in {"pending", "failed"}
    BY <2>2, RetriedFacts, Numbers
  <2> QED
    BY <2>1, <2>2, <2>3 DEF Owns, Drift
<1> HIDE DEF r
<1>4. event' \in [Events -> Row] /\ \A x \in Events : Drift(event[x], event'[x])
  BY <1>1, <1>2, <1>3, Typed DEF Drift
<1>5. /\ proc' \in [Owners -> Process] /\ proc'[p] = At("idle")
      /\ \A o \in Owners : o # p => proc'[o] = proc[o]
  BY <1>1, AtFacts, GotoFacts DEF Phases
<1>6. ProcOK(p)'
  BY <1>5, AtFacts, FreeIsOK DEF Free, Phases
<1> QED
  BY <1>1, <1>4, <1>5, <1>6, Typed, DeliveriesStay, Stepped DEF Done

\* The event was not published yet, so no live delivery of it is there.
LEMMA PublishKeeps ==
  ASSUME OInv, NEW p \in Owners, Publish(p) PROVE Done
<1> DEFINE e == proc[p].event
           u == Unlocked(event[e], "done")
           Created(d) == /\ d[1] = e /\ <<e, d[2]>> \in Matches /\ d[3] = Live
                         /\ delivery[d].status = "absent"
<1>1. /\ proc[p].phase = "publish" /\ event[e].status = "leased"
      /\ event' = [event EXCEPT ![e] = u] /\ Goto(p, At("fetch"))
      /\ delivery' = [d \in Deliveries |->
                        IF Created(d) THEN NewRow("pending") ELSE delivery[d]]
      /\ UNCHANGED <<consumed, failures, handled>>
  BY DEF Publish, Owns
<1>2. e \in Events
  BY <1>1 DEF OInv, ProcOK
<1>3. u \in Row /\ u.status = "done"
  BY <1>2, Typed, UnlockedFacts DEF Statuses
<1>4. NewRow("pending") \in Row /\ NewRow("pending").status = "pending"
  BY NewRowFacts DEF Statuses
<1> HIDE DEF u
<1>5. /\ event' \in [Events -> Row] /\ event'[e].status = "done"
      /\ \A x \in Events : x # e => event'[x] = event[x]
  BY <1>1, <1>2, <1>3, Typed
<1>6. delivery' \in [Deliveries -> Row]
  BY <1>1, <1>4, Typed
<1>7. ASSUME NEW d \in Deliveries PROVE Kept(delivery[d], delivery'[d], NoOwner)
  <2>1. CASE Created(d)
    BY <1>1, <1>4, <2>1 DEF Kept
  <2>2. CASE ~Created(d)
    BY <1>1, <2>2, Typed, Unchanged
  <2> QED
    BY <2>1, <2>2
<1>8. /\ proc' \in [Owners -> Process] /\ proc'[p] = At("fetch")
      /\ \A o \in Owners : o # p => proc'[o] = proc[o]
  BY <1>1, AtFacts, GotoFacts DEF Phases
<1>9. ProcOK(p)'
  BY <1>8, AtFacts, FreeIsOK DEF Free, Phases
<1>10. \A o \in Owners : (o # NoOwner /\ proc'[o] = proc[o]) \/ ProcOK(o)'
  BY <1>8, <1>9, OutboxConstants
<1>11. /\ TypeOK' /\ \A o \in Owners : ProcOK(o)'
       /\ \A d \in Deliveries, n \in Nat : FailureOK(d, n)'
  BY <1>1, <1>5, <1>6, <1>7, <1>8, <1>10, Typed, InHandKept
<1>12. ASSUME NEW x \in Events, NEW c \in Consumers
       PROVE  /\ delivery'[<<x, c, Live>>].status # "absent"
                   <=> event'[x].status = "done" /\ <<x, c>> \in Matches
              /\ Fate(x, c)' = Fate(x, c)
  <2> DEFINE d == <<x, c, Live>>
  <2>1. d \in Deliveries /\ d[1] = x /\ d[2] = c /\ d[3] = Live
    BY Typed
  <2>2. (delivery[d].status # "absent" <=> event[x].status = "done" /\ <<x, c>> \in Matches)
    BY DEF OInv, PublishedToAll
  <2> HIDE DEF d
  <2>3. CASE x # e
    <3>1. event'[x] = event[x] /\ delivery'[d] = delivery[d]
      BY <1>1, <1>5, <2>1, <2>3
    <3> QED
      BY <2>2, <3>1 DEF Fate, d
  <2>4. CASE x = e /\ <<x, c>> \in Matches
    <3>1. delivery[d].status = "absent" /\ delivery'[d] = NewRow("pending")
      BY <1>1, <2>1, <2>2, <2>4
    <3> QED
      BY <1>1, <1>4, <1>5, <2>4, <3>1 DEF Fate, d
  <2>5. CASE x = e /\ <<x, c>> \notin Matches
    <3>1. delivery[d].status = "absent" /\ delivery'[d] = delivery[d]
      BY <1>1, <2>1, <2>2, <2>5
    <3> QED
      BY <2>5, <3>1 DEF Fate, d
  <2> QED
    BY <2>3, <2>4, <2>5
<1>13. PublishedToAll'
  BY <1>12 DEF PublishedToAll
<1>14. Promised
  BY <1>1, <1>12, GivenUp
<1> QED
  BY <1>11, <1>13, <1>14 DEF Done, OInv

-----------------------------------------------------------------------------
(* Delivery.                                                               *)

LEMMA SweepsDeliveries ==
  ASSUME OInv, NEW q
  PROVE  /\ SweptDeliveries \in [Deliveries -> Row]
         /\ \A d \in Deliveries : /\ SweptDeliveries[d] = Recovered(delivery[d], DeliveryAttempts)
                                  /\ Kept(delivery[d], SweptDeliveries[d], q)
                                  /\ Drift(delivery[d], SweptDeliveries[d])
<1>1. SweptDeliveries = [d \in Deliveries |-> Recovered(delivery[d], DeliveryAttempts)]
  BY DEF SweptDeliveries
<1>2. \A d \in Deliveries : /\ Recovered(delivery[d], DeliveryAttempts) \in Row
                            /\ Kept(delivery[d], Recovered(delivery[d], DeliveryAttempts), q)
                            /\ Drift(delivery[d], Recovered(delivery[d], DeliveryAttempts))
  <2> SUFFICES ASSUME NEW d \in Deliveries
               PROVE  /\ Recovered(delivery[d], DeliveryAttempts) \in Row
                      /\ Kept(delivery[d], Recovered(delivery[d], DeliveryAttempts), q)
                      /\ Drift(delivery[d], Recovered(delivery[d], DeliveryAttempts))
    OBVIOUS
  <2>1. PICK m \in Row : m = delivery[d]
    BY Typed
  <2>2. /\ Drift(m, Recovered(m, DeliveryAttempts))
        /\ Kept(m, Recovered(m, DeliveryAttempts), q)
    BY RecoveredFacts, Numbers
  <2> QED
    BY <2>1, <2>2 DEF Kept
<1> QED
  BY <1>1, <1>2

LEMMA ClaimDeliveryKeeps ==
  ASSUME OInv, NEW p \in Owners, ClaimDelivery(p) PROVE Done
<1>1. PICK d \in Deliveries :
        /\ Claimable(SweptDeliveries[d], DeliveryAttempts)
        /\ delivery' = [SweptDeliveries EXCEPT ![d] =
                          Leased(SweptDeliveries[d], p, DeliveryLease)]
        /\ Goto(p, [At("handle") EXCEPT !.delivery = d, !.attempt = delivery'[d].attempts])
  BY DEF ClaimDelivery
<1>2. UNCHANGED <<event, consumed, failures, handled>>
  BY DEF ClaimDelivery
<1> DEFINE l == Leased(SweptDeliveries[d], p, DeliveryLease)
<1>3. /\ l \in Row /\ l.status = "leased" /\ l.lockedBy = p
      /\ Drift(delivery[d], l) /\ Kept(delivery[d], l, p)
  <2>1. SweptDeliveries[d] = Recovered(delivery[d], DeliveryAttempts)
    BY SweepsDeliveries
  <2> QED
    BY <1>1, <2>1, Typed, LeasedFacts, Numbers
<1> HIDE DEF l
<1>4. /\ delivery' \in [Deliveries -> Row] /\ delivery'[d] = l
      /\ \A x \in Deliveries : Drift(delivery[x], delivery'[x]) /\ Kept(delivery[x], delivery'[x], p)
  <2>1. delivery' = [SweptDeliveries EXCEPT ![d] = l]
    BY <1>1 DEF l
  <2> QED
    BY <1>3, <2>1, SweepsDeliveries
<1>5. PICK s : s = [At("handle") EXCEPT !.delivery = d, !.attempt = delivery'[d].attempts]
  OBVIOUS
<1>6. s \in Process /\ s.phase = "handle" /\ s.delivery = d /\ s.attempt = l.attempts
  <2>1. l.attempts \in Nat
    BY <1>3 DEF Row
  <2>2. s = [phase |-> "handle", event |-> None, delivery |-> d, attempt |-> l.attempts]
    BY <1>4, <1>5 DEF At
  <2> QED
    BY <2>1, <2>2 DEF Process, Phases
<1>7. /\ proc' \in [Owners -> Process] /\ proc'[p] = s
      /\ \A o \in Owners : o # p => proc'[o] = proc[o]
  BY <1>1, <1>5, <1>6, GotoFacts
<1>8. ProcOK(p)'
  BY <1>3, <1>4, <1>6, <1>7 DEF ProcOK, Handling
<1> QED
  BY <1>2, <1>4, <1>7, <1>8, Typed, EventsStay, Stepped DEF Done

LEMMA ClaimNoDeliveryKeeps ==
  ASSUME OInv, NEW p \in Owners, ClaimNoDelivery(p) PROVE Done
<1>1. /\ delivery' = SweptDeliveries /\ Goto(p, At("idle"))
      /\ UNCHANGED <<event, consumed, failures, handled>>
  BY DEF ClaimNoDelivery
<1>2. /\ delivery' \in [Deliveries -> Row]
      /\ \A x \in Deliveries : Drift(delivery[x], delivery'[x]) /\ Kept(delivery[x], delivery'[x], p)
  BY <1>1, SweepsDeliveries
<1>3. /\ proc' \in [Owners -> Process] /\ proc'[p] = At("idle")
      /\ \A o \in Owners : o # p => proc'[o] = proc[o]
  BY <1>1, AtFacts, GotoFacts DEF Phases
<1>4. ProcOK(p)'
  BY <1>3, AtFacts, FreeIsOK DEF Free, Phases
<1> QED
  BY <1>1, <1>2, <1>3, <1>4, Typed, EventsStay, Stepped DEF Done

\* The consumer has run, for a live delivery or for a replay.
LEMMA HandleKeeps ==
  ASSUME OInv, NEW p \in Owners, Handle(p) PROVE Done
<1> DEFINE d == proc[p].delivery
<1>1. proc[p].phase = "handle" /\ UNCHANGED <<event, delivery, consumed, failures>>
  BY DEF Handle
<1>2. d \in Deliveries /\ delivery[d].status # "absent"
      /\ (Owns(p, delivery[d]) => delivery[d].attempts = proc[p].attempt)
  BY <1>1 DEF OInv, ProcOK, Handling
<1>3. ASSUME NEW phase \in {"complete", "fail"}, Goto(p, [proc[p] EXCEPT !.phase = phase]),
             phase = "complete" => d \in handled'
      PROVE  /\ proc' \in [Owners -> Process] /\ ProcOK(p)'
             /\ \A o \in Owners : o # p => proc'[o] = proc[o]
  <2> DEFINE s == [proc[p] EXCEPT !.phase = phase]
  <2>1. s \in Process /\ s.phase = phase /\ s.delivery = d /\ s.attempt = proc[p].attempt
    BY Typed DEF Process, Phases
  <2> HIDE DEF s
  <2>2. /\ proc' \in [Owners -> Process] /\ proc'[p] = s
        /\ \A o \in Owners : o # p => proc'[o] = proc[o]
    BY <1>3, <2>1, GotoFacts DEF s
  <2>3. ProcOK(p)'
    BY <1>1, <1>2, <1>3, <2>1, <2>2 DEF ProcOK, Handling
  <2> QED
    BY <2>2, <2>3
<1>4. CASE Goto(p, [proc[p] EXCEPT !.phase = "fail"]) /\ UNCHANGED handled
  BY <1>1, <1>3, <1>4, Typed, EventsStay, DeliveriesStay, Stepped DEF Done
<1>5. CASE /\ Goto(p, [proc[p] EXCEPT !.phase = "complete"]) /\ handled' = handled \cup {d}
  <2>1. /\ proc' \in [Owners -> Process] /\ ProcOK(p)'
        /\ \A o \in Owners : o # p => proc'[o] = proc[o]
    BY <1>3, <1>5
  <2>2. handled' \subseteq Deliveries /\ handled \subseteq handled'
    BY <1>2, <1>5, Typed
  <2>3. /\ TypeOK' /\ \A o \in Owners : ProcOK(o)'
        /\ \A x \in Deliveries, n \in Nat : FailureOK(x, n)'
    BY <1>1, <2>1, <2>2, Typed, EventsStay, DeliveriesStay, InHandKept
  <2>4. PublishedToAll'
    BY <1>1 DEF OInv, PublishedToAll
  <2>5. \A e \in Events, c \in Consumers : Fate(e, c)' = Fate(e, c)
    BY <1>1 DEF Fate
  <2>6. Promised
    <3> DEFINE Ran(h) == {pair \in Events \X Consumers : <<pair[1], pair[2], Live>> \in h}
    <3>0. /\ [pair \in Events \X Consumers |-> Fate(pair[1], pair[2])]'
               = [pair \in Events \X Consumers |-> Fate(pair[1], pair[2])]
          /\ \A e \in Events, c \in Consumers :
               [pair \in Events \X Consumers |-> Fate(pair[1], pair[2])][<<e, c>>] = Fate(e, c)
      BY <2>5
    <3>1. CASE \E e \in Events, c \in Consumers : d = <<e, c, Live>>
      <4>1. PICK e \in Events, c \in Consumers : d = <<e, c, Live>>
        BY <3>1
      <4>2. Ran(handled') = Ran(handled) \cup {<<e, c>>}
        BY <1>5, <4>1
      <4>3. Fate(e, c) # "none"
        BY <1>2, <4>1 DEF OInv, PublishedToAll, Fate
      <4>4. Promise!RunConsumer(<<e, c>>)
        BY <3>0, <4>2, <4>3 DEF Promise!RunConsumer
      <4> QED
        BY <4>4 DEF Promised, Promise!AbsNext, Promise!Pairs
    <3>2. CASE ~\E e \in Events, c \in Consumers : d = <<e, c, Live>>
      <4>1. Ran(handled') = Ran(handled)
        BY <1>5, <3>2
      <4> QED
        BY <3>0, <4>1 DEF Promised, Promise!absVars
    <3> QED
      BY <3>1, <3>2
  <2> QED
    BY <2>3, <2>4, <2>6 DEF Done, OInv
<1> QED
  BY <1>4, <1>5 DEF Handle

LEMMA GoesIdle ==
  ASSUME OInv, NEW p \in Owners, NEW phase \in {"idle", "dead"}, Goto(p, At(phase))
  PROVE  /\ proc' \in [Owners -> Process] /\ ProcOK(p)'
         /\ \A o \in Owners : o # p => proc'[o] = proc[o]
<1>1. /\ proc' \in [Owners -> Process] /\ proc'[p] = At(phase)
      /\ \A o \in Owners : o # p => proc'[o] = proc[o]
  BY AtFacts, GotoFacts DEF Phases
<1>2. ProcOK(p)'
  BY <1>1, AtFacts, FreeIsOK DEF Free, Phases
<1> QED
  BY <1>1, <1>2

\* The consumer has run, so what was owed is delivered.
LEMMA CompleteDeliveryKeeps ==
  ASSUME OInv, NEW p \in Owners, CompleteDelivery(p) PROVE Done
<1> DEFINE d == proc[p].delivery
           u == Unlocked(delivery[d], "done")
<1>1. /\ proc[p].phase = "complete" /\ Goto(p, At("idle"))
      /\ UNCHANGED <<event, failures, handled>>
  BY DEF CompleteDelivery
<1>2. d \in Deliveries /\ delivery[d].status # "absent" /\ d \in handled
  BY <1>1 DEF OInv, ProcOK, Handling
<1>3. /\ proc' \in [Owners -> Process] /\ ProcOK(p)'
      /\ \A o \in Owners : o # p => proc'[o] = proc[o]
  BY <1>1, GoesIdle
<1>4. CASE UNCHANGED <<delivery, consumed>>
  BY <1>1, <1>3, <1>4, Typed, EventsStay, DeliveriesStay, Stepped DEF Done
<1>5. CASE /\ Owns(p, delivery[d]) /\ delivery' = [delivery EXCEPT ![d] = u]
           /\ consumed' = consumed \cup {d}
  <2>1. /\ u \in Row /\ u.status = "done" /\ u.attempts = delivery[d].attempts
        /\ delivery[d].status = "leased" /\ delivery[d].attempts \in Nat
    BY <1>2, <1>5, Typed, UnlockedFacts DEF Owns, Statuses, Row
  <2> HIDE DEF u
  <2>2. /\ delivery' \in [Deliveries -> Row] /\ delivery'[d] = u
        /\ \A x \in Deliveries : x # d => delivery'[x] = delivery[x]
    BY <1>2, <1>5, <2>1, Typed
  <2>3. \A x \in Deliveries : Kept(delivery[x], delivery'[x], p)
    <3>1. Kept(delivery[d], u, p)
      BY <2>1 DEF Kept
    <3> QED
      BY <2>2, <3>1, Typed, Unchanged
  <2>4. consumed' \subseteq Deliveries
    BY <1>2, <1>5, Typed
  <2>5. /\ TypeOK' /\ \A o \in Owners : ProcOK(o)'
        /\ \A x \in Deliveries, n \in Nat : FailureOK(x, n)'
    BY <1>1, <1>3, <2>2, <2>3, <2>4, Typed, EventsStay, InHandKept
  <2>6. ASSUME NEW e \in Events, NEW c \in Consumers
        PROVE  /\ (delivery'[<<e, c, Live>>].status # "absent"
                     <=> event'[e].status = "done" /\ <<e, c>> \in Matches)
               /\ <<e, c, Live>> # d => Fate(e, c)' = Fate(e, c)
               /\ <<e, c, Live>> = d => Fate(e, c) = "owed" /\ Fate(e, c)' = "delivered"
    <3>1. (delivery[<<e, c, Live>>].status # "absent"
             <=> event[e].status = "done" /\ <<e, c>> \in Matches)
      BY DEF OInv, PublishedToAll
    <3>2. CASE <<e, c, Live>> # d
      <4>1. delivery'[<<e, c, Live>>] = delivery[<<e, c, Live>>]
        BY <2>2, <3>2, Typed
      <4> QED
        BY <1>1, <3>1, <3>2, <4>1 DEF Fate
    <3>3. CASE <<e, c, Live>> = d
      BY <1>1, <2>1, <2>2, <3>1, <3>3 DEF Fate
    <3> QED
      BY <3>2, <3>3
  <2>7. PublishedToAll'
    BY <2>6 DEF PublishedToAll
  <2>8. Promised
    <3>1. CASE \E e \in Events, c \in Consumers : d = <<e, c, Live>>
      <4>1. PICK e \in Events, c \in Consumers : d = <<e, c, Live>>
        BY <3>1
      <4> DEFINE pairs == Events \X Consumers
                 f == [pair \in pairs |-> Fate(pair[1], pair[2])]
                 g == [pair \in pairs |-> Fate(pair[1], pair[2])']
      <4>2. Fate(e, c) = "owed" /\ Fate(e, c)' = "delivered"
        BY <2>6, <4>1
      <4>3. ASSUME NEW pair \in pairs
            PROVE  Fate(pair[1], pair[2])' =
                     IF pair = <<e, c>> THEN "delivered" ELSE Fate(pair[1], pair[2])
        <5>1. pair[1] \in Events /\ pair[2] \in Consumers /\ pair = <<pair[1], pair[2]>>
          OBVIOUS
        <5>2. CASE pair = <<e, c>>
          <6>1. pair[1] = e /\ pair[2] = c
            BY <5>2
          <6> QED
            BY <4>2, <5>2, <6>1
        <5>3. CASE pair # <<e, c>>
          <6>1. <<pair[1], pair[2], Live>> # d
            BY <4>1, <5>1, <5>3
          <6> QED
            BY <2>6, <5>1, <5>3, <6>1
        <5> QED
          BY <5>2, <5>3
      <4>4. g = [f EXCEPT ![<<e, c>>] = "delivered"]
        BY <4>3
      <4>5. f[<<e, c>>] = "owed"
        BY <4>2
      <4>6. <<e, c>> \in {pair \in pairs : <<pair[1], pair[2], Live>> \in handled}
        BY <1>2, <4>1
      <4>7. Promise!Deliver(<<e, c>>)
        BY <1>1, <4>4, <4>5, <4>6 DEF Promise!Deliver
      <4> QED
        BY <4>7 DEF Promised, Promise!AbsNext, Promise!Pairs
    <3>2. CASE ~\E e \in Events, c \in Consumers : d = <<e, c, Live>>
      BY <1>1, <2>6, <3>2, GivenUp
    <3> QED
      BY <3>1, <3>2
  <2> QED
    BY <2>5, <2>7, <2>8 DEF Done, OInv
<1> QED
  BY <1>4, <1>5 DEF CompleteDelivery

\* The failure that is recorded is that of the attempt the row is in.
LEMMA FailDeliveryKeeps ==
  ASSUME OInv, NEW p \in Owners, FailDelivery(p) PROVE Done
<1> DEFINE d == proc[p].delivery
           r == Retried(delivery[d], DeliveryAttempts, RetryDelay)
<1>1. proc[p].phase = "fail" /\ Goto(p, At("idle")) /\ UNCHANGED <<event, consumed, handled>>
  BY DEF FailDelivery
<1>2. d \in Deliveries /\ (Owns(p, delivery[d]) => delivery[d].attempts = proc[p].attempt)
  BY <1>1 DEF OInv, ProcOK, Handling
<1>3. /\ proc' \in [Owners -> Process] /\ ProcOK(p)'
      /\ \A o \in Owners : o # p => proc'[o] = proc[o]
  BY <1>1, GoesIdle
<1>4. CASE UNCHANGED <<delivery, failures>>
  BY <1>1, <1>3, <1>4, Typed, EventsStay, DeliveriesStay, Stepped DEF Done
<1>5. CASE /\ Owns(p, delivery[d]) /\ delivery' = [delivery EXCEPT ![d] = r]
           /\ failures' = failures \cup {<<d, proc[p].attempt>>}
  <2>1. /\ r \in Row /\ r.status \in {"pending", "failed"} /\ r.attempts = delivery[d].attempts
        /\ delivery[d].status = "leased" /\ delivery[d].attempts \in Nat
    <3>1. delivery[d] \in Row /\ delivery[d].status = "leased"
      BY <1>2, <1>5, Typed DEF Owns
    <3>2. PICK m \in Row : m = delivery[d]
      BY <3>1
    <3>3. /\ Retried(m, DeliveryAttempts, RetryDelay) \in Row
          /\ Retried(m, DeliveryAttempts, RetryDelay).attempts = m.attempts
          /\ Retried(m, DeliveryAttempts, RetryDelay).status \in {"pending", "failed"}
      BY RetriedFacts, Numbers
    <3>4. m.attempts \in Nat
      BY DEF Row
    <3> QED
      BY <3>1, <3>2, <3>3, <3>4
  <2> HIDE DEF r
  <2>2. /\ delivery' \in [Deliveries -> Row] /\ delivery'[d] = r
        /\ \A x \in Deliveries : x # d => delivery'[x] = delivery[x]
    BY <1>2, <1>5, <2>1, Typed
  <2>3. \A x \in Deliveries : Kept(delivery[x], delivery'[x], p) /\ Drift(delivery[x], delivery'[x])
    <3>1. Kept(delivery[d], r, p) /\ Drift(delivery[d], r)
      BY <2>1 DEF Kept, Drift
    <3> QED
      BY <2>2, <3>1, Typed, Unchanged
  <2>4. failures' \subseteq Deliveries \X Nat
    BY <1>2, <1>5, <2>1, Typed
  <2>5. \A x \in Deliveries, n \in Nat : <<x, n>> \in failures' =>
          <<x, n>> \in failures \/ (x = d /\ n = proc[p].attempt)
    BY <1>5
  <2>6. \A x \in Deliveries, n \in Nat : <<x, n>> \in failures' =>
          <<x, n>> \in failures \/ FailureOK(x, n)'
    BY <1>2, <1>5, <2>1, <2>2, <2>5 DEF FailureOK
  <2> QED
    BY <1>1, <1>3, <2>2, <2>3, <2>4, <2>6, Typed, EventsStay, Stepped DEF Done
<1> QED
  BY <1>4, <1>5 DEF FailDelivery

LEMMA StopsKeep ==
  ASSUME OInv, NEW p \in Owners, ReportFails(p) \/ Crash(p) PROVE Done
<1>1. /\ Goto(p, At("idle")) \/ Goto(p, At("dead"))
      /\ UNCHANGED <<event, delivery, consumed, failures, handled>>
  BY DEF ReportFails, Crash
<1>2. /\ proc' \in [Owners -> Process] /\ ProcOK(p)'
      /\ \A o \in Owners : o # p => proc'[o] = proc[o]
  BY <1>1, GoesIdle
<1> QED
  BY <1>1, <1>2, Typed, EventsStay, DeliveriesStay, Stepped DEF Done

-----------------------------------------------------------------------------
(* Writers, administrators, time.                                          *)

\* A replay has deliveries of its own.
LEMMA CreateReplayKeeps ==
  ASSUME OInv, NEW e \in Events, NEW targets \in SUBSET Consumers, NEW key \in Replays,
         CreateReplay(e, targets, key)
  PROVE  Done
<1>1. /\ \A d \in Deliveries : d[3] = key => delivery[d].status = "absent"
      /\ delivery' = [d \in Deliveries |->
                        IF d[1] = e /\ d[2] \in targets /\ d[3] = key
                        THEN NewRow("pending") ELSE delivery[d]]
      /\ UNCHANGED <<event, consumed, failures, proc, handled>>
  BY DEF CreateReplay
<1>2. NewRow("pending") \in Row /\ NewRow("pending").status = "pending"
  BY NewRowFacts DEF Statuses
<1>3. delivery' \in [Deliveries -> Row]
  BY <1>1, <1>2, Typed
<1>4. ASSUME NEW d \in Deliveries PROVE Kept(delivery[d], delivery'[d], NoOwner)
  <2>1. CASE d[1] = e /\ d[2] \in targets /\ d[3] = key
    BY <1>1, <1>2, <2>1 DEF Kept
  <2>2. CASE ~(d[1] = e /\ d[2] \in targets /\ d[3] = key)
    BY <1>1, <2>2, Typed, Unchanged
  <2> QED
    BY <2>1, <2>2
<1>5. ASSUME NEW x \in Events, NEW c \in Consumers
      PROVE  Drift(delivery[<<x, c, Live>>], delivery'[<<x, c, Live>>])
  <2>1. <<x, c, Live>> \in Deliveries /\ <<x, c, Live>>[3] # key
    BY Typed, OutboxConstants
  <2>2. delivery'[<<x, c, Live>>] = delivery[<<x, c, Live>>]
    BY <1>1, <2>1
  <2> QED
    BY <2>2 DEF Drift
<1>6. proc' \in [Owners -> Process] /\ \A o \in Owners : o # NoOwner /\ proc'[o] = proc[o]
  BY <1>1, Typed, OutboxConstants
<1> QED
  BY <1>1, <1>3, <1>4, <1>5, <1>6, Typed, EventsStay, Stepped DEF Done

LEMMA TickKeeps ==
  ASSUME OInv, Tick PROVE Done
<1>1. /\ event' = [e \in Events |-> Aged(event[e])]
      /\ delivery' = [d \in Deliveries |-> Aged(delivery[d])]
      /\ UNCHANGED <<consumed, failures, proc, handled>>
  BY DEF Tick
<1>2. event' \in [Events -> Row] /\ \A e \in Events : Drift(event[e], event'[e])
  BY <1>1, Typed, AgedFacts
<1>3. /\ delivery' \in [Deliveries -> Row]
      /\ \A d \in Deliveries : /\ Kept(delivery[d], delivery'[d], NoOwner)
                               /\ Drift(delivery[d], delivery'[d])
  BY <1>1, Typed, AgedFacts
<1>4. proc' \in [Owners -> Process] /\ \A o \in Owners : o # NoOwner /\ proc'[o] = proc[o]
  BY <1>1, Typed, OutboxConstants
<1> QED
  BY <1>1, <1>2, <1>3, <1>4, Typed, Stepped DEF Done

LEMMA WriteEventKeeps ==
  ASSUME OInv, NEW e \in Events, WriteEvent(e) PROVE Done
<1>1. /\ event[e].status = "absent" /\ event' = [event EXCEPT ![e] = NewRow("pending")]
      /\ UNCHANGED <<delivery, consumed, failures, proc, handled>>
  BY DEF WriteEvent
<1>2. NewRow("pending") \in Row /\ NewRow("pending").status = "pending"
  BY NewRowFacts DEF Statuses
<1>3. /\ event' \in [Events -> Row] /\ event'[e].status = "pending"
      /\ \A x \in Events : x # e => event'[x] = event[x]
  BY <1>1, <1>2, Typed
<1>4. proc' \in [Owners -> Process] /\ \A o \in Owners : o # NoOwner /\ proc'[o] = proc[o]
  BY <1>1, Typed, OutboxConstants
<1>5. /\ TypeOK' /\ \A o \in Owners : ProcOK(o)'
      /\ \A d \in Deliveries, n \in Nat : FailureOK(d, n)'
  BY <1>1, <1>3, <1>4, Typed, DeliveriesStay, InHandKept
<1>6. ASSUME NEW x \in Events, NEW c \in Consumers
      PROVE  /\ (delivery'[<<x, c, Live>>].status # "absent"
                   <=> event'[x].status = "done" /\ <<x, c>> \in Matches)
             /\ Fate(x, c)' = IF x = e /\ <<x, c>> \in Matches THEN "owed" ELSE Fate(x, c)
             /\ x = e => Fate(x, c) = "none"
  <2>1. (delivery[<<x, c, Live>>].status # "absent"
           <=> event[x].status = "done" /\ <<x, c>> \in Matches)
    BY DEF OInv, PublishedToAll
  <2>2. CASE x # e
    BY <1>1, <1>3, <2>1, <2>2 DEF Fate
  <2>3. CASE x = e
    BY <1>1, <1>3, <2>1, <2>3 DEF Fate
  <2> QED
    BY <2>2, <2>3
<1>7. PublishedToAll'
  BY <1>6 DEF PublishedToAll
<1>8. Promised
  <2> DEFINE f == [pair \in Events \X Consumers |-> Fate(pair[1], pair[2])]
  <2>1. \A c \in Consumers : f[<<e, c>>] = "none"
    BY <1>6
  <2>2. ASSUME NEW pair \in Events \X Consumers
        PROVE  Fate(pair[1], pair[2])' =
                 IF pair[1] = e /\ pair \in Matches THEN "owed" ELSE f[pair]
    <3>1. pair[1] \in Events /\ pair[2] \in Consumers /\ pair = <<pair[1], pair[2]>>
      OBVIOUS
    <3> QED
      BY <1>6, <3>1
  <2>3. Promise!Commit(e)
    BY <1>1, <2>1, <2>2 DEF Promise!Commit, Promise!Pairs
  <2> QED
    BY <2>3 DEF Promised, Promise!AbsNext
<1> QED
  BY <1>5, <1>7, <1>8 DEF Done, OInv

-----------------------------------------------------------------------------
(* The theorems.                                                           *)

LEMMA NextKeeps ==
  ASSUME OInv, [Next]_vars PROVE Done
<1>1. CASE UNCHANGED vars
  <2>1. UNCHANGED <<event, delivery, consumed, failures, proc, handled>>
    BY <1>1 DEF vars
  <2>2. proc' \in [Owners -> Process] /\ \A o \in Owners : o # NoOwner /\ proc'[o] = proc[o]
    BY <2>1, Typed, OutboxConstants
  <2> QED
    BY <2>1, <2>2, Typed, EventsStay, DeliveriesStay, Stepped DEF Done
<1>2. ASSUME NEW p \in Owners, RunOnce(p) PROVE Done
  BY <1>2, ClaimEventKeeps, ClaimNoEventKeeps, PublishKeeps, PublishFailsKeeps, FailEventKeeps,
     ClaimDeliveryKeeps, ClaimNoDeliveryKeeps, HandleKeeps, CompleteDeliveryKeeps,
     FailDeliveryKeeps DEF RunOnce
<1> QED
  BY <1>1, <1>2, StopsKeep, CreateReplayKeeps, TickKeeps, WriteEventKeeps DEF Next

LEMMA Starts == Init => OInv /\ Promise!AbsInit
<1> SUFFICES ASSUME Init PROVE OInv /\ Promise!AbsInit
  OBVIOUS
<1>1. /\ event = [e \in Events |-> NewRow("absent")]
      /\ delivery = [d \in Deliveries |-> NewRow("absent")]
      /\ consumed = {} /\ failures = {} /\ handled = {}
      /\ proc = [p \in Owners |-> At("idle")]
  BY DEF Init
<1>2. NewRow("absent") \in Row /\ NewRow("absent").status = "absent"
  BY NewRowFacts DEF Statuses
<1>3. At("idle") \in Process /\ At("idle").phase = "idle"
  BY AtFacts DEF Phases
<1>4. TypeOK
  BY <1>1, <1>2, <1>3 DEF TypeOK
<1>5. \A p \in Owners : ProcOK(p)
  BY <1>1, <1>3 DEF ProcOK, Handling
<1>6. \A e \in Events, c \in Consumers : <<e, c, Live>> \in Deliveries
  BY DEF Deliveries, Keys
<1>7. PublishedToAll /\ \A d \in Deliveries, n \in Nat : FailureOK(d, n)
  BY <1>1, <1>2, <1>6 DEF PublishedToAll, FailureOK
<1>8. Promise!AbsInit
  <2>1. \A e \in Events, c \in Consumers : Fate(e, c) = "none"
    BY <1>1, <1>2 DEF Fate
  <2>2. \A pair \in Events \X Consumers : Fate(pair[1], pair[2]) = "none"
    BY <2>1
  <2> QED
    BY <1>1, <2>2 DEF Promise!AbsInit, Promise!Pairs
<1> QED
  BY <1>4, <1>5, <1>7, <1>8 DEF OInv

LEMMA Invariant == Spec => []OInv
<1>1. OInv /\ [Next]_vars => OInv'
  BY NextKeeps DEF Done
<1> QED
  BY Starts, <1>1, PTL DEF Spec

\* The rows of both tables, the histories and the processors keep their types.
THEOREM OutboxTypeCorrect == Spec => []TypeOK
<1>1. OInv => TypeOK
  BY DEF OInv
<1> QED
  BY <1>1, Invariant, PTL

\* Publishing is atomic for any number of processes that crash, lose leases
\* and publish late, and for any registry.
THEOREM PublicationIsAtomic == Spec => []PublishedToAll
<1>1. OInv => PublishedToAll
  BY DEF OInv
<1> QED
  BY <1>1, Invariant, PTL

\* A failure is recorded for the attempt that failed and for no other, however
\* late the processor that lost the lease comes back.
THEOREM FailuresAreOfThePast == Spec => []FailuresArePast
<1>1. OInv => FailuresArePast
  BY Numbers DEF OInv, FailureOK, FailuresArePast
<1> QED
  BY <1>1, Invariant, PTL

\* The outbox implements EventDelivery: what was committed is owed to every
\* registered consumer until it ran and the delivery was completed, or the
\* attempts were used up; replays change nothing of this.
THEOREM PromiseIsKept == Spec => KeepsPromise
<1>1. OInv /\ [Next]_vars => [Promise!AbsNext]_(Promise!absVars)
  BY NextKeeps DEF Done, Promised
<1> QED
  BY Starts, Invariant, <1>1, PTL DEF Spec, KeepsPromise, Promise!AbsSpec
=============================================================================
