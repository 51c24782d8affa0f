----------------------------- MODULE AgentRuns -----------------------------
(***************************************************************************)
(* One Run of an Agent Session (backend/internal/agent) and the tool       *)
(* approvals it asks for.  Core keeps a row for the Run and one for every  *)
(* approval; Hermes, the runtime, executes the Run, asks for approvals and *)
(* answers the oldest one at each request.  What Hermes does reaches Core  *)
(* by three ways that know nothing of each other: an event stream that is  *)
(* delivered once and names no approvals, the polling of GetRun, and the   *)
(* replies to StopRun and ApproveRun.  Messages, tool calls and the text   *)
(* of events are left out; Runs share nothing, so there is one.            *)
(***************************************************************************)
EXTENDS Naturals, Sequences, FiniteSets

CONSTANTS
  Approvers,     \* requests of ApproveRun, each with a claim of its own
  Callers,       \* calls at a time of GetRun, StopRun and the loop of EvaluateProgress
  Sources,       \* who starts the Run: "message", "progress_evaluation"
  Endings,       \* how Hermes ends a Run that nobody stops
  NoApprover,
  MaxRequests,   \* bound: approvals that Hermes asks for
  MaxSequence    \* bound: number of an approval event within a connection

ASSUME AgentConstants ==
  /\ NoApprover \notin Approvers
  /\ Sources \subseteq {"message", "progress_evaluation"}
  /\ Endings \subseteq {"completed", "failed", "cancelled"}
  /\ MaxRequests \in Nat
  /\ MaxSequence \in Nat

VARIABLES
  run,       \* agent_runs: status, and whether remote_run_id is known
  approval,  \* agent_run_approvals, by approval_id
  remote,    \* Hermes: the Run, its approvals, and the events not yet delivered
  starter,   \* the request or the job that starts the Run, and what it is doing
  approver,  \* what each ApproveRun is doing
  caller,    \* what each GetRun, StopRun or round of the loop is doing
  stream     \* the connection of StreamRun

agentVars == <<run, approval, remote, starter, approver, caller, stream>>

-----------------------------------------------------------------------------
TerminalRun == {"completed", "failed", "stopped"}
OpenStatuses == {"pending", "responding"}
RunStatuses == {"queued", "running", "waiting_for_approval", "stopping"} \cup TerminalRun

\* An approval_id is made of the remote Run, which is one here, and the
\* number of the event in its connection, 1 and up.
Ids == 1..MaxSequence

ApprovalRow == [status : OpenStatuses \cup {"absent", "resolved", "expired"},
        claim : Approvers \cup {NoApprover},
        order : Nat,        \* approval_order
        stale : BOOLEAN]    \* the ten minutes of runApprovalClaimLease are over

Ended == {"completed", "failed", "cancelled"}
LiveRemote == {"queued", "running", "stopping"}

Events == {"started", "requested", "responded"} \cup Ended

OpenRows == {i \in Ids : approval[i].status \in OpenStatuses}

Oldest(i) == i \in OpenRows /\ \A k \in OpenRows : approval[i].order <= approval[k].order

Waiting == run.status = "waiting_for_approval"

\* Hermes asks and answers in one order: what waits is answered+1..asked.
Pending == remote.asked - remote.answered

\* The status that Hermes reports, as normalizeRunStatus reads it.
Reported ==
  CASE remote.status = "cancelled" -> "stopped"
    [] remote.status = "running" /\ Pending > 0 -> "waiting_for_approval"
    [] OTHER -> remote.status

\* A connection counts its own events and remembers what it was asked.
NoStream == [open |-> FALSE, seq |-> 0, seen |-> <<>>]

AInit ==
  /\ run = [status |-> "absent", known |-> FALSE]
  /\ approval = [i \in Ids |-> [status |-> "absent", claim |-> NoApprover, order |-> 0,
                               stale |-> FALSE]]
  /\ remote = [status |-> "none", asked |-> 0, answered |-> 0, events |-> <<>>]
  /\ starter = [source |-> "message", phase |-> "none"]
  /\ approver = [c \in Approvers |-> [phase |-> "idle", id |-> 0]]
  /\ caller = [g \in Callers |-> [phase |-> "idle", status |-> "queued"]]
  /\ stream = NoStream

-----------------------------------------------------------------------------
(* Transactions of the store                                               *)

\* The claim of a closed row only decides what its holder is told: left out.
Expired(row) == [row EXCEPT !.status = "expired", !.claim = NoApprover, !.stale = FALSE]

\* Mutant of UpdateRun: open approvals are not looked for.
UpdateRunBlindly(status) ==
  /\ run' = [run EXCEPT !.status = status]
  /\ approval' = [i \in Ids |-> IF status \in TerminalRun /\ i \in OpenRows
                               THEN Expired(approval[i]) ELSE approval[i]]

\* Whatever the Run is, it becomes what the caller has read: a Run that has
\* ended may become running again.
UpdateRun(status) ==
  /\ run' = [run EXCEPT !.status =
               IF status = "running" /\ OpenRows # {} THEN "waiting_for_approval" ELSE status]
  /\ approval' = [i \in Ids |-> IF status \in TerminalRun /\ i \in OpenRows
                               THEN Expired(approval[i]) ELSE approval[i]]

\* Mutant of RecordApproval: an id that is not open is taken for a new one.
RecordApprovalAnew(i) ==
  IF run.status \in TerminalRun \cup {"stopping"}
  THEN UNCHANGED <<run, approval>>
  ELSE /\ approval' = IF i \in OpenRows THEN approval ELSE
            [approval EXCEPT ![i] =
               [status |-> "pending", claim |-> NoApprover, stale |-> FALSE,
                order |-> 1 + Cardinality({k \in Ids : approval[k].status # "absent"})]]
       /\ run' = [run EXCEPT !.status = "waiting_for_approval"]

\* RecordRunApproval; an id that is known keeps its row, whatever it is.
RecordApproval(i) ==
  IF run.status \in TerminalRun \cup {"stopping"}
  THEN UNCHANGED <<run, approval>>
  ELSE /\ approval' = IF approval[i].status # "absent" THEN approval ELSE
            [approval EXCEPT ![i] =
               [status |-> "pending", claim |-> NoApprover, stale |-> FALSE,
                order |-> 1 + Cardinality({k \in Ids : approval[k].status # "absent"})]]
       /\ run' = IF approval'[i].status \in OpenStatuses
                 THEN [run EXCEPT !.status = "waiting_for_approval"] ELSE run

\* updateRunAfterApprovalResolution is part of the transaction.
Resolve(i) ==
  /\ approval' = [approval EXCEPT ![i] = [Expired(@) EXCEPT !.status = "resolved"]]
  /\ run' = [run EXCEPT !.status =
               IF OpenRows = {i} THEN "running" ELSE "waiting_for_approval"]

\* ApplyRunApprovalResponse
ApplyResponse(i) ==
  IF i \in OpenRows /\ Waiting THEN Resolve(i) ELSE UNCHANGED <<run, approval>>

\* ApplyNextRunApprovalResponse
ApplyNextResponse ==
  \/ \E i \in Ids : Oldest(i) /\ Waiting /\ Resolve(i)
  \/ (OpenRows = {} \/ ~Waiting) /\ UNCHANGED <<run, approval>>

-----------------------------------------------------------------------------
(* Hermes                                                                  *)

Emit(event) == [remote EXCEPT !.events = Append(@, event)]

Begin ==
  /\ remote.status = "queued"
  /\ remote' = [Emit("started") EXCEPT !.status = "running"]
  /\ UNCHANGED <<run, approval, starter, approver, caller, stream>>

Ask ==
  /\ remote.status = "running"
  /\ remote.asked < MaxRequests
  /\ remote' = [Emit("requested") EXCEPT !.asked = @ + 1]
  /\ UNCHANGED <<run, approval, starter, approver, caller, stream>>

Halt(status) == [Emit(status) EXCEPT !.status = status]

Finish ==
  /\ remote.status \in LiveRemote
  /\ \E status \in Endings : remote' = Halt(status)
  /\ UNCHANGED <<run, approval, starter, approver, caller, stream>>

\* Whatever was meant, the first of the pending approvals is answered, or,
\* for resolve_all, each of them.
Answer(upTo) ==
  /\ remote.status \in LiveRemote /\ Pending > 0
  /\ remote' = [Emit("responded") EXCEPT !.answered = upTo]

\* A stop is acknowledged, or is over when Hermes answers.
StopRemote(status) ==
  /\ remote.status \in LiveRemote
  /\ \/ status = "stopping" /\ remote' = [remote EXCEPT !.status = "stopping"]
     \/ status = "stopped" /\ remote' = Halt("cancelled")

MayStopRemote == remote' = remote \/ \E status \in {"stopping", "stopped"} : StopRemote(status)

-----------------------------------------------------------------------------
(* startRun, and EvaluateProgress until the Run is active                  *)

Start(phase) == starter' = [starter EXCEPT !.phase = phase]

StartOver == starter' = [source |-> "message", phase |-> "over"]

ReserveRun(source) ==
  /\ starter.phase = "none"
  /\ run' = [run EXCEPT !.status = "queued"]
  /\ starter' = [source |-> source, phase |-> "reserved"]
  /\ UNCHANGED <<approval, remote, approver, caller, stream>>

\* Attachments are refused, the input was delivered before, or Hermes refuses.
StartRefused ==
  /\ starter.phase = "reserved"
  /\ Start("refused")
  /\ UNCHANGED <<run, approval, remote, approver, caller, stream>>

\* Hermes accepts the Run; its answer may be lost.
StartRemote ==
  /\ starter.phase = "reserved"
  /\ remote' = [remote EXCEPT !.status = "queued"]
  /\ Start("started") \/ Start("refused")
  /\ UNCHANGED <<run, approval, approver, caller, stream>>

ActivateRun ==
  /\ starter.phase = "started"
  /\ run.status = "queued"
  /\ run' = [run EXCEPT !.status = "running", !.known = TRUE]
  /\ IF starter.source = "message" THEN StartOver ELSE Start("watch")
  /\ UNCHANGED <<approval, remote, approver, caller, stream>>

ActivateFails ==
  /\ starter.phase = "started"
  /\ MayStopRemote
  /\ Start("refused")
  /\ UNCHANGED <<run, approval, approver, caller, stream>>

FailRunReservation ==
  /\ starter.phase = "refused"
  /\ run' = IF run.status = "queued" THEN [run EXCEPT !.status = "failed"] ELSE run
  /\ StartOver
  /\ UNCHANGED <<approval, remote, approver, caller, stream>>

\* Core ends, or the transaction of FailRunReservation fails and is ignored.
StarterDies ==
  /\ starter.phase \notin {"none", "over"}
  /\ StartOver
  /\ UNCHANGED <<run, approval, remote, approver, caller, stream>>

-----------------------------------------------------------------------------
(* ApproveRun                                                              *)

Become(c, phase) ==
  approver' = [approver EXCEPT ![c] = [phase |-> phase, id |-> IF phase = "over" THEN 0 ELSE @.id]]

\* Mutant of Claimable: the lease of the claim is not looked at.
ClaimableAnytime(i) == Waiting /\ Oldest(i)

\* Mutant of Claimable: any approval, not the oldest one.
ClaimableAny(i) ==
  /\ Waiting /\ i \in OpenRows
  /\ approval[i].status = "pending" \/ approval[i].stale

\* The oldest open approval of a waiting Run, unless a claim of it is alive.
Claimable(i) ==
  /\ Waiting /\ Oldest(i)
  /\ approval[i].status = "pending" \/ approval[i].stale

ClaimRunApproval(c, i) ==
  /\ approver[c].phase = "idle"
  /\ Claimable(i)
  /\ approval' = [approval EXCEPT ![i].status = "responding", ![i].claim = c, ![i].stale = FALSE]
  /\ approver' = [approver EXCEPT ![c] = [phase |-> "posting", id |-> i]]
  /\ UNCHANGED <<run, remote, starter, caller, stream>>

\* Hermes answers an approval; the reply may be lost.
PostApproval(c) ==
  /\ approver[c].phase = "posting"
  /\ Answer(remote.answered + 1)
  /\ Become(c, "answered") \/ Become(c, "failed")
  /\ UNCHANGED <<run, approval, starter, caller, stream>>

\* The request does not arrive, or Hermes has nothing to answer.
PostFails(c) ==
  /\ approver[c].phase = "posting"
  /\ Become(c, "failed")
  /\ UNCHANGED <<run, approval, remote, starter, caller, stream>>

Holds(c) ==
  LET row == approval[approver[c].id] IN row.status = "responding" /\ row.claim = c

ReleaseRunApprovalClaim(c) ==
  /\ approver[c].phase = "failed"
  /\ approval' = IF Holds(c) THEN [approval EXCEPT ![approver[c].id].status = "pending",
                                     ![approver[c].id].claim = NoApprover,
                                     ![approver[c].id].stale = FALSE]
                 ELSE approval
  /\ Become(c, "over")
  /\ UNCHANGED <<run, remote, starter, caller, stream>>

CompleteRunApproval(c) ==
  /\ approver[c].phase = "answered"
  /\ IF Holds(c) /\ Waiting THEN Resolve(approver[c].id) ELSE UNCHANGED <<run, approval>>
  /\ Become(c, "over")
  /\ UNCHANGED <<remote, starter, caller, stream>>

\* Core ends, or a transaction fails; the row may keep the claim.
ApproverDies(c) ==
  /\ approver[c].phase \notin {"idle", "over"}
  /\ Become(c, "over")
  /\ UNCHANGED <<run, approval, remote, starter, caller, stream>>

\* Ten minutes pass; a request to Hermes takes less than that.
LeaseRunsOut(i) ==
  /\ approval[i].status = "responding" /\ ~approval[i].stale
  /\ approver[approval[i].claim].phase # "posting"
  /\ approval' = [approval EXCEPT ![i].stale = TRUE]
  /\ UNCHANGED <<run, remote, starter, approver, caller, stream>>

-----------------------------------------------------------------------------
(* GetRun, StopRun and the loop of EvaluateProgress                        *)

Call(g, phase, status) == caller' = [caller EXCEPT ![g] = [phase |-> phase, status |-> status]]

\* The loop of an evaluation learns that the Run has ended.
PollEvaluation(g) ==
  /\ starter.phase = "watch" /\ caller[g].phase = "idle"
  /\ Reported \in TerminalRun
  /\ Call(g, "update", Reported)
  /\ StartOver
  /\ UNCHANGED <<run, approval, remote, approver, stream>>

\* A round of the loop finds the Run waiting and denies every approval, those
\* that were asked for in between too.
DenyApprovals ==
  /\ starter.phase = "watch"
  /\ Answer(remote.asked)
  /\ UNCHANGED <<run, approval, starter, approver, caller, stream>>

\* Timeout, too many failed polls or denials, provenance that was not stored.
AbandonEvaluation(g) ==
  /\ starter.phase = "watch" /\ caller[g].phase = "idle"
  /\ MayStopRemote
  /\ Call(g, "update", "failed")
  /\ StartOver
  /\ UNCHANGED <<run, approval, approver, stream>>

\* GetRun asks Hermes unless the Run has ended; without its remote id in vain.
ReadRun(g) ==
  /\ caller[g].phase = "idle"
  /\ run.known /\ run.status \notin TerminalRun
  /\ Call(g, "fetch", run.status)
  /\ UNCHANGED <<run, approval, remote, starter, approver, stream>>

\* The status that was read is stored again when its error code is another one.
FetchRun(g) ==
  /\ caller[g].phase = "fetch"
  /\ \/ Call(g, "update", Reported)
     \/ Reported = caller[g].status /\ Call(g, "idle", "queued")
  /\ UNCHANGED <<run, approval, remote, starter, approver, stream>>

\* StopRun does not look at the status of the Run; its answer may be lost.
StopRun(g) ==
  /\ caller[g].phase = "idle" /\ run.known
  /\ \E status \in {"stopping", "stopped"} :
       StopRemote(status) /\ (Call(g, "update", status) \/ UNCHANGED caller)
  /\ UNCHANGED <<run, approval, starter, approver, stream>>

StoreCall(g) ==
  /\ caller[g].phase = "update"
  /\ UpdateRun(caller[g].status)
  /\ Call(g, "idle", "queued")
  /\ UNCHANGED <<remote, starter, approver, stream>>

CallFails(g) ==
  /\ caller[g].phase # "idle"
  /\ Call(g, "idle", "queued")
  /\ UNCHANGED <<run, approval, remote, starter, approver, stream>>

-----------------------------------------------------------------------------
(* StreamRun                                                               *)

Connect ==
  /\ ~stream.open /\ run.known
  /\ stream' = [NoStream EXCEPT !.open = TRUE]
  /\ UNCHANGED <<run, approval, remote, starter, approver, caller>>

\* consumeSSE takes the next event off the queue, and it is handled at once: one
\* that is not handled yet is like one in the queue.
Receive(event) ==
  /\ stream.open
  /\ remote.events # <<>> /\ Head(remote.events) = event
  /\ remote' = [remote EXCEPT !.events = Tail(@)]
  /\ UNCHANGED <<starter, approver, caller>>

\* eventIdentity: a request has the number of its event, with gaps for events of
\* other types.
ReceiveRequest ==
  /\ Receive("requested")
  /\ \E seq \in (stream.seq + 1)..MaxSequence :
       /\ stream' = [stream EXCEPT !.seq = seq, !.seen = Append(@, seq)]
       /\ RecordApproval(seq)

\* correlateApproval names the first request that this connection has seen.
ReceiveResponse ==
  /\ Receive("responded")
  /\ IF stream.seen = <<>>
     THEN ApplyNextResponse /\ UNCHANGED stream
     ELSE ApplyResponse(Head(stream.seen)) /\ stream' = [stream EXCEPT !.seen = Tail(@)]

\* Mutant of EventRunStatus: the name of the event is taken for a status.
EventRunStatusRaw(event) == IF event = "started" THEN "running" ELSE event

EventRunStatus(event) ==
  CASE event = "started" -> "running" [] event = "cancelled" -> "stopped" [] OTHER -> event

ReceiveStatus ==
  \E event \in {"started"} \cup Ended :
    /\ Receive(event)
    /\ UpdateRun(EventRunStatus(event))
    /\ UNCHANGED stream

\* An error of the stream is taken for the failure of the Run.
ReceiveError ==
  /\ stream.open
  /\ UpdateRun("failed")
  /\ UNCHANGED <<remote, starter, approver, caller, stream>>

\* The browser leaves, the connection breaks or the handler fails; an event
\* that was on its way may be lost.
Disconnect ==
  /\ stream.open
  /\ stream' = NoStream
  /\ \/ UNCHANGED remote
     \/ remote.events # <<>> /\ remote' = [remote EXCEPT !.events = Tail(@)]
  /\ UNCHANGED <<run, approval, starter, approver, caller>>

-----------------------------------------------------------------------------
Hermes == Begin \/ Ask \/ Finish

Starting ==
  \/ \E source \in Sources : ReserveRun(source)
  \/ StartRefused \/ StartRemote \/ ActivateRun \/ ActivateFails \/ FailRunReservation
  \/ DenyApprovals \/ StarterDies

Approving(c) ==
  \/ \E i \in Ids : ClaimRunApproval(c, i)
  \/ PostApproval(c) \/ PostFails(c) \/ ReleaseRunApprovalClaim(c) \/ CompleteRunApproval(c)
  \/ ApproverDies(c)

Calling(g) ==
  \/ PollEvaluation(g) \/ AbandonEvaluation(g)
  \/ ReadRun(g) \/ FetchRun(g) \/ StopRun(g) \/ StoreCall(g) \/ CallFails(g)

Streaming ==
  Connect \/ ReceiveRequest \/ ReceiveResponse \/ ReceiveStatus \/ ReceiveError \/ Disconnect

ANext ==
  \/ Hermes \/ Starting
  \/ \E c \in Approvers : Approving(c)
  \/ \E i \in Ids : LeaseRunsOut(i)
  \/ \E g \in Callers : Calling(g)
  \/ Streaming

ASpec == AInit /\ [][ANext]_agentVars

-----------------------------------------------------------------------------
\* Every variable has its type.
ATypeOK ==
  /\ run \in [status : RunStatuses \cup {"absent"}, known : BOOLEAN]
  /\ approval \in [Ids -> ApprovalRow]
  /\ remote \in [status : LiveRemote \cup Ended \cup {"none"}, asked : 0..MaxRequests,
                 answered : 0..MaxRequests, events : Seq(Events)]
  /\ starter \in [source : {"message", "progress_evaluation"},
                  phase : {"none", "reserved", "started", "refused", "watch", "over"}]
  /\ approver \in [Approvers ->
       [phase : {"idle", "posting", "answered", "failed", "over"}, id : 0..MaxSequence]]
  /\ caller \in [Callers -> [phase : {"idle", "fetch", "update"}, status : RunStatuses]]
  /\ stream \in [open : BOOLEAN, seq : 0..MaxSequence, seen : Seq(Ids)]

\* A Run whose approval is open is not shown as running or as ended: a late
\* status, a late event or an answered approval beside it does not hide it.
NoApprovalIsForgotten ==
  OpenRows # {} => run.status \in {"queued", "waiting_for_approval", "stopping"}

\* At most one approval is claimed, and it is the oldest open one: what is
\* sent to Hermes, which answers its own oldest, is an answer in Core's order.
OnlyTheOldestIsClaimed ==
  \A i \in Ids : approval[i].status = "responding" => Oldest(i)

\* Two people never send an answer to the same approval at once, whatever is
\* released, taken over after ten minutes, expired or answered in between.
OneVoice ==
  \A c, d \in Approvers :
    /\ approver[c].phase = "posting" /\ approver[d].phase = "posting"
    /\ approver[c].id = approver[d].id
    => c = d

\* An approval that was resolved or has expired stays so: a claim that comes
\* back late, an event that arrives twice or a failed answer cannot reopen it.
ClosedIsFinal ==
  [][\A i \in Ids : approval[i].status \in {"resolved", "expired"} =>
       approval'[i].status = approval[i].status]_agentVars

-----------------------------------------------------------------------------
(* The queue of approvals that people see *)

ApprovalFate == [i \in Ids |->
  CASE approval[i].status = "absent" -> "unasked"
    [] approval[i].status = "pending" -> "open"
    [] approval[i].status = "responding" -> "taken"
    [] OTHER -> "closed"]

EarlierApprovals == [i \in Ids |->
  {j \in Ids : /\ approval[i].status # "absent" /\ approval[j].status # "absent"
               /\ approval[j].order < approval[i].order}]

AnswersOnTheirWay ==
  {<<c, approver[c].id>> : c \in {d \in Approvers : approver[d].phase = "posting"}}

Queue == INSTANCE ApprovalQueue
         WITH Approvals <- Ids, People <- Approvers, fate <- ApprovalFate,
              earlier <- EarlierApprovals, sending <- AnswersOnTheirWay

\* Every transaction and every failure is a step of the queue of approvals or
\* none at all: whatever streams, polls, stops and late answers do to the
\* rows, approvals are answered in order and by one person at a time.
AnswersInOrder == Queue!QueueSpec
=============================================================================
