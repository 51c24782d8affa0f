-------------------------- MODULE AgentRunsProofs --------------------------
(***************************************************************************)
(* Proofs about AgentRuns for any number of people who approve, callers,   *)
(* approvals and events.  A step changes the rows in one of three ways:    *)
(* it records one (RecordApprovalKeeps), it closes some and stores a       *)
(* status that fits (RowsClose), or it moves a claim (ClaimsKeep); the     *)
(* rest of it is a move of Hermes and of whoever takes the step            *)
(* (FineStep).                                                             *)
(***************************************************************************)
EXTENDS AgentRuns, FiniteSetTheorems, TLAPS

\* The approvals that have a row, and how the rows are ordered: a new one gets
\* the number of rows there are then, so orders grow and none is used twice.
Recorded == {k \in Ids : approval[k].status # "absent"}

RowsOrdered ==
  \A i \in Recorded :
    /\ approval[i].order <= Cardinality(Recorded)
    /\ \A j \in Recorded : approval[i].order = approval[j].order => i = j

\* Hermes has answered nothing that it has not asked.
AnswersFollow == remote.answered <= remote.asked

\* The Run is known to have begun at Hermes only when it has; before, nobody
\* streams it, nothing has asked about it and it has no approvals.
BegunIsKnown ==
  /\ starter.phase \in {"none", "reserved", "started", "refused"} => ~run.known
  /\ starter.phase = "started" => remote.status # "none"
  /\ run.known => run.status # "absent" /\ remote.status # "none"
  /\ ~run.known => ~stream.open /\ OpenRows = {}
  /\ \A g \in Callers : caller[g].phase = "fetch" => remote.status # "none"

\* Who sends an answer has the claim of the row, and not a stale one, unless
\* the row was closed meanwhile.
Claims(c, row) == row.status = "responding" /\ row.claim = c /\ ~row.stale

VoicesClaim ==
  \A c \in Approvers :
    /\ approver[c].phase \in {"posting", "answered", "failed"} => approver[c].id \in Ids
    /\ approver[c].phase = "posting" =>
         LET row == approval[approver[c].id]
         IN Claims(c, row) \/ row.status \in {"resolved", "expired"}

AInv ==
  /\ ATypeOK
  /\ RowsOrdered
  /\ AnswersFollow
  /\ BegunIsKnown
  /\ NoApprovalIsForgotten
  /\ OnlyTheOldestIsClaimed
  /\ VoicesClaim
  /\ OneVoice

-----------------------------------------------------------------------------
\* There are finitely many rows, and a new one is one more.
LEMMA RowsAreCounted ==
  ASSUME NEW S \in SUBSET Ids, NEW i \in Ids, i \notin S
  PROVE  /\ Cardinality(S) \in Nat
         /\ Cardinality(S \cup {i}) = Cardinality(S) + 1
<1>1. IsFiniteSet(Ids)
  BY FS_Interval, AgentConstants DEF Ids
<1>2. IsFiniteSet(S)
  BY <1>1, FS_Subset
<1> QED
  BY <1>2, FS_CardinalityType, FS_AddElement

\* What a step other than the recording of an approval may do to a row, as
\* seen from the order of the rows: it neither appears nor disappears, none is
\* reopened, and who claims it finds it the oldest.
Kept(i) ==
  /\ approval'[i].order = approval[i].order
  /\ approval'[i].status = "absent" <=> approval[i].status = "absent"
  /\ approval'[i].status \in OpenStatuses => approval[i].status \in OpenStatuses
  /\ approval'[i].status = "responding" => approval[i].status = "responding" \/ Oldest(i)

LEMMA KeptRowsStayOrdered ==
  ASSUME AInv, \A i \in Ids : Kept(i)
  PROVE  RowsOrdered' /\ OnlyTheOldestIsClaimed'
<1>1. Recorded' = Recorded /\ OpenRows' \subseteq OpenRows
  BY DEF Kept, Recorded, OpenRows, Ids
<1>2. RowsOrdered'
  BY <1>1 DEF Kept, RowsOrdered, AInv, Recorded
<1>3. ASSUME NEW i \in Ids, approval'[i].status = "responding"
      PROVE  Oldest(i)'
  <2>1. Oldest(i)
    BY <1>3 DEF Kept, AInv, OnlyTheOldestIsClaimed
  <2>2. i \in OpenRows'
    BY <1>3 DEF OpenRows, OpenStatuses, Ids
  <2>3. \A k \in OpenRows' : approval'[i].order <= approval'[k].order
    BY <1>1, <2>1 DEF Oldest, Kept, OpenRows
  <2> QED
    BY <2>2, <2>3 DEF Oldest
<1> QED
  BY <1>2, <1>3 DEF OnlyTheOldestIsClaimed, Ids

\* Who sends an answer keeps the claim when nobody else takes one up and no
\* row that is answered for changes but to be closed.
Listens(c) ==
  \/ approver'[c] = approver[c]
  \/ approver'[c].phase = "over"
  \/ approver'[c].phase \in {"answered", "failed"} /\ approver'[c].id = approver[c].id
     /\ approver[c].phase = "posting"

Undisturbed(i) ==
  \/ approval'[i] = approval[i]
  \/ approval'[i].status \in {"resolved", "expired"}
  \/ \A c \in Approvers : ~(approver[c].phase = "posting" /\ approver[c].id = i)

LEMMA VoicesStay ==
  ASSUME AInv, \A c \in Approvers : Listens(c), \A i \in Ids : Undisturbed(i)
  PROVE  VoicesClaim' /\ OneVoice'
<1>1. ASSUME NEW c \in Approvers, approver'[c].phase = "posting"
      PROVE  approver'[c] = approver[c]
  BY <1>1 DEF Listens
<1>2. OneVoice'
  BY <1>1 DEF OneVoice, AInv
<1>3. ASSUME NEW c \in Approvers, approver'[c].phase \in {"posting", "answered", "failed"}
      PROVE  approver'[c].id \in Ids
  BY <1>3 DEF Listens, AInv, VoicesClaim
<1>4. ASSUME NEW c \in Approvers, approver'[c].phase = "posting"
      PROVE  \/ Claims(c, approval'[approver'[c].id])
             \/ approval'[approver'[c].id].status \in {"resolved", "expired"}
  <2> DEFINE i == approver[c].id
  <2>1. approver'[c] = approver[c] /\ approver[c].phase = "posting" /\ i \in Ids
    BY <1>1, <1>3, <1>4
  <2>2. Claims(c, approval[i]) \/ approval[i].status \in {"resolved", "expired"}
    BY <2>1 DEF AInv, VoicesClaim
  <2>3. approval'[i] = approval[i] \/ approval'[i].status \in {"resolved", "expired"}
    BY <2>1 DEF Undisturbed
  <2> QED
    BY <2>1, <2>2, <2>3
<1> QED
  BY <1>2, <1>3, <1>4 DEF VoicesClaim, Ids
-----------------------------------------------------------------------------
(* What Hermes does *)

RemoteRuns == [status : LiveRemote \cup Ended \cup {"none"}, asked : 0..MaxRequests,
               answered : 0..MaxRequests, events : Seq(Events)]

RemoteMoves ==
  /\ remote' \in RemoteRuns
  /\ AnswersFollow'
  /\ remote.status # "none" => remote'.status # "none"

\* Whoever changes the Run at Hermes emits an event, or none; asks once more,
\* or answers what was asked.
LEMMA RemoteEmits ==
  ASSUME AInv, NEW event \in Events, NEW status \in LiveRemote \cup Ended,
         NEW asked \in 0..MaxRequests, NEW answered \in 0..MaxRequests, answered <= asked,
         remote' \in {[remote EXCEPT !.status = status, !.asked = asked, !.answered = answered],
                      [remote EXCEPT !.status = status, !.asked = asked, !.answered = answered,
                                     !.events = Append(@, event)]}
  PROVE  RemoteMoves
<1>1. remote \in RemoteRuns
  BY DEF AInv, ATypeOK, RemoteRuns
<1>2. Append(remote.events, event) \in Seq(Events)
  BY <1>1 DEF RemoteRuns
<1>3. remote' \in RemoteRuns /\ remote'.answered = answered /\ remote'.asked = asked
      /\ remote'.status = status
  BY <1>1, <1>2 DEF RemoteRuns
<1> QED
  BY <1>3 DEF RemoteMoves, AnswersFollow, LiveRemote, Ended

LEMMA RemoteSteps ==
  ASSUME AInv
  PROVE  /\ UNCHANGED remote => RemoteMoves
         /\ Begin \/ Ask \/ Finish \/ DenyApprovals \/ MayStopRemote => RemoteMoves
         /\ \A status : StopRemote(status) => RemoteMoves
         /\ Answer(remote.answered + 1) => RemoteMoves
         /\ starter.phase = "reserved" /\ remote' = [remote EXCEPT !.status = "queued"]
            => RemoteMoves
         /\ remote.events # <<>> /\ remote' = [remote EXCEPT !.events = Tail(@)] => RemoteMoves
<1>1. remote \in RemoteRuns /\ remote.answered <= remote.asked
      /\ remote.asked \in 0..MaxRequests /\ remote.answered \in 0..MaxRequests
      /\ MaxRequests \in Nat
  BY AgentConstants DEF AInv, ATypeOK, RemoteRuns, AnswersFollow
<1>2. UNCHANGED remote => RemoteMoves
  BY <1>1 DEF RemoteMoves, AnswersFollow
<1>3. ASSUME Begin PROVE RemoteMoves
  <2>1. remote' = [remote EXCEPT !.status = "running", !.asked = remote.asked,
                                 !.answered = remote.answered, !.events = Append(@, "started")]
    BY <1>1, <1>3 DEF Begin, Emit, RemoteRuns
  <2> QED
    BY <1>1, <2>1, RemoteEmits DEF Events, LiveRemote
<1>4. ASSUME Ask PROVE RemoteMoves
  <2>1. remote' = [remote EXCEPT !.status = "running", !.asked = remote.asked + 1,
                                 !.answered = remote.answered, !.events = Append(@, "requested")]
    BY <1>1, <1>4 DEF Ask, Emit, RemoteRuns
  <2>2. remote.asked + 1 \in 0..MaxRequests /\ remote.answered <= remote.asked + 1
    BY <1>1, <1>4 DEF Ask
  <2> QED
    BY <1>1, <2>1, <2>2, RemoteEmits DEF Events, LiveRemote
<1>5. ASSUME NEW status \in Ended, remote' = Halt(status) PROVE RemoteMoves
  <2>1. remote' = [remote EXCEPT !.status = status, !.asked = remote.asked,
                                 !.answered = remote.answered, !.events = Append(@, status)]
    BY <1>1, <1>5 DEF Halt, Emit, RemoteRuns
  <2> QED
    BY <1>1, <2>1, RemoteEmits DEF Events
<1>6. Finish => RemoteMoves
  BY <1>5, AgentConstants DEF Finish, Ended
<1>7. ASSUME NEW upTo \in {remote.answered + 1, remote.asked}, Answer(upTo)
      PROVE  RemoteMoves
  <2>1. remote.status \in LiveRemote /\ upTo \in 0..MaxRequests /\ upTo <= remote.asked
    BY <1>1, <1>7 DEF Answer, Pending
  <2>2. remote' = [remote EXCEPT !.status = remote.status, !.asked = remote.asked,
                                 !.answered = upTo, !.events = Append(@, "responded")]
    BY <1>1, <1>7 DEF Answer, Emit, RemoteRuns
  <2> QED
    BY <1>1, <2>1, <2>2, RemoteEmits DEF Events
<1>8. ASSUME NEW status, StopRemote(status) PROVE RemoteMoves
  <2>1. CASE remote' = Halt("cancelled")
    BY <1>5, <2>1 DEF Ended
  <2>2. CASE remote' = [remote EXCEPT !.status = "stopping"]
    <3>1. remote' \in RemoteRuns /\ remote'.answered = remote.answered
          /\ remote'.asked = remote.asked /\ remote'.status # "none"
      BY <1>1, <2>2 DEF RemoteRuns, LiveRemote
    <3> QED
      BY <1>1, <3>1 DEF RemoteMoves, AnswersFollow
  <2> QED
    BY <1>8, <2>1, <2>2 DEF StopRemote
<1>9. MayStopRemote => RemoteMoves
  BY <1>2, <1>8 DEF MayStopRemote
<1>10. DenyApprovals => RemoteMoves
  BY <1>7 DEF DenyApprovals
<1>11. ASSUME remote' = [remote EXCEPT !.status = "queued"] PROVE RemoteMoves
  <2>1. remote' \in RemoteRuns /\ remote'.answered = remote.answered
        /\ remote'.asked = remote.asked /\ remote'.status # "none"
    BY <1>1, <1>11 DEF RemoteRuns, LiveRemote
  <2> QED
    BY <1>1, <2>1 DEF RemoteMoves, AnswersFollow
<1>12. ASSUME remote.events # <<>>, remote' = [remote EXCEPT !.events = Tail(@)]
       PROVE  RemoteMoves
  <2>1. remote.events \in Seq(Events) /\ Tail(remote.events) \in Seq(Events)
    BY <1>1, <1>12 DEF RemoteRuns
  <2>2. remote' \in RemoteRuns /\ remote'.answered = remote.answered
        /\ remote'.asked = remote.asked /\ remote'.status = remote.status
    BY <1>1, <1>12, <2>1 DEF RemoteRuns
  <2> QED
    BY <1>1, <2>2 DEF RemoteMoves, AnswersFollow
<1> QED
  BY <1>2, <1>3, <1>4, <1>6, <1>7, <1>8, <1>9, <1>10, <1>11, <1>12
-----------------------------------------------------------------------------
(* Transactions of the store *)

\* What is to be shown of a transaction, of the rows and of the Run.
RowsFine ==
  /\ approval' \in [Ids -> ApprovalRow]
  /\ RowsOrdered' /\ NoApprovalIsForgotten' /\ OnlyTheOldestIsClaimed'
  /\ \A i \in Ids : Undisturbed(i)

RunFine ==
  /\ run' \in [status : RunStatuses \cup {"absent"}, known : BOOLEAN]
  /\ run'.known = run.known
  /\ run.status # "absent" => run'.status # "absent"
  /\ ~run.known => OpenRows' = {}

LEMMA RowsUnchanged ==
  ASSUME AInv, UNCHANGED <<run, approval>>
  PROVE  RowsFine /\ RunFine
<1>1. \A i \in Ids : Kept(i) /\ Undisturbed(i)
  BY DEF Kept, Undisturbed
<1>2. RowsOrdered' /\ OnlyTheOldestIsClaimed'
  BY <1>1, KeptRowsStayOrdered
<1>3. NoApprovalIsForgotten' /\ (~run.known => OpenRows' = {})
  BY DEF AInv, BegunIsKnown, NoApprovalIsForgotten, OpenRows, Ids
<1>4. run' \in [status : RunStatuses \cup {"absent"}, known : BOOLEAN]
      /\ approval' \in [Ids -> ApprovalRow]
  BY DEF AInv, ATypeOK
<1> QED
  BY <1>1, <1>2, <1>3, <1>4 DEF RowsFine, RunFine

LEMMA RowExpires ==
  ASSUME NEW row \in ApprovalRow
  PROVE  /\ Expired(row) \in ApprovalRow /\ Expired(row).status = "expired"
         /\ Expired(row).order = row.order
         /\ [Expired(row) EXCEPT !.status = "resolved"] \in ApprovalRow
         /\ [Expired(row) EXCEPT !.status = "resolved"].status = "resolved"
         /\ [Expired(row) EXCEPT !.status = "resolved"].order = row.order
BY DEF Expired, ApprovalRow

\* Rows that are kept or closed, with a status of the Run that fits them.
LEMMA RowsClose ==
  ASSUME AInv, approval' \in [Ids -> ApprovalRow], NEW status \in RunStatuses,
         run' = [run EXCEPT !.status = status],
         \A i \in Ids : \/ approval'[i] = approval[i]
                        \/ /\ i \in OpenRows /\ approval'[i].order = approval[i].order
                           /\ approval'[i].status \in {"resolved", "expired"},
         OpenRows' # {} => status \in {"queued", "waiting_for_approval", "stopping"}
  PROVE  RowsFine /\ RunFine
<1>1. \A i \in Ids : Kept(i) /\ Undisturbed(i)
  BY DEF Kept, Undisturbed, OpenRows, OpenStatuses
<1>2. RowsOrdered' /\ OnlyTheOldestIsClaimed'
  BY <1>1, KeptRowsStayOrdered
<1>3. OpenRows' \subseteq OpenRows
  BY <1>1 DEF Kept, OpenRows, Ids
<1>4. run \in [status : RunStatuses \cup {"absent"}, known : BOOLEAN]
  BY DEF AInv, ATypeOK
<1>5. run' \in [status : RunStatuses \cup {"absent"}, known : BOOLEAN]
      /\ run'.status = status /\ run'.known = run.known /\ status # "absent"
  BY <1>4 DEF RunStatuses, TerminalRun
<1>6. NoApprovalIsForgotten'
  BY <1>5 DEF NoApprovalIsForgotten
<1>7. ~run.known => OpenRows' = {}
  BY <1>3 DEF AInv, BegunIsKnown
<1> QED
  BY <1>1, <1>2, <1>5, <1>6, <1>7 DEF RowsFine, RunFine

LEMMA UpdateRunKeeps ==
  ASSUME AInv, NEW status \in RunStatuses, UpdateRun(status)
  PROVE  RowsFine /\ RunFine
<1> DEFINE new == IF status = "running" /\ OpenRows # {} THEN "waiting_for_approval" ELSE status
<1>1. approval \in [Ids -> ApprovalRow]
  BY DEF AInv, ATypeOK
<1>2. ASSUME NEW i \in Ids
      PROVE  /\ approval'[i] \in ApprovalRow
             /\ \/ approval'[i] = approval[i]
                \/ /\ i \in OpenRows /\ approval'[i].order = approval[i].order
                   /\ approval'[i].status \in {"resolved", "expired"}
             /\ status \in TerminalRun => i \notin OpenRows'
             /\ i \in OpenRows' => i \in OpenRows
  <2>1. approval[i] \in ApprovalRow
    BY <1>1
  <2>2. approval'[i] = IF status \in TerminalRun /\ i \in OpenRows
                       THEN Expired(approval[i]) ELSE approval[i]
    BY DEF UpdateRun
  <2>3. i \in OpenRows' <=> approval'[i].status \in OpenStatuses
    BY DEF OpenRows, Ids
  <2>4. i \in OpenRows <=> approval[i].status \in OpenStatuses
    BY DEF OpenRows
  <2> QED
    BY <2>1, <2>2, <2>3, <2>4, RowExpires DEF OpenStatuses
<1>3. approval' \in [Ids -> ApprovalRow]
  <2>1. approval' = [i \in Ids |-> approval'[i]]
    BY DEF UpdateRun
  <2> QED
    BY <1>2, <2>1
<1>4. new \in RunStatuses /\ run' = [run EXCEPT !.status = new]
  BY DEF UpdateRun, RunStatuses
<1>5. OpenRows' # {} => OpenRows # {} /\ status \notin TerminalRun
  BY <1>2 DEF OpenRows, Ids
<1>6. OpenRows' # {} => new \in {"queued", "waiting_for_approval", "stopping"}
  BY <1>5 DEF RunStatuses
<1> HIDE DEF new
<1> QED
  BY <1>2, <1>3, <1>4, <1>6, RowsClose

LEMMA ResolveKeeps ==
  ASSUME AInv, NEW i \in OpenRows, Resolve(i)
  PROVE  RowsFine /\ RunFine
<1> DEFINE new == IF OpenRows = {i} THEN "running" ELSE "waiting_for_approval"
<1>1. approval \in [Ids -> ApprovalRow] /\ i \in Ids
  BY DEF AInv, ATypeOK, OpenRows
<1>2. /\ approval' \in [Ids -> ApprovalRow]
      /\ approval'[i].order = approval[i].order /\ approval'[i].status = "resolved"
      /\ \A k \in Ids \ {i} : approval'[k] = approval[k]
  <2>1. approval' = [approval EXCEPT ![i] = [Expired(approval[i]) EXCEPT !.status = "resolved"]]
    BY DEF Resolve
  <2> QED
    BY <1>1, <2>1, RowExpires
<1>3. new \in RunStatuses /\ run' = [run EXCEPT !.status = new]
  BY DEF Resolve, RunStatuses
<1>4. OpenRows' = OpenRows \ {i}
  BY <1>1, <1>2 DEF OpenRows, OpenStatuses, Ids
<1>5. OpenRows' # {} => new = "waiting_for_approval"
  BY <1>4
<1> HIDE DEF new
<1>6. \A k \in Ids : \/ approval'[k] = approval[k]
                     \/ /\ k \in OpenRows /\ approval'[k].order = approval[k].order
                        /\ approval'[k].status \in {"resolved", "expired"}
  BY <1>2
<1> QED
  BY <1>2, <1>3, <1>5, <1>6, RowsClose

LEMMA ResponsesKeep ==
  ASSUME AInv
  PROVE  /\ \A i : ApplyResponse(i) => RowsFine /\ RunFine
         /\ ApplyNextResponse => RowsFine /\ RunFine
BY ResolveKeeps, RowsUnchanged DEF ApplyResponse, ApplyNextResponse, Oldest
\* A new row has a larger order than all others, so none that is claimed stops
\* being the oldest.
LEMMA RecordApprovalKeeps ==
  ASSUME AInv, NEW i \in Ids, RecordApproval(i), run.known
  PROVE  RowsFine /\ RunFine
<1> DEFINE new == [status |-> "pending", claim |-> NoApprover, stale |-> FALSE,
                   order |-> 1 + Cardinality(Recorded)]
<1>1. approval \in [Ids -> ApprovalRow]
      /\ run \in [status : RunStatuses \cup {"absent"}, known : BOOLEAN]
  BY DEF AInv, ATypeOK
<1>2. CASE UNCHANGED <<run, approval>>
  BY <1>2, RowsUnchanged
<1>3. CASE approval[i].status # "absent" /\ ~UNCHANGED <<run, approval>>
  <2>1. approval' = approval /\ run' = [run EXCEPT !.status = "waiting_for_approval"]
    BY <1>3 DEF RecordApproval
  <2>2. "waiting_for_approval" \in RunStatuses
    BY DEF RunStatuses
  <2> QED
    BY <1>1, <2>1, <2>2, RowsClose
<1>4. CASE approval[i].status = "absent" /\ ~UNCHANGED <<run, approval>>
  <2>1. approval' = [approval EXCEPT ![i] = new]
    BY <1>4 DEF RecordApproval, Recorded
  <2>2. i \notin Recorded /\ Recorded \subseteq Ids /\ Cardinality(Recorded) \in Nat
        /\ Cardinality(Recorded \cup {i}) = Cardinality(Recorded) + 1
    BY <1>4, RowsAreCounted DEF Recorded
  <2>3. new \in ApprovalRow /\ new.status = "pending" /\ new.order = 1 + Cardinality(Recorded)
    BY <2>2 DEF ApprovalRow, OpenStatuses
  <2> HIDE DEF new
  <2>4. approval'[i] = new /\ \A k \in Ids \ {i} : approval'[k] = approval[k]
    BY <1>1, <2>1
  <2>5. approval' \in [Ids -> ApprovalRow]
    BY <1>1, <2>1, <2>3
  <2>6. run' = [run EXCEPT !.status = "waiting_for_approval"]
    BY <1>1, <1>4, <2>3, <2>4 DEF RecordApproval, OpenStatuses
  <2>7. run' \in [status : RunStatuses \cup {"absent"}, known : BOOLEAN]
        /\ run'.known = run.known /\ run'.status = "waiting_for_approval"
    BY <1>1, <2>6 DEF RunStatuses
  <2>8. Recorded' = Recorded \cup {i}
    BY <1>1, <2>3, <2>4 DEF Recorded, Ids
  <2>9. \A k \in Recorded : approval[k].order \in Nat /\ approval[k].order <= Cardinality(Recorded)
    BY <1>1 DEF AInv, RowsOrdered, Recorded, ApprovalRow
  <2>10. RowsOrdered'
    <3>1. \A k \in Recorded : k \in Ids \ {i} /\ approval'[k].order = approval[k].order
      BY <2>2, <2>4
    <3>2. \A k \in Recorded : \A l \in Recorded : approval[k].order = approval[l].order => k = l
      BY DEF AInv, RowsOrdered
    <3>3. \A k \in Recorded' : approval'[k].order <= Cardinality(Recorded) + 1
      BY <2>2, <2>3, <2>4, <2>8, <2>9, <3>1
    <3>4. \A k \in Recorded', l \in Recorded' : approval'[k].order = approval'[l].order => k = l
      BY <2>2, <2>3, <2>4, <2>8, <2>9, <3>1, <3>2
    <3> QED
      BY <2>2, <2>8, <3>3, <3>4 DEF RowsOrdered
  <2>11. OpenRows' = OpenRows \cup {i}
    BY <1>1, <2>3, <2>4 DEF OpenRows, OpenStatuses, Ids
  <2>12. OnlyTheOldestIsClaimed'
    <3> SUFFICES ASSUME NEW k \in Ids, approval'[k].status = "responding" PROVE Oldest(k)'
      BY DEF OnlyTheOldestIsClaimed, Ids
    <3>1. k # i /\ approval[k].status = "responding"
      BY <2>3, <2>4
    <3>2. Oldest(k) /\ k \in Recorded
      BY <3>1 DEF AInv, OnlyTheOldestIsClaimed, Recorded
    <3>3. \A l \in OpenRows' : approval'[k].order <= approval'[l].order
      BY <2>2, <2>3, <2>4, <2>9, <2>11, <3>1, <3>2 DEF Oldest, OpenRows
    <3> QED
      BY <2>11, <3>2, <3>3 DEF Oldest
  <2>13. ASSUME NEW k \in Ids PROVE Undisturbed(k)
    <3>1. CASE k # i
      BY <2>4, <3>1 DEF Undisturbed
    <3>2. CASE k = i
      BY <1>4, <3>2 DEF Undisturbed, AInv, VoicesClaim, Claims
    <3> QED
      BY <3>1, <3>2
  <2>14. NoApprovalIsForgotten'
    BY <2>7 DEF NoApprovalIsForgotten
  <2> QED
    BY <2>5, <2>7, <2>10, <2>12, <2>13, <2>14 DEF RowsFine, RunFine
<1> QED
  BY <1>2, <1>3, <1>4

\* A row that is claimed, given back, or whose claim grows stale.
LEMMA ClaimsKeep ==
  ASSUME AInv, NEW i \in OpenRows, NEW row \in ApprovalRow, row.order = approval[i].order,
         row.status \in OpenStatuses, row.status = "responding" => Oldest(i),
         approval' = [approval EXCEPT ![i] = row], UNCHANGED run,
         \A c \in Approvers : approver[c].phase = "posting" => approver[c].id # i
  PROVE  RowsFine /\ RunFine
<1>1. approval \in [Ids -> ApprovalRow] /\ i \in Ids
      /\ run \in [status : RunStatuses \cup {"absent"}, known : BOOLEAN]
  BY DEF AInv, ATypeOK, OpenRows
<1>2. /\ approval' \in [Ids -> ApprovalRow] /\ approval'[i] = row
      /\ \A k \in Ids \ {i} : approval'[k] = approval[k]
  BY <1>1
<1>3. ASSUME NEW k \in Ids PROVE Kept(k) /\ Undisturbed(k)
  <2>1. CASE k # i
    BY <1>2, <2>1 DEF Kept, Undisturbed
  <2>2. CASE k = i
    BY <1>2, <2>2 DEF Kept, Undisturbed, OpenRows, OpenStatuses
  <2> QED
    BY <2>1, <2>2
<1>4. RowsOrdered' /\ OnlyTheOldestIsClaimed'
  BY <1>3, KeptRowsStayOrdered
<1>5. OpenRows' = OpenRows
  BY <1>1, <1>2 DEF OpenRows, Ids
<1>6. NoApprovalIsForgotten' /\ (~run.known => OpenRows' = {})
  BY <1>5 DEF AInv, NoApprovalIsForgotten, BegunIsKnown
<1> QED
  BY <1>1, <1>2, <1>3, <1>4, <1>6 DEF RowsFine, RunFine
-----------------------------------------------------------------------------
(* The steps *)

\* An action keeps the invariant when its transaction and its senders do, and
\* the rest of the state has its type and knows what it should.
LEMMA Composed ==
  ASSUME AInv, RowsFine, \A c \in Approvers : Listens(c), ATypeOK', AnswersFollow', BegunIsKnown'
  PROVE  AInv'
BY VoicesStay DEF AInv, RowsFine

CallersFine ==
  /\ caller' \in [Callers -> [phase : {"idle", "fetch", "update"}, status : RunStatuses]]
  /\ \A g \in Callers : caller'[g].phase = "fetch" => remote'.status # "none"

LEMMA CallersUnchanged ==
  ASSUME AInv, UNCHANGED caller, RemoteMoves
  PROVE  CallersFine
BY DEF CallersFine, AInv, ATypeOK, BegunIsKnown, RemoteMoves

LEMMA CallKeeps ==
  ASSUME AInv, RemoteMoves, NEW g \in Callers, NEW phase \in {"idle", "fetch", "update"},
         NEW status \in RunStatuses, Call(g, phase, status),
         phase = "fetch" => remote'.status # "none"
  PROVE  CallersFine
<1>1. caller \in [Callers -> [phase : {"idle", "fetch", "update"}, status : RunStatuses]]
  BY DEF AInv, ATypeOK
<1>2. caller' = [caller EXCEPT ![g] = [phase |-> phase, status |-> status]]
  BY DEF Call
<1>3. \A h \in Callers : caller'[h].phase = "fetch" => h = g \/ caller[h].phase = "fetch"
  BY <1>1, <1>2
<1>4. caller'[g].phase = phase
  BY <1>1, <1>2
<1> QED
  BY <1>1, <1>2, <1>3, <1>4 DEF CallersFine, AInv, BegunIsKnown, RemoteMoves

StreamFine ==
  /\ stream' \in [open : BOOLEAN, seq : 0..MaxSequence, seen : Seq(Ids)]
  /\ stream'.open => run.known

LEMMA StreamUnchanged ==
  ASSUME AInv, UNCHANGED stream
  PROVE  StreamFine
BY DEF StreamFine, AInv, ATypeOK, BegunIsKnown

ApproversFine ==
  /\ approver' \in [Approvers ->
       [phase : {"idle", "posting", "answered", "failed", "over"}, id : 0..MaxSequence]]
  /\ \A c \in Approvers : Listens(c)

LEMMA ApproversUnchanged ==
  ASSUME AInv, UNCHANGED approver
  PROVE  ApproversFine
BY DEF ApproversFine, AInv, ATypeOK, Listens

\* The starter goes on without making the Run known.
StarterFine ==
  /\ starter' \in [source : {"message", "progress_evaluation"},
                   phase : {"none", "reserved", "started", "refused", "watch", "over"}]
  /\ starter'.phase \in {"none", "reserved", "started", "refused"} =>
       starter.phase \in {"none", "reserved", "started", "refused"}
  /\ starter'.phase = "started" => remote'.status # "none"

LEMMA StarterUnchanged ==
  ASSUME AInv, UNCHANGED starter, RemoteMoves
  PROVE  StarterFine
BY DEF StarterFine, AInv, ATypeOK, BegunIsKnown, RemoteMoves

LEMMA StarterGoesOn ==
  ASSUME AInv
  PROVE  /\ StartOver => StarterFine
         /\ Start("refused") /\ starter.phase \in {"reserved", "started"} => StarterFine
         /\ Start("started") /\ starter.phase = "reserved" /\ remote'.status # "none" => StarterFine
<1>1. starter \in [source : {"message", "progress_evaluation"},
                   phase : {"none", "reserved", "started", "refused", "watch", "over"}]
  BY DEF AInv, ATypeOK
<1>2. StartOver => StarterFine
  BY DEF StartOver, StarterFine
<1>3. ASSUME Start("refused") PROVE starter' \in [source : {"message", "progress_evaluation"},
                   phase : {"refused"}]
  BY <1>1, <1>3 DEF Start
<1>4. ASSUME Start("started") PROVE starter' \in [source : {"message", "progress_evaluation"},
                   phase : {"started"}]
  BY <1>1, <1>4 DEF Start
<1> QED
  BY <1>2, <1>3, <1>4 DEF StarterFine

\* Every step but those that make the Run known is of this form.
LEMMA FineStep ==
  ASSUME AInv, RowsFine, RunFine, RemoteMoves, StarterFine, ApproversFine, CallersFine,
         StreamFine
  PROVE  AInv'
<1>1. ATypeOK'
  BY DEF ATypeOK, RowsFine, RunFine, RemoteMoves, RemoteRuns, StarterFine, ApproversFine,
         CallersFine, StreamFine, Ids
<1>2. BegunIsKnown'
  BY DEF BegunIsKnown, AInv, RunFine, RemoteMoves, StarterFine, CallersFine, StreamFine
<1> QED
  BY <1>1, <1>2, Composed DEF RemoteMoves, ApproversFine
\* Hermes, and the denials of an evaluation, change nothing of Core's.
LEMMA HermesKeeps ==
  ASSUME AInv, Hermes \/ DenyApprovals
  PROVE  AInv'
<1>1. UNCHANGED <<run, approval, starter, approver, caller, stream>>
  BY DEF Hermes, Begin, Ask, Finish, DenyApprovals
<1>2. RemoteMoves
  BY RemoteSteps DEF Hermes
<1> QED
  BY <1>1, <1>2, FineStep, RowsUnchanged, StarterUnchanged, ApproversUnchanged,
     CallersUnchanged, StreamUnchanged

\* The Run before it is known: it is reserved, accepted by Hermes and activated,
\* or given up.  Nobody has asked for an approval of it yet.
LEMMA StartingKeeps ==
  ASSUME AInv, \/ StartRefused \/ StartRemote \/ ActivateFails \/ StarterDies
  PROVE  AInv'
<1>1. UNCHANGED <<run, approval, approver, caller, stream>>
  BY DEF StartRefused, StartRemote, ActivateFails, StarterDies
<1>2. RemoteMoves
  BY RemoteSteps DEF StartRefused, StartRemote, ActivateFails, StarterDies
<1>3. StartRemote => remote'.status # "none"
  BY DEF StartRemote, AInv, ATypeOK
<1>4. StarterFine
  BY <1>3, StarterGoesOn DEF StartRefused, StartRemote, ActivateFails, StarterDies
<1> QED
  BY <1>1, <1>2, <1>4, FineStep, RowsUnchanged, ApproversUnchanged, CallersUnchanged,
     StreamUnchanged

LEMMA ReservationKeeps ==
  ASSUME AInv, \/ \E source \in Sources : ReserveRun(source)
               \/ ActivateRun \/ FailRunReservation
  PROVE  AInv'
<1>1. UNCHANGED <<approval, remote, approver, caller, stream>>
  BY DEF ReserveRun, ActivateRun, FailRunReservation
<1>2. /\ run \in [status : RunStatuses \cup {"absent"}, known : BOOLEAN]
      /\ starter \in [source : {"message", "progress_evaluation"},
                      phase : {"none", "reserved", "started", "refused", "watch", "over"}]
  BY DEF AInv, ATypeOK
<1>3. ~run.known /\ OpenRows = {} /\ ~stream.open
  BY DEF AInv, BegunIsKnown, ReserveRun, ActivateRun, FailRunReservation
<1>4. OpenRows' = {} /\ ~stream'.open
  BY <1>1, <1>3 DEF OpenRows, Ids
<1>5. /\ run' \in [status : RunStatuses \cup {"absent"}, known : BOOLEAN]
      /\ starter' \in [source : {"message", "progress_evaluation"},
                       phase : {"reserved", "watch", "over"}]
      /\ run'.known => run'.status # "absent" /\ remote.status # "none"
      /\ starter'.phase = "reserved" => ~run'.known
  <2>1. CASE \E source \in Sources : ReserveRun(source)
    BY <1>2, <1>3, <2>1, AgentConstants DEF ReserveRun, RunStatuses
  <2>2. CASE ActivateRun
    <3>1. run' = [run EXCEPT !.status = "running", !.known = TRUE] /\ remote.status # "none"
      BY <2>2 DEF ActivateRun, AInv, BegunIsKnown
    <3>2. run' \in [status : RunStatuses, known : BOOLEAN] /\ run'.status = "running"
      BY <1>2, <3>1 DEF RunStatuses
    <3>3. starter' \in [source : {"message", "progress_evaluation"}, phase : {"watch", "over"}]
      BY <1>2, <2>2 DEF ActivateRun, Start, StartOver
    <3> QED
      BY <3>1, <3>2, <3>3
  <2>3. CASE FailRunReservation
    BY <1>2, <1>3, <2>3 DEF FailRunReservation, StartOver, RunStatuses, TerminalRun
  <2> QED
    BY <2>1, <2>2, <2>3
<1>6. RemoteMoves /\ ApproversFine
  BY <1>1, RemoteSteps, ApproversUnchanged
<1>7. CallersFine
  BY <1>1, <1>6, CallersUnchanged
<1>8. RowsFine
  <2>1. \A i \in Ids : Kept(i) /\ Undisturbed(i)
    BY <1>1 DEF Kept, Undisturbed
  <2>2. approval' \in [Ids -> ApprovalRow] /\ NoApprovalIsForgotten'
    BY <1>1, <1>4 DEF AInv, ATypeOK, NoApprovalIsForgotten
  <2> QED
    BY <2>1, <2>2, KeptRowsStayOrdered DEF RowsFine
<1>9. ATypeOK'
  BY <1>1, <1>5, <1>6, <1>7, <1>8 DEF ATypeOK, RemoteMoves, RemoteRuns, RowsFine,
     ApproversFine, CallersFine, AInv, Ids
<1>10. BegunIsKnown'
  BY <1>1, <1>4, <1>5, <1>7 DEF BegunIsKnown, CallersFine
<1> QED
  BY <1>6, <1>8, <1>9, <1>10, Composed DEF RemoteMoves, ApproversFine

LEMMA CallingKeeps ==
  ASSUME AInv, NEW g \in Callers, Calling(g)
  PROVE  AInv'
<1>1. UNCHANGED <<approver, stream>>
  BY DEF Calling, PollEvaluation, AbandonEvaluation, ReadRun, FetchRun, StopRun, StoreCall, CallFails
<1>2. RemoteMoves
  BY RemoteSteps
  DEF Calling, PollEvaluation, AbandonEvaluation, ReadRun, FetchRun, StopRun, StoreCall, CallFails
<1>3. StarterFine
  BY <1>2, StarterUnchanged, StarterGoesOn
  DEF Calling, PollEvaluation, AbandonEvaluation, ReadRun, FetchRun, StopRun, StoreCall, CallFails
<1>4. caller[g].status \in RunStatuses
      /\ (caller[g].phase = "fetch" \/ Reported \in TerminalRun => Reported \in RunStatuses)
  <2>1. remote.status # "none" => Reported \in RunStatuses
    BY DEF AInv, ATypeOK, Reported, RunStatuses, TerminalRun, LiveRemote, Ended
  <2> QED
    BY <2>1 DEF AInv, ATypeOK, BegunIsKnown, RunStatuses
<1>5. RowsFine /\ RunFine
  <2>1. CASE StoreCall(g)
    BY <1>4, <2>1, UpdateRunKeeps DEF StoreCall
  <2>2. CASE ~StoreCall(g)
    BY <2>2, RowsUnchanged
    DEF Calling, PollEvaluation, AbandonEvaluation, ReadRun, FetchRun, StopRun, CallFails
  <2> QED
    BY <2>1, <2>2
<1>6. CallersFine
  <2>1. "queued" \in RunStatuses /\ "failed" \in RunStatuses /\ "stopping" \in RunStatuses
        /\ "stopped" \in RunStatuses
    BY DEF RunStatuses, TerminalRun
  <2>2. CASE PollEvaluation(g)
    BY <1>2, <1>4, <2>2, CallKeeps DEF PollEvaluation
  <2>3. CASE AbandonEvaluation(g)
    BY <1>2, <2>1, <2>3, CallKeeps DEF AbandonEvaluation
  <2>4. CASE ReadRun(g)
    <3>1. run.status \in RunStatuses /\ remote.status # "none"
      BY <2>4 DEF ReadRun, AInv, ATypeOK, BegunIsKnown
    <3> QED
      BY <1>2, <2>4, <3>1, CallKeeps DEF ReadRun, RemoteMoves
  <2>5. CASE FetchRun(g)
    BY <1>2, <1>4, <2>1, <2>5, CallKeeps DEF FetchRun
  <2>6. CASE StopRun(g)
    BY <1>2, <2>1, <2>6, CallKeeps, CallersUnchanged DEF StopRun
  <2>7. CASE StoreCall(g) \/ CallFails(g)
    BY <1>2, <2>1, <2>7, CallKeeps DEF StoreCall, CallFails
  <2> QED
    BY <2>2, <2>3, <2>4, <2>5, <2>6, <2>7 DEF Calling
<1> QED
  BY <1>1, <1>2, <1>3, <1>5, <1>6, FineStep, ApproversUnchanged, StreamUnchanged
LEMMA StreamingKeeps ==
  ASSUME AInv, Streaming
  PROVE  AInv'
<1>1. UNCHANGED <<starter, approver, caller>>
  BY DEF Streaming, Connect, ReceiveRequest, ReceiveResponse, ReceiveStatus, Receive,
         ReceiveError, Disconnect
<1>2. RemoteMoves
  BY RemoteSteps DEF Streaming, Connect, ReceiveRequest, ReceiveResponse, ReceiveStatus, Receive,
         ReceiveError, Disconnect
<1>3. stream \in [open : BOOLEAN, seq : 0..MaxSequence, seen : Seq(Ids)]
      /\ MaxSequence \in Nat
  BY AgentConstants DEF AInv, ATypeOK
<1>4. ~run.known => ~stream.open
  BY DEF AInv, BegunIsKnown
<1>5. RowsFine /\ RunFine
  <2>1. CASE Connect \/ Disconnect
    BY <2>1, RowsUnchanged DEF Connect, Disconnect
  <2>2. CASE ReceiveRequest
    <3>1. PICK seq \in (stream.seq + 1)..MaxSequence : RecordApproval(seq)
      BY <2>2 DEF ReceiveRequest
    <3>2. seq \in Ids /\ run.known
      BY <1>3, <1>4, <2>2 DEF Ids, ReceiveRequest, Receive, AInv, ATypeOK
    <3> QED
      BY <3>1, <3>2, RecordApprovalKeeps
  <2>3. CASE ReceiveResponse
    BY <2>3, ResponsesKeep DEF ReceiveResponse
  <2>4. CASE ReceiveStatus
    <3>1. PICK event \in {"started"} \cup Ended : UpdateRun(EventRunStatus(event))
      BY <2>4 DEF ReceiveStatus
    <3>2. EventRunStatus(event) \in RunStatuses
      BY DEF EventRunStatus, RunStatuses, TerminalRun, Ended
    <3> QED
      BY <3>1, <3>2, UpdateRunKeeps
  <2>5. CASE ReceiveError
    BY <2>5, UpdateRunKeeps DEF ReceiveError, RunStatuses, TerminalRun
  <2> QED
    BY <2>1, <2>2, <2>3, <2>4, <2>5 DEF Streaming
<1>6. StreamFine
  <2>1. NoStream \in [open : BOOLEAN, seq : 0..MaxSequence, seen : Seq(Ids)] /\ ~NoStream.open
    BY <1>3 DEF NoStream
  <2>2. CASE Connect
    BY <2>1, <2>2 DEF Connect, StreamFine
  <2>3. CASE Disconnect
    BY <2>1, <2>3 DEF Disconnect, StreamFine
  <2>4. CASE ReceiveRequest
    <3>1. PICK seq \in (stream.seq + 1)..MaxSequence :
            stream' = [stream EXCEPT !.seq = seq, !.seen = Append(@, seq)]
      BY <2>4 DEF ReceiveRequest
    <3>2. seq \in Ids /\ seq \in 0..MaxSequence /\ Append(stream.seen, seq) \in Seq(Ids)
      BY <1>3 DEF Ids
    <3>3. stream' \in [open : BOOLEAN, seq : 0..MaxSequence, seen : Seq(Ids)]
          /\ stream'.open = stream.open
      BY <1>3, <3>1, <3>2
    <3> QED
      BY <1>4, <3>3 DEF StreamFine, AInv, ATypeOK
  <2>5. CASE ReceiveResponse /\ stream.seen # <<>>
    <3>1. Tail(stream.seen) \in Seq(Ids) /\ stream' = [stream EXCEPT !.seen = Tail(@)]
      BY <1>3, <2>5 DEF ReceiveResponse
    <3>2. stream' \in [open : BOOLEAN, seq : 0..MaxSequence, seen : Seq(Ids)]
          /\ stream'.open = stream.open
      BY <1>3, <3>1
    <3> QED
      BY <1>4, <3>2 DEF StreamFine, AInv, ATypeOK
  <2>6. CASE (ReceiveResponse /\ stream.seen = <<>>) \/ ReceiveStatus \/ ReceiveError
    BY <2>6, StreamUnchanged DEF ReceiveResponse, ReceiveStatus, ReceiveError
  <2> QED
    BY <2>2, <2>3, <2>4, <2>5, <2>6 DEF Streaming
<1> QED
  BY <1>1, <1>2, <1>5, <1>6, FineStep, StarterUnchanged, ApproversUnchanged, CallersUnchanged

LEMMA LeaseKeeps ==
  ASSUME AInv, NEW i \in Ids, LeaseRunsOut(i)
  PROVE  AInv'
<1>1. UNCHANGED <<run, remote, starter, approver, caller, stream>>
      /\ approval[i].status = "responding" /\ approver[approval[i].claim].phase # "posting"
      /\ approval' = [approval EXCEPT ![i].stale = TRUE]
  BY DEF LeaseRunsOut
<1>2. approval[i] \in ApprovalRow /\ i \in OpenRows /\ Oldest(i)
  BY <1>1 DEF AInv, ATypeOK, OnlyTheOldestIsClaimed, Oldest
<1>3. \A c \in Approvers : approver[c].phase = "posting" => approver[c].id # i
  BY <1>1 DEF AInv, VoicesClaim, Claims
<1>4. RowsFine /\ RunFine
  <2> DEFINE row == [approval[i] EXCEPT !.stale = TRUE]
  <2>1. approval' = [approval EXCEPT ![i] = row]
    BY <1>1
  <2>2. row \in ApprovalRow /\ row.order = approval[i].order /\ row.status \in OpenStatuses
    BY <1>1, <1>2 DEF ApprovalRow, OpenStatuses
  <2> HIDE DEF row
  <2> QED
    BY <1>1, <1>2, <1>3, <2>1, <2>2, ClaimsKeep
<1>5. RemoteMoves
  BY <1>1, RemoteSteps
<1> QED
  BY <1>1, <1>4, <1>5, FineStep, StarterUnchanged, ApproversUnchanged, CallersUnchanged,
     StreamUnchanged
LEMMA BecomeFine ==
  ASSUME AInv, NEW c \in Approvers, NEW phase \in {"answered", "failed", "over"},
         Become(c, phase), phase = "over" \/ approver[c].phase = "posting"
  PROVE  ApproversFine
<1> DEFINE id == IF phase = "over" THEN 0 ELSE approver[c].id
<1>1. approver \in [Approvers ->
        [phase : {"idle", "posting", "answered", "failed", "over"}, id : 0..MaxSequence]]
      /\ MaxSequence \in Nat
  BY AgentConstants DEF AInv, ATypeOK
<1>2. id \in 0..MaxSequence /\ approver' = [approver EXCEPT ![c] = [phase |-> phase, id |-> id]]
  BY <1>1 DEF Become
<1>3. approver'[c] = [phase |-> phase, id |-> id]
      /\ \A d \in Approvers \ {c} : approver'[d] = approver[d]
  BY <1>1, <1>2
<1>4. \A d \in Approvers : Listens(d)
  BY <1>3 DEF Listens
<1> QED
  BY <1>1, <1>2, <1>4 DEF ApproversFine

\* A claim is taken up when nobody has one that is alive, so by one at a time.
LEMMA ClaimKeeps ==
  ASSUME AInv, NEW c \in Approvers, NEW i \in Ids, ClaimRunApproval(c, i)
  PROVE  AInv'
<1> DEFINE row == [approval[i] EXCEPT !.status = "responding", !.claim = c, !.stale = FALSE]
<1>1. UNCHANGED <<run, remote, starter, caller, stream>>
      /\ Oldest(i) /\ i \in OpenRows /\ (approval[i].status = "pending" \/ approval[i].stale)
      /\ approver' = [approver EXCEPT ![c] = [phase |-> "posting", id |-> i]]
  BY DEF ClaimRunApproval, Claimable, Oldest
<1>2. approval \in [Ids -> ApprovalRow] /\ MaxSequence \in Nat
      /\ approver \in [Approvers ->
           [phase : {"idle", "posting", "answered", "failed", "over"}, id : 0..MaxSequence]]
  BY AgentConstants DEF AInv, ATypeOK
<1>3. approval' = [approval EXCEPT ![i] = row]
  BY <1>2 DEF ClaimRunApproval
<1>4. row \in ApprovalRow /\ row.order = approval[i].order /\ row.status \in OpenStatuses
      /\ row.status = "responding" /\ Claims(c, row)
  BY <1>2 DEF ApprovalRow, OpenStatuses, Claims
<1> HIDE DEF row
<1>5. \A d \in Approvers : approver[d].phase = "posting" => approver[d].id # i
  BY <1>1 DEF AInv, VoicesClaim, Claims, OpenRows, OpenStatuses
<1>6. RowsFine /\ RunFine
  BY <1>1, <1>3, <1>4, <1>5, ClaimsKeep
<1>7. approver'[c] = [phase |-> "posting", id |-> i]
      /\ \A d \in Approvers \ {c} : approver'[d] = approver[d]
  BY <1>1, <1>2
<1>8. OneVoice'
  BY <1>5, <1>7 DEF AInv, OneVoice
<1>9. VoicesClaim'
  <2> SUFFICES ASSUME NEW d \in Approvers
               PROVE  /\ approver'[d].phase \in {"posting", "answered", "failed"}
                           => approver'[d].id \in Ids
                      /\ approver'[d].phase = "posting" =>
                           \/ Claims(d, approval'[approver'[d].id])
                           \/ approval'[approver'[d].id].status \in {"resolved", "expired"}
    BY DEF VoicesClaim, Ids
  <2>1. CASE d = c
    BY <1>2, <1>3, <1>4, <1>7, <2>1
  <2>2. CASE d # c
    <3>1. approver'[d] = approver[d]
      BY <1>7, <2>2
    <3>2. approver[d].phase = "posting" =>
            approver[d].id \in Ids /\ approval'[approver[d].id] = approval[approver[d].id]
      BY <1>2, <1>3, <1>5 DEF AInv, VoicesClaim
    <3> QED
      BY <3>1, <3>2 DEF AInv, VoicesClaim
  <2> QED
    BY <2>1, <2>2
<1>10. approver' \in [Approvers ->
         [phase : {"idle", "posting", "answered", "failed", "over"}, id : 0..MaxSequence]]
  <2>1. [phase |-> "posting", id |-> i] \in
          [phase : {"idle", "posting", "answered", "failed", "over"}, id : 0..MaxSequence]
    BY <1>2 DEF Ids
  <2> QED
    BY <1>1, <1>2, <2>1
<1>11. ATypeOK'
  BY <1>1, <1>6, <1>10 DEF ATypeOK, AInv, RowsFine, Ids
<1>12. AnswersFollow' /\ BegunIsKnown'
  BY <1>1, <1>6 DEF AInv, AnswersFollow, BegunIsKnown, RunFine
<1> QED
  BY <1>6, <1>8, <1>9, <1>11, <1>12 DEF AInv, RowsFine

LEMMA ApprovingKeeps ==
  ASSUME AInv, NEW c \in Approvers, Approving(c)
  PROVE  AInv'
<1>1. CASE \E i \in Ids : ClaimRunApproval(c, i)
  BY <1>1, ClaimKeeps
<1>2. CASE PostApproval(c) \/ PostFails(c) \/ ApproverDies(c)
  <2>1. UNCHANGED <<run, approval, starter, caller, stream>>
    BY <1>2 DEF PostApproval, PostFails, ApproverDies
  <2>2. RemoteMoves
    BY <1>2, RemoteSteps DEF PostApproval, PostFails, ApproverDies
  <2>3. ApproversFine
    BY <1>2, BecomeFine DEF PostApproval, PostFails, ApproverDies
  <2> QED
    BY <2>1, <2>2, <2>3, FineStep, RowsUnchanged, StarterUnchanged, CallersUnchanged,
       StreamUnchanged
<1>3. ASSUME ReleaseRunApprovalClaim(c) \/ CompleteRunApproval(c) PROVE AInv'
  <2> DEFINE i == approver[c].id
             row == [approval[i] EXCEPT !.status = "pending", !.claim = NoApprover,
                                        !.stale = FALSE]
  <2>1. UNCHANGED <<remote, starter, caller, stream>> /\ Become(c, "over")
        /\ approver[c].phase \in {"answered", "failed"}
    BY <1>3 DEF ReleaseRunApprovalClaim, CompleteRunApproval
  <2>2. i \in Ids /\ approval[i] \in ApprovalRow
    BY <2>1 DEF AInv, VoicesClaim, ATypeOK
  <2>3. RowsFine /\ RunFine
    <3>1. CASE UNCHANGED <<run, approval>>
      BY <3>1, RowsUnchanged
    <3>2. CASE CompleteRunApproval(c) /\ Holds(c) /\ Resolve(i)
      <4>1. i \in OpenRows
        BY <2>2, <3>2 DEF Holds, OpenRows, OpenStatuses
      <4> QED
        BY <3>2, <4>1, ResolveKeeps
    <3>3. CASE ReleaseRunApprovalClaim(c) /\ Holds(c)
      <4>1. UNCHANGED run /\ approval' = [approval EXCEPT ![i] = row]
            /\ approval[i].status = "responding" /\ approval[i].claim = c
        BY <2>2, <3>3 DEF ReleaseRunApprovalClaim, Holds, AInv, ATypeOK
      <4>2. row \in ApprovalRow /\ row.order = approval[i].order /\ row.status = "pending"
        BY <2>2 DEF ApprovalRow, OpenStatuses
      <4>3. i \in OpenRows
        BY <2>2, <4>1 DEF OpenRows, OpenStatuses
      <4>4. \A d \in Approvers : approver[d].phase = "posting" => approver[d].id # i
        BY <2>1, <4>1 DEF AInv, VoicesClaim, Claims
      <4> HIDE DEF row
      <4> QED
        BY <4>1, <4>2, <4>3, <4>4, ClaimsKeep DEF OpenStatuses
    <3> QED
      BY <1>3, <3>1, <3>2, <3>3 DEF ReleaseRunApprovalClaim, CompleteRunApproval
  <2>4. RemoteMoves /\ ApproversFine
    BY <2>1, RemoteSteps, BecomeFine
  <2> QED
    BY <2>1, <2>3, <2>4, FineStep, StarterUnchanged, CallersUnchanged, StreamUnchanged
<1> QED
  BY <1>1, <1>2, <1>3 DEF Approving

-----------------------------------------------------------------------------
(* The theorems *)

LEMMA AgentInvariant == ASpec => []AInv
<1>1. AInit => AInv
  <2> SUFFICES ASSUME AInit PROVE AInv
    OBVIOUS
  <2>1. approval \in [Ids -> ApprovalRow] /\ \A i \in Ids : approval[i].status = "absent"
    BY DEF AInit, ApprovalRow
  <2>2. Recorded = {} /\ OpenRows = {}
    BY <2>1 DEF Recorded, OpenRows, OpenStatuses
  <2>3. ATypeOK
    <3>1. remote \in [status : LiveRemote \cup Ended \cup {"none"}, asked : 0..MaxRequests,
                      answered : 0..MaxRequests, events : Seq(Events)]
      BY AgentConstants DEF AInit
    <3>2. stream \in [open : BOOLEAN, seq : 0..MaxSequence, seen : Seq(Ids)]
      BY AgentConstants DEF AInit, NoStream
    <3>3. run \in [status : RunStatuses \cup {"absent"}, known : BOOLEAN]
          /\ starter \in [source : {"message", "progress_evaluation"},
               phase : {"none", "reserved", "started", "refused", "watch", "over"}]
      BY DEF AInit
    <3>4. approver \in [Approvers ->
            [phase : {"idle", "posting", "answered", "failed", "over"}, id : 0..MaxSequence]]
      BY AgentConstants DEF AInit
    <3>5. caller \in [Callers -> [phase : {"idle", "fetch", "update"}, status : RunStatuses]]
      BY DEF AInit, RunStatuses
    <3> QED
      BY <2>1, <3>1, <3>2, <3>3, <3>4, <3>5 DEF ATypeOK
  <2>4. AnswersFollow /\ BegunIsKnown
    BY <2>2 DEF AInit, AnswersFollow, BegunIsKnown, NoStream
  <2>5. RowsOrdered /\ NoApprovalIsForgotten /\ OnlyTheOldestIsClaimed
    BY <2>1, <2>2 DEF RowsOrdered, NoApprovalIsForgotten, OnlyTheOldestIsClaimed
  <2>6. VoicesClaim /\ OneVoice
    BY DEF AInit, VoicesClaim, OneVoice
  <2> QED
    BY <2>3, <2>4, <2>5, <2>6 DEF AInv
<1>2. AInv /\ [ANext]_agentVars => AInv'
  <2> SUFFICES ASSUME AInv, [ANext]_agentVars PROVE AInv'
    OBVIOUS
  <2>1. CASE Hermes \/ Starting
    BY <2>1, HermesKeeps, StartingKeeps, ReservationKeeps DEF Starting
  <2>2. CASE \E c \in Approvers : Approving(c)
    BY <2>2, ApprovingKeeps
  <2>3. CASE \E i \in Ids : LeaseRunsOut(i)
    BY <2>3, LeaseKeeps
  <2>4. CASE \E g \in Callers : Calling(g)
    BY <2>4, CallingKeeps
  <2>5. CASE Streaming
    BY <2>5, StreamingKeeps
  <2>6. CASE UNCHANGED agentVars
    BY <2>6, FineStep, RowsUnchanged, RemoteSteps, StarterUnchanged, ApproversUnchanged,
       CallersUnchanged, StreamUnchanged DEF agentVars
  <2> QED
    BY <2>1, <2>2, <2>3, <2>4, <2>5, <2>6 DEF ANext
<1> QED
  BY <1>1, <1>2, PTL DEF ASpec
\* Every variable keeps its type.
THEOREM AgentsTypeCorrect == ASpec => []ATypeOK
BY AgentInvariant, PTL DEF AInv

\* A Run with an open approval is never shown as running or as ended, whatever
\* late status, late event or answer beside it is stored (UpdateRun,
\* RecordRunApproval, updateRunAfterApprovalResolution, ReserveRun to
\* FailRunReservation).
THEOREM ApprovalsAreRemembered == ASpec => []NoApprovalIsForgotten
BY AgentInvariant, PTL DEF AInv

\* A claim is held of the oldest open approval only, although new ones are
\* recorded and others are closed while it is held (ClaimRunApproval).
THEOREM ClaimsAreInOrder == ASpec => []OnlyTheOldestIsClaimed
BY AgentInvariant, PTL DEF AInv

\* No two rows have one approval_order, so of all approvals at most one is
\* claimed: RecordRunApproval counts the rows in the transaction that adds one.
THEOREM OneClaimAtATime ==
  ASpec => [](\A i, j \in Ids :
                approval[i].status = "responding" /\ approval[j].status = "responding" => i = j)
<1>1. ASSUME AInv, NEW i \in Ids, NEW j \in Ids,
             approval[i].status = "responding", approval[j].status = "responding"
      PROVE  i = j
  <2>1. Oldest(i) /\ Oldest(j)
    BY <1>1 DEF AInv, OnlyTheOldestIsClaimed
  <2>2. approval[i].order \in Nat /\ approval[j].order \in Nat
    BY <1>1 DEF AInv, ATypeOK, ApprovalRow
  <2>3. approval[i].order = approval[j].order
    BY <2>1, <2>2 DEF Oldest
  <2> QED
    BY <1>1, <2>3 DEF AInv, RowsOrdered, Recorded
<1>2. AInv => \A i, j \in Ids :
        approval[i].status = "responding" /\ approval[j].status = "responding" => i = j
  BY <1>1
<1> QED
  BY <1>2, AgentInvariant, PTL

\* At most one request at a time sends Hermes an answer to an approval: who
\* sends one has its claim, which nobody takes over before the lease is over
\* (ApproveRun between ClaimRunApproval and its second transaction).
THEOREM AnswersHaveOneVoice == ASpec => []OneVoice
BY AgentInvariant, PTL DEF AInv

-----------------------------------------------------------------------------
(* The queue that people see: five kinds of steps, by what they do to the  *)
(* statuses and orders of the rows and to the answers on their way.        *)

Shown(i) ==
  approval'[i].status = approval[i].status /\ approval'[i].order = approval[i].order

OthersShown(i) == \A k \in Ids \ {i} : Shown(k)

\* Rows stay; at most an answer is not on its way any more.
Silent ==
  /\ \A i \in Ids : Shown(i)
  /\ \/ UNCHANGED AnswersOnTheirWay
     \/ \E c \in Approvers : AnswersOnTheirWay' = {s \in AnswersOnTheirWay : s[1] # c}

Closing(closed) ==
  /\ closed \subseteq OpenRows
  /\ \A i \in closed : approval'[i].status \in {"resolved", "expired"}
                       /\ approval'[i].order = approval[i].order
  /\ \A i \in Ids \ closed : Shown(i)
  /\ UNCHANGED AnswersOnTheirWay

Recording(i) ==
  /\ approval[i].status = "absent" /\ approval'[i].status = "pending"
  /\ approval'[i].order = Cardinality(Recorded) + 1
  /\ OthersShown(i) /\ UNCHANGED AnswersOnTheirWay

Claiming(c, i) ==
  /\ Claimable(i) /\ approver[c].phase = "idle"
  /\ approval'[i].status = "responding" /\ approval'[i].order = approval[i].order
  /\ OthersShown(i) /\ AnswersOnTheirWay' = AnswersOnTheirWay \cup {<<c, i>>}

Releasing(i) ==
  /\ approval[i].status = "responding"
  /\ \A c \in Approvers : approver[c].phase = "posting" => approver[c].id # i
  /\ approval'[i].status = "pending" /\ approval'[i].order = approval[i].order
  /\ OthersShown(i) /\ UNCHANGED AnswersOnTheirWay

KindOfStep ==
  \/ Silent
  \/ \E closed \in SUBSET Ids : Closing(closed)
  \/ \E i \in Ids : Recording(i) \/ Releasing(i) \/ \E c \in Approvers : Claiming(c, i)

\* Who is not sending, before and after, changes nothing of what is on its way.
LEMMA NobodySends ==
  ASSUME AInv, NEW c \in Approvers, approver[c].phase # "posting",
         NEW r, r.phase # "posting", approver' = [approver EXCEPT ![c] = r]
  PROVE  UNCHANGED AnswersOnTheirWay
<1>1. \A d \in Approvers : d # c => approver'[d] = approver[d]
  BY DEF AInv, ATypeOK
<1>2. approver'[c] = r
  BY DEF AInv, ATypeOK
<1>3. {d \in Approvers : approver'[d].phase = "posting"} =
      {d \in Approvers : approver[d].phase = "posting"}
  BY <1>1, <1>2
<1> QED
  BY <1>1, <1>2, <1>3 DEF AnswersOnTheirWay

LEMMA AnswerEnds ==
  ASSUME AInv, NEW c \in Approvers, NEW r, r.phase # "posting",
         approver' = [approver EXCEPT ![c] = r]
  PROVE  AnswersOnTheirWay' = {s \in AnswersOnTheirWay : s[1] # c}
<1>1. \A d \in Approvers : approver'[d] = IF d = c THEN r ELSE approver[d]
  BY DEF AInv, ATypeOK
<1>2. ASSUME NEW s, s \in AnswersOnTheirWay'
      PROVE  s \in AnswersOnTheirWay /\ s[1] # c
  <2>1. PICK d \in Approvers : approver'[d].phase = "posting" /\ s = <<d, approver'[d].id>>
    BY <1>2 DEF AnswersOnTheirWay
  <2>2. d # c /\ approver'[d] = approver[d]
    BY <1>1, <2>1
  <2> QED
    BY <2>1, <2>2 DEF AnswersOnTheirWay
<1>3. ASSUME NEW s \in AnswersOnTheirWay, s[1] # c
      PROVE  s \in AnswersOnTheirWay'
  <2>1. PICK d \in Approvers : approver[d].phase = "posting" /\ s = <<d, approver[d].id>>
    BY <1>3 DEF AnswersOnTheirWay
  <2>2. approver'[d] = approver[d]
    BY <1>1, <1>3, <2>1
  <2> QED
    BY <2>1, <2>2 DEF AnswersOnTheirWay
<1> QED
  BY <1>2, <1>3

LEMMA AnswerBegins ==
  ASSUME AInv, NEW c \in Approvers, approver[c].phase = "idle", NEW i,
         approver' = [approver EXCEPT ![c] = [phase |-> "posting", id |-> i]]
  PROVE  AnswersOnTheirWay' = AnswersOnTheirWay \cup {<<c, i>>}
<1>1. /\ \A d \in Approvers : d # c => approver'[d] = approver[d]
      /\ approver'[c].phase = "posting" /\ approver'[c].id = i
  BY DEF AInv, ATypeOK
<1>2. ASSUME NEW s, s \in AnswersOnTheirWay'
      PROVE  s \in AnswersOnTheirWay \cup {<<c, i>>}
  <2>1. PICK d \in Approvers : approver'[d].phase = "posting" /\ s = <<d, approver'[d].id>>
    BY <1>2 DEF AnswersOnTheirWay
  <2> QED
    BY <1>1, <2>1 DEF AnswersOnTheirWay
<1>3. ASSUME NEW s \in AnswersOnTheirWay
      PROVE  s \in AnswersOnTheirWay'
  <2>1. PICK d \in Approvers : approver[d].phase = "posting" /\ s = <<d, approver[d].id>>
    BY <1>3 DEF AnswersOnTheirWay
  <2> QED
    BY <1>1, <2>1 DEF AnswersOnTheirWay
<1>4. <<c, i>> \in AnswersOnTheirWay'
  BY <1>1 DEF AnswersOnTheirWay
<1> QED
  BY <1>2, <1>3, <1>4

\* What the transactions of the store do to the rows.
LEMMA StoreCloses ==
  ASSUME AInv, UNCHANGED AnswersOnTheirWay
  PROVE  /\ UNCHANGED approval => Silent
         /\ \A status : UpdateRun(status) => \E closed \in SUBSET Ids : Closing(closed)
         /\ \A i \in OpenRows : Resolve(i) => \E closed \in SUBSET Ids : Closing(closed)
<1>1. approval \in [Ids -> ApprovalRow] /\ OpenRows \subseteq Ids
  BY DEF AInv, ATypeOK, OpenRows
<1>2. UNCHANGED approval => Silent
  BY DEF Silent, Shown
<1>3. ASSUME NEW status, UpdateRun(status) PROVE \E closed \in SUBSET Ids : Closing(closed)
  <2> DEFINE S == IF status \in TerminalRun THEN OpenRows ELSE {}
  <2>1. \A i \in Ids : approval'[i] = IF i \in S THEN Expired(approval[i]) ELSE approval[i]
    BY <1>3 DEF UpdateRun
  <2>2. S \subseteq OpenRows /\ S \in SUBSET Ids
    BY <1>1
  <2>3. \A i \in Ids : Expired(approval[i]).status = "expired"
                       /\ Expired(approval[i]).order = approval[i].order
    BY <1>1 DEF Expired, ApprovalRow
  <2> HIDE DEF S
  <2>4. Closing(S)
    BY <2>1, <2>2, <2>3 DEF Closing, Shown
  <2> QED
    BY <2>2, <2>4
<1>4. ASSUME NEW i \in OpenRows, Resolve(i) PROVE \E closed \in SUBSET Ids : Closing(closed)
  <2> DEFINE row == [Expired(approval[i]) EXCEPT !.status = "resolved"]
  <2>1. row.status = "resolved" /\ row.order = approval[i].order
    BY <1>1 DEF Expired, ApprovalRow
  <2>2. approval' = [approval EXCEPT ![i] = row]
    BY <1>4 DEF Resolve
  <2> HIDE DEF row
  <2>3. approval'[i] = row /\ \A k \in Ids \ {i} : approval'[k] = approval[k]
    BY <1>1, <2>2
  <2>4. Closing({i})
    BY <2>1, <2>3 DEF Closing, Shown
  <2> QED
    BY <1>1, <2>4
<1> QED
  BY <1>2, <1>3, <1>4

LEMMA ApprovingKinds ==
  ASSUME AInv, NEW c \in Approvers, Approving(c) PROVE KindOfStep
<1>1. approval \in [Ids -> ApprovalRow] /\ approver[c].id \in 0..MaxSequence
  BY DEF AInv, ATypeOK
<1>2. CASE \E i \in Ids : ClaimRunApproval(c, i)
  <2>1. PICK i \in Ids : ClaimRunApproval(c, i)
    BY <1>2
  <2>2. /\ Claimable(i) /\ approver[c].phase = "idle"
        /\ approver' = [approver EXCEPT ![c] = [phase |-> "posting", id |-> i]]
        /\ approval' = [approval EXCEPT ![i].status = "responding", ![i].claim = c,
                                        ![i].stale = FALSE]
    BY <2>1 DEF ClaimRunApproval
  <2>3. /\ approval'[i].status = "responding" /\ approval'[i].order = approval[i].order
        /\ OthersShown(i)
    BY <1>1, <2>2 DEF OthersShown, Shown, ApprovalRow
  <2>4. Claiming(c, i)
    BY <2>2, <2>3, AnswerBegins DEF Claiming
  <2> QED
    BY <2>4 DEF KindOfStep
<1>3. CASE PostApproval(c) \/ PostFails(c) \/ ApproverDies(c)
  <2>1. /\ UNCHANGED approval
        /\ Become(c, "answered") \/ Become(c, "failed") \/ Become(c, "over")
    BY <1>3 DEF PostApproval, PostFails, ApproverDies
  <2>2. \E r : r.phase # "posting" /\ approver' = [approver EXCEPT ![c] = r]
    BY <2>1 DEF Become
  <2>3. AnswersOnTheirWay' = {s \in AnswersOnTheirWay : s[1] # c}
    BY <2>2, AnswerEnds
  <2> QED
    BY <2>1, <2>3 DEF KindOfStep, Silent, Shown
<1>4. CASE ReleaseRunApprovalClaim(c) \/ CompleteRunApproval(c)
  <2>1. approver[c].phase \in {"failed", "answered"} /\ Become(c, "over")
    BY <1>4 DEF ReleaseRunApprovalClaim, CompleteRunApproval
  <2>2. UNCHANGED AnswersOnTheirWay
    BY <2>1, NobodySends DEF Become
  <2>3. approver[c].id \in Ids
    BY <2>1 DEF AInv, VoicesClaim
  <2>4. CASE UNCHANGED approval
    BY <2>2, <2>4, StoreCloses DEF KindOfStep
  <2>5. CASE Holds(c) /\ Resolve(approver[c].id)
    <3>1. approver[c].id \in OpenRows
      BY <2>3, <2>5 DEF Holds, OpenRows, OpenStatuses
    <3> QED
      BY <2>2, <2>5, <3>1, StoreCloses DEF KindOfStep
  <2>6. CASE Holds(c) /\ ReleaseRunApprovalClaim(c)
    <3>1. PICK i \in Ids : i = approver[c].id
      BY <2>3
    <3>2. /\ approval[i].status = "responding" /\ approval[i].claim = c
          /\ approval' = [approval EXCEPT ![i].status = "pending", ![i].claim = NoApprover,
                                          ![i].stale = FALSE]
      BY <2>6, <3>1 DEF Holds, ReleaseRunApprovalClaim
    <3>3. approval'[i].status = "pending" /\ approval'[i].order = approval[i].order
          /\ OthersShown(i)
      BY <1>1, <3>2 DEF OthersShown, Shown, ApprovalRow
    <3>4. ASSUME NEW d \in Approvers, approver[d].phase = "posting" PROVE approver[d].id # i
      BY <2>1, <3>2, <3>4 DEF AInv, VoicesClaim, Claims
    <3>5. Releasing(i)
      BY <2>2, <3>2, <3>3, <3>4 DEF Releasing
    <3> QED
      BY <3>5 DEF KindOfStep
  <2> QED
    BY <1>4, <2>4, <2>5, <2>6 DEF ReleaseRunApprovalClaim, CompleteRunApproval
<1> QED
  BY <1>2, <1>3, <1>4 DEF Approving

LEMMA StreamingKinds ==
  ASSUME AInv, Streaming PROVE KindOfStep
<1>1. approval \in [Ids -> ApprovalRow] /\ stream.seq \in Nat
  BY DEF AInv, ATypeOK
<1>2. UNCHANGED AnswersOnTheirWay
  BY DEF Streaming, Connect, ReceiveRequest, ReceiveResponse, ReceiveStatus, ReceiveError,
     Disconnect, Receive, AnswersOnTheirWay
<1>3. CASE ReceiveRequest
  <2>1. PICK i \in Ids : RecordApproval(i)
    BY <1>1, <1>3, AgentConstants DEF ReceiveRequest, Ids
  <2>2. CASE UNCHANGED approval
    BY <1>2, <2>2, StoreCloses DEF KindOfStep
  <2>3. CASE approval' # approval
    <3>1. /\ approval[i].status = "absent"
          /\ approval' = [approval EXCEPT ![i] =
               [status |-> "pending", claim |-> NoApprover, stale |-> FALSE,
                order |-> 1 + Cardinality(Recorded)]]
      BY <2>1, <2>3 DEF RecordApproval, Recorded
    <3>2. Cardinality(Recorded) \in Nat
      BY <3>1, RowsAreCounted DEF Recorded
    <3>3. Recording(i)
      BY <1>1, <1>2, <3>1, <3>2 DEF Recording, OthersShown, Shown
    <3> QED
      BY <3>3 DEF KindOfStep
  <2> QED
    BY <2>2, <2>3
<1>4. CASE ReceiveResponse
  <2>1. UNCHANGED approval \/ \E i \in OpenRows : Resolve(i)
    BY <1>4 DEF ReceiveResponse, ApplyResponse, ApplyNextResponse, Oldest
  <2> QED
    BY <1>2, <2>1, StoreCloses DEF KindOfStep
<1>5. CASE ReceiveStatus \/ ReceiveError
  <2>1. \E status : UpdateRun(status)
    BY <1>5 DEF ReceiveStatus, ReceiveError
  <2> QED
    BY <1>2, <2>1, StoreCloses DEF KindOfStep
<1>6. CASE Connect \/ Disconnect
  <2>1. UNCHANGED approval
    BY <1>6 DEF Connect, Disconnect
  <2> QED
    BY <1>2, <2>1, StoreCloses DEF KindOfStep
<1> QED
  BY <1>3, <1>4, <1>5, <1>6 DEF Streaming

LEMMA KindsOfSteps ==
  ASSUME AInv, [ANext]_agentVars PROVE KindOfStep
<1>1. approval \in [Ids -> ApprovalRow]
  BY DEF AInv, ATypeOK
<1>2. ASSUME UNCHANGED approver, UNCHANGED approval PROVE KindOfStep
  BY <1>2, StoreCloses DEF AnswersOnTheirWay, KindOfStep
<1>3. CASE Hermes \/ Starting
  <2>1. UNCHANGED <<approval, approver>>
    BY <1>3 DEF Hermes, Begin, Ask, Finish, Starting, ReserveRun, StartRefused, StartRemote,
       ActivateRun, ActivateFails, FailRunReservation, DenyApprovals, StarterDies
  <2> QED
    BY <1>2, <2>1
<1>4. ASSUME NEW i \in Ids, LeaseRunsOut(i) PROVE KindOfStep
  <2>1. UNCHANGED approver /\ approval' = [approval EXCEPT ![i].stale = TRUE]
    BY <1>4 DEF LeaseRunsOut
  <2>2. \A k \in Ids : Shown(k)
    BY <1>1, <2>1 DEF Shown, ApprovalRow
  <2> QED
    BY <2>1, <2>2 DEF Silent, KindOfStep, AnswersOnTheirWay
<1>5. ASSUME NEW g \in Callers, Calling(g) PROVE KindOfStep
  <2>1. UNCHANGED approver /\ (UNCHANGED approval \/ UpdateRun(caller[g].status))
    BY <1>5 DEF Calling, PollEvaluation, AbandonEvaluation, ReadRun, FetchRun, StopRun,
       StoreCall, CallFails
  <2>2. UNCHANGED AnswersOnTheirWay
    BY <2>1 DEF AnswersOnTheirWay
  <2> QED
    BY <2>1, <2>2, StoreCloses DEF KindOfStep
<1> QED
  BY <1>2, <1>3, <1>4, <1>5, ApprovingKinds, StreamingKinds DEF ANext, agentVars

\* An approval that was resolved or has expired is never open again: a late
\* claim, an event that comes twice or a failed answer finds it closed.
THEOREM ClosedForGood == ASpec => ClosedIsFinal
<1>1. ASSUME AInv, [ANext]_agentVars, NEW i \in Ids,
             approval[i].status \in {"resolved", "expired"}
      PROVE  approval'[i].status = approval[i].status
  BY <1>1, KindsOfSteps
  DEF KindOfStep, Silent, Closing, Recording, Claiming, Releasing, OthersShown, Shown,
      Claimable, Oldest, OpenRows, OpenStatuses
<1>2. AInv /\ [ANext]_agentVars =>
        [\A i \in Ids : approval[i].status \in {"resolved", "expired"} =>
           approval'[i].status = approval[i].status]_agentVars
  BY <1>1
<1> QED
  BY <1>2, AgentInvariant, PTL DEF ASpec, ClosedIsFinal

-----------------------------------------------------------------------------
(* Each kind of step is a step of ApprovalQueue or leaves it alone.        *)

FateOf(status) ==
  CASE status = "absent" -> "unasked" [] status = "pending" -> "open"
    [] status = "responding" -> "taken" [] OTHER -> "closed"

LEMMA Fates ==
  /\ ApprovalFate = [i \in Ids |-> FateOf(approval[i].status)]
  /\ ApprovalFate' = [i \in Ids |-> FateOf(approval'[i].status)]
BY DEF ApprovalFate, FateOf

LEMMA OrdersStay ==
  ASSUME \A i \in Ids : /\ approval'[i].order = approval[i].order
                        /\ approval'[i].status = "absent" <=> approval[i].status = "absent"
  PROVE  UNCHANGED EarlierApprovals
<1>1. ASSUME NEW i \in Ids
      PROVE  {j \in Ids : /\ approval'[i].status # "absent" /\ approval'[j].status # "absent"
                          /\ approval'[j].order < approval'[i].order} =
             {j \in Ids : /\ approval[i].status # "absent" /\ approval[j].status # "absent"
                          /\ approval[j].order < approval[i].order}
  OBVIOUS
<1> QED
  BY <1>1 DEF EarlierApprovals

LEMMA SilentInQueue ==
  ASSUME Silent PROVE [Queue!QueueNext]_Queue!queueVars
<1>1. UNCHANGED ApprovalFate
  BY Fates DEF Silent, Shown
<1>2. UNCHANGED EarlierApprovals
  BY OrdersStay DEF Silent, Shown
<1> QED
  BY <1>1, <1>2 DEF Silent, Queue!queueVars, Queue!QueueNext, Queue!SendingEnds

LEMMA ClosingInQueue ==
  ASSUME NEW closed \in SUBSET Ids, Closing(closed) PROVE Queue!QueueNext
<1>1. ApprovalFate' = [i \in Ids |-> IF i \in closed THEN "closed" ELSE ApprovalFate[i]]
  <2>1. ASSUME NEW i \in Ids
        PROVE  FateOf(approval'[i].status) =
                 IF i \in closed THEN "closed" ELSE FateOf(approval[i].status)
    BY DEF Closing, Shown, FateOf
  <2> QED
    BY <2>1, Fates
<1>2. \A i \in closed : ApprovalFate[i] \in {"open", "taken"}
  BY Fates DEF Closing, OpenRows, OpenStatuses, FateOf
<1>3. UNCHANGED EarlierApprovals
  <2>1. \A i \in closed : approval[i].status \in OpenStatuses
    BY DEF Closing, OpenRows
  <2> QED
    BY <2>1, OrdersStay DEF Closing, Shown, OpenStatuses
<1>4. Queue!Close(closed)
  BY <1>1, <1>2, <1>3 DEF Queue!Close, Closing
<1> QED
  BY <1>4 DEF Queue!QueueNext

\* One row changes its status: so does its fate, and no other.
LEMMA OneFateChanges ==
  ASSUME NEW i \in Ids, OthersShown(i)
  PROVE  ApprovalFate' = [ApprovalFate EXCEPT ![i] = FateOf(approval'[i].status)]
<1>1. \A k \in Ids : k # i => FateOf(approval'[k].status) = FateOf(approval[k].status)
  BY DEF OthersShown, Shown
<1> QED
  BY <1>1, Fates

LEMMA RecordingInQueue ==
  ASSUME AInv, NEW i \in Ids, Recording(i) PROVE Queue!QueueNext
<1>1. ApprovalFate[i] = "unasked" /\ ApprovalFate' = [ApprovalFate EXCEPT ![i] = "open"]
  BY Fates, OneFateChanges DEF Recording, FateOf
<1>2. /\ \A k \in Recorded : approval[k].order \in Nat /\ approval[k].order <= Cardinality(Recorded)
      /\ Cardinality(Recorded) \in Nat /\ i \notin Recorded
  BY RowsAreCounted DEF AInv, ATypeOK, ApprovalRow, RowsOrdered, Recording, Recorded
<1>3. {j \in Ids : ApprovalFate[j] # "unasked"} = Recorded
  BY Fates DEF Recorded, FateOf
<1>4. ASSUME NEW k \in Ids
      PROVE  {j \in Ids : /\ approval'[k].status # "absent" /\ approval'[j].status # "absent"
                          /\ approval'[j].order < approval'[k].order} =
             IF k = i THEN Recorded ELSE EarlierApprovals[k]
  <2> DEFINE E == {j \in Ids : /\ approval'[k].status # "absent" /\ approval'[j].status # "absent"
                               /\ approval'[j].order < approval'[k].order}
  <2>1. CASE k = i
    <3>1. ASSUME NEW j \in Ids PROVE j \in E <=> j \in Recorded
      <4>1. CASE j = i
        BY <1>2, <2>1, <4>1 DEF Recording
      <4>2. CASE j # i
        BY <1>2, <2>1, <4>2 DEF Recording, OthersShown, Shown, Recorded
      <4> QED
        BY <4>1, <4>2
    <3> QED
      BY <2>1, <3>1 DEF Recorded
  <2>2. CASE k # i
    <3>1. ASSUME NEW j \in Ids PROVE j \in E <=> j \in EarlierApprovals[k]
      <4>1. CASE j = i
        BY <1>2, <2>2, <4>1 DEF Recording, OthersShown, Shown, Recorded, EarlierApprovals
      <4>2. CASE j # i
        BY <2>2, <4>2 DEF Recording, OthersShown, Shown, EarlierApprovals
      <4> QED
        BY <4>1, <4>2
    <3>2. EarlierApprovals[k] \subseteq Ids
      BY DEF EarlierApprovals
    <3> QED
      BY <2>2, <3>1, <3>2
  <2> QED
    BY <2>1, <2>2
<1>5. EarlierApprovals' =
        [EarlierApprovals EXCEPT ![i] = {j \in Ids : ApprovalFate[j] # "unasked"}]
  BY <1>3, <1>4 DEF EarlierApprovals
<1>6. Queue!AskFor(i)
  BY <1>1, <1>5 DEF Queue!AskFor, Recording
<1> QED
  BY <1>6 DEF Queue!QueueNext

LEMMA ReleasingInQueue ==
  ASSUME NEW i \in Ids, Releasing(i) PROVE Queue!QueueNext
<1>1. ApprovalFate[i] = "taken" /\ ApprovalFate' = [ApprovalFate EXCEPT ![i] = "open"]
  BY Fates, OneFateChanges DEF Releasing, FateOf
<1>2. UNCHANGED EarlierApprovals
  BY OrdersStay DEF Releasing, OthersShown, Shown
<1>3. \A s \in AnswersOnTheirWay : s[2] # i
  BY DEF Releasing, AnswersOnTheirWay
<1>4. Queue!GiveBack(i)
  BY <1>1, <1>2, <1>3 DEF Queue!GiveBack, Releasing
<1> QED
  BY <1>4 DEF Queue!QueueNext

\* The oldest open row is the first that is not closed; whoever sent an answer
\* to it would hold a claim that is alive (VoicesClaim).
LEMMA ClaimingInQueue ==
  ASSUME AInv, NEW c \in Approvers, NEW i \in Ids, Claiming(c, i) PROVE Queue!QueueNext
<1>1. /\ i \in OpenRows /\ \A k \in OpenRows : approval[i].order <= approval[k].order
      /\ approval[i].status = "pending" \/ approval[i].stale
  BY DEF Claiming, Claimable, Oldest
<1>2. /\ ApprovalFate[i] \in {"open", "taken"}
      /\ ApprovalFate' = [ApprovalFate EXCEPT ![i] = "taken"]
  BY <1>1, Fates, OneFateChanges DEF Claiming, FateOf, OpenRows, OpenStatuses
<1>3. UNCHANGED EarlierApprovals
  BY <1>1, OrdersStay DEF Claiming, OthersShown, Shown, OpenRows, OpenStatuses
<1>4. ASSUME NEW j \in EarlierApprovals[i] PROVE ApprovalFate[j] = "closed"
  <2>1. j \in Ids /\ approval[j].status # "absent" /\ approval[j].order < approval[i].order
    BY DEF EarlierApprovals
  <2>2. approval[j].order \in Nat /\ approval[i].order \in Nat
    BY <2>1 DEF AInv, ATypeOK, ApprovalRow
  <2>3. j \notin OpenRows
    BY <1>1, <2>1, <2>2
  <2>4. approval[j].status \notin {"absent", "pending", "responding"}
    BY <2>1, <2>3 DEF OpenRows, OpenStatuses
  <2> QED
    BY <2>1, <2>4, Fates DEF FateOf
<1>5. ASSUME NEW s \in AnswersOnTheirWay PROVE s[1] # c /\ s[2] # i
  <2>1. PICK d \in Approvers : approver[d].phase = "posting" /\ s = <<d, approver[d].id>>
    BY <1>5 DEF AnswersOnTheirWay
  <2>2. d # c
    BY <2>1 DEF Claiming
  <2>3. approver[d].id # i
    BY <1>1, <2>1 DEF AInv, VoicesClaim, Claims, OpenRows, OpenStatuses
  <2> QED
    BY <2>1, <2>2, <2>3
<1>6. Queue!Take(c, i)
  BY <1>2, <1>3, <1>4, <1>5 DEF Queue!Take, Claiming
<1> QED
  BY <1>6 DEF Queue!QueueNext

\* Core keeps its promise about approvals (docs/development/agent.md): whatever
\* streams, polls, stops and late answers do, they are answered in the order in
\* which they were recorded, by one person at a time, and are closed for good.
THEOREM ApprovalsAreAQueue == ASpec => AnswersInOrder
<1>1. AInit => Queue!QueueInit
  <2> SUFFICES ASSUME AInit PROVE Queue!QueueInit
    OBVIOUS
  <2>1. \A i \in Ids : approval[i].status = "absent"
    BY DEF AInit
  <2>2. ApprovalFate = [i \in Ids |-> "unasked"]
    BY <2>1, Fates DEF FateOf
  <2>3. EarlierApprovals = [i \in Ids |-> {}]
    BY <2>1 DEF EarlierApprovals
  <2>4. AnswersOnTheirWay = {}
    BY DEF AInit, AnswersOnTheirWay
  <2> QED
    BY <2>2, <2>3, <2>4 DEF Queue!QueueInit
<1>2. AInv /\ [ANext]_agentVars => [Queue!QueueNext]_Queue!queueVars
  <2> SUFFICES ASSUME AInv, [ANext]_agentVars PROVE [Queue!QueueNext]_Queue!queueVars
    OBVIOUS
  <2>1. KindOfStep
    BY KindsOfSteps
  <2>2. CASE Silent
    BY <2>2, SilentInQueue
  <2>3. CASE ~Silent
    BY <2>1, <2>3, ClosingInQueue, RecordingInQueue, ReleasingInQueue, ClaimingInQueue
    DEF KindOfStep
  <2> QED
    BY <2>2, <2>3
<1> QED
  BY <1>1, <1>2, AgentInvariant, PTL DEF ASpec, AnswersInOrder, Queue!QueueSpec
=============================================================================
