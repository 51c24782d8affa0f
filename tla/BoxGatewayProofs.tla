-------------------------- MODULE BoxGatewayProofs --------------------------
(***************************************************************************)
(* Proofs about BoxGateway for any number of boxes and experiments, any    *)
(* capacity, any length of the queues and any number of calls in Core.     *)
(* The heart is the chain from the row of a task through the reports that  *)
(* its gateway has queued to what its goroutine will report next, and that *)
(* the experiment lags behind the row only while the report that brought   *)
(* the row forward is still at the head of the queue.                      *)
(***************************************************************************)
EXTENDS BoxGateway, TLAPS

Claimed(e) == task[e].status \notin {"absent", "queued"}

\* What the rows of a task and its experiment say of each other.
TaskOK(e) ==
  LET t == task[e].status IN
  /\ t \in {"absent", "queued"} => task[e].box = NoBox
  /\ t \in Held => task[e].box \in Boxes
  /\ t = "absent" => exp[e] \in {"absent", "created", "canceled", "archived"}
  /\ t = "queued" => exp[e] = "queued"
  /\ exp[e] \in {"absent", "created"} => t = "absent"
  /\ t \in Held => exp[e] \in {t, Before[t], "canceled", "archived"}

\* offline_since is not older than the end of the time a box may be silent.
BoxOK(b) ==
  /\ box[b].status = "online" => box[b].offline = Off
  /\ box[b].status = "offline" => /\ box[b].offline # Off
                                  /\ box[b].silent >= StaleAfter + box[b].offline

\* What the entry l of a task in the file says of the goroutine's phase x.
LocalOK(b, e, l, x) ==
  /\ ~l.known => l.pend = <<>> /\ x = "none"
  /\ l.known => task[e].box = b /\ Claimed(e)
  /\ l.finished => x = "none"
  /\ l.terminal => l.finished
  /\ l.result => l.finished
  /\ x \in {"started", "run", "bundle"} => l.started

KeptOK(b, e, l) ==
  task[e].box = b /\ task[e].status \in OnBox /\ ~task[e].cancel => e \in lost \/ l.known

\* The status before the i-th report: the row's, or the report before it.
Prior(t, p, i) == IF i = 1 THEN t ELSE p[i - 1]
Latest(t, p) == Prior(t, p, Len(p) + 1)
Chained(t, p) == \A i \in 1..Len(p) : Reportable(Prior(t, p, i), p[i])

\* The outcome of a task that ended on its box is the last report queued.
EndOK(e, l) ==
  l.terminal /\ task[e].status \in OnBox /\ l.known =>
    l.pend # <<>> /\ Latest("absent", l.pend) \in Outcomes

\* Each report is valid after the one before, and the next one will be.
ChainOK(e, l, x) ==
  LET f == Latest(task[e].status, l.pend) IN
  l.known /\ ~l.skipped /\ task[e].status \in OnBox =>
    /\ Chained(task[e].status, l.pend)
    /\ ~l.finished =>
         /\ ~l.started \/ x = "started" => f = "preparing"
         /\ l.started /\ x # "started" => f \in {"running", "uploading"}

\* While the experiment lags behind, the report is still to be acknowledged.
LagOK(e, l, x) ==
  l.known /\ task[e].status \in OnBox /\ exp[e] = Before[task[e].status] =>
    \/ l.pend # <<>> /\ Head(l.pend) = task[e].status
    \/ /\ task[e].status = "preparing" /\ l.pend = <<>>
       /\ ~l.started /\ ~l.finished /\ x = "none"

Entry(b, e, l, x) ==
  LocalOK(b, e, l, x) /\ KeptOK(b, e, l) /\ EndOK(e, l) /\ ChainOK(e, l, x) /\ LagOK(e, l, x)

\* The task that is synchronised is not the one to be stopped.
TurnOK(b, e) ==
  /\ e \in stop[b] => Claimed(e) /\ ResumeTask(e) = "stop"
  /\ sync[b] = e => e \notin stop[b] /\ local[b][e].known

Place == [preparing |-> 1, running |-> 2, uploading |-> 3, processing_result |-> 4]

\* A call is never ahead of the row.
CallOK(c) ==
  LET t == task[c.exp].status IN
  /\ c.kind = "drain" => c.stage # "observe"
  /\ c.kind # "drain" => c.exp \in Experiments /\ Claimed(c.exp)
  /\ c.stage = "observe" =>
       /\ c.kind # "result" => c.status \in Held \cup Outcomes
       /\ c.kind = "result" => Settled(t)
       /\ c.status \in Outcomes => t \in Outcomes
       /\ c.status \in Held /\ t \in Held => Place[c.status] <= Place[t]

\* A gateway waits for the answer to the head of its queue, or to its bundle;
\* from the observer's transaction on the experiment does not lag behind.
AskedOK(c, l) ==
  LET t == task[c.exp].status IN
  c.asked =>
    /\ c.kind \in {"status", "result"} /\ sync[c.box] = c.exp
    /\ c.kind = "result" => Settled(t) /\ l.result
    /\ c.kind = "status" =>
         /\ l.pend # <<>>
         /\ t \in OnBox => t = Head(l.pend)
         /\ t \in OnBox /\ c.stage = "observe" => c.status = t
         /\ t \in OnBox /\ c.stage # "observe" => exp[c.exp] # Before[t]

AskedOnce == \A c, d \in calls : c.asked /\ d.asked /\ c.box = d.box => c = d

CallsOK ==
  /\ \A c \in calls : CallOK(c) /\ AskedOK(c, local[c.box][c.exp])
  /\ AskedOnce

RowsTyped ==
  /\ box \in [Boxes -> Box] /\ bound \subseteq Boxes /\ task \in [Experiments -> Task]
  /\ exp \in [Experiments -> ExpStatuses]

GateTyped ==
  /\ up \subseteq Boxes /\ lost \subseteq Experiments
  /\ local \in [Boxes -> [Experiments -> LocalTask]]
  /\ exec \in [Boxes -> [Experiments -> Phases]]
  /\ stop \in [Boxes -> SUBSET Experiments]
  /\ sync \in [Boxes -> Experiments \cup {NoExp}]

RowsOK == (\A e \in Experiments : TaskOK(e)) /\ (\A b \in Boxes : BoxOK(b))

FilesOK ==
  \A b \in Boxes, e \in Experiments :
    Entry(b, e, local[b][e], exec[b][e]) /\ TurnOK(b, e)

GInv ==
  /\ RowsTyped /\ GateTyped /\ calls \subseteq Call
  /\ RowsOK /\ FilesOK /\ CallsOK

-----------------------------------------------------------------------------
(* Records.                                                                *)

LEMMA BlankFacts ==
  /\ Blank \in LocalTask /\ [Blank EXCEPT !.known = TRUE] \in LocalTask
  /\ Blank.pend = <<>> /\ ~Blank.known /\ ~Blank.started /\ ~Blank.finished
  /\ ~Blank.terminal /\ ~Blank.result
<1>1. <<>> \in Seq(Reports)
  OBVIOUS
<1> QED
  BY <1>1 DEF Blank, LocalTask

LEMMA QueuedFacts ==
  ASSUME NEW l \in LocalTask, NEW s \in Reports
  PROVE  /\ Queued(l, s) \in LocalTask
         /\ Queued(l, s).pend = Append(l.pend, s)
         /\ Queued(l, s).known = l.known
         /\ Queued(l, s).started = l.started
         /\ Queued(l, s).finished = l.finished
         /\ Queued(l, s).terminal = l.terminal
         /\ Queued(l, s).result = l.result
         /\ Queued(l, s).skipped = l.skipped
BY DEF Queued, LocalTask

LEMMA TerminalFacts ==
  ASSUME NEW l \in LocalTask, NEW s \in Reports
  PROVE  /\ TerminalOnly(l, s) \in LocalTask
         /\ TerminalOnly(l, s).pend = Append(l.pend, s)
         /\ TerminalOnly(l, s).known = l.known
         /\ TerminalOnly(l, s).started = l.started
         /\ TerminalOnly(l, s).finished
         /\ TerminalOnly(l, s).terminal
         /\ TerminalOnly(l, s).result = l.result
         /\ TerminalOnly(l, s).skipped = l.skipped
<1>1. Queued(l, s) \in LocalTask
  BY QueuedFacts
<1>2. TerminalOnly(l, s) \in LocalTask
  BY <1>1 DEF TerminalOnly, LocalTask
<1> DEFINE q == Queued(l, s)
<1>3. /\ TerminalOnly(l, s).pend = q.pend /\ TerminalOnly(l, s).known = q.known
      /\ TerminalOnly(l, s).started = q.started /\ TerminalOnly(l, s).finished
      /\ TerminalOnly(l, s).terminal /\ TerminalOnly(l, s).result = q.result
      /\ TerminalOnly(l, s).skipped = q.skipped
  <2>1. q \in LocalTask
    BY <1>1
  <2>2. TerminalOnly(l, s) = [q EXCEPT !.finished = TRUE, !.terminal = TRUE]
    BY DEF TerminalOnly
  <2> HIDE DEF q
  <2> QED
    BY <2>1, <2>2 DEF LocalTask
<1> QED
  BY <1>2, <1>3, QueuedFacts

LEMMA AcknowledgedFacts ==
  ASSUME NEW l \in LocalTask, l.pend # <<>>
  PROVE  /\ Acknowledged(l) \in LocalTask
         /\ Acknowledged(l).pend = Tail(l.pend)
         /\ Acknowledged(l).known = l.known
         /\ Acknowledged(l).started = l.started
         /\ Acknowledged(l).finished = l.finished
         /\ Acknowledged(l).terminal = l.terminal
         /\ Acknowledged(l).result = l.result
         /\ Acknowledged(l).skipped = l.skipped
<1>1. l.pend \in Seq(Reports)
  BY DEF LocalTask
<1>2. Tail(l.pend) \in Seq(Reports)
  BY <1>1
<1> QED
  BY <1>2 DEF Acknowledged, LocalTask

LEMMA EndedFacts ==
  ASSUME NEW r \in Task, NEW s \in TaskStatuses, NEW c \in Codes
  PROVE  /\ Ended(r, s, c) \in Task
         /\ Ended(r, s, c).status = s /\ Ended(r, s, c).code = c
         /\ Ended(r, s, c).box = r.box /\ Ended(r, s, c).cancel = r.cancel
BY DEF Ended, Task

LEMMA CancelledFacts ==
  ASSUME NEW r \in Task
  PROVE  /\ Cancelled(r) \in Task /\ Cancelled(r).cancel
         /\ Cancelled(r).box = r.box /\ Cancelled(r).code = r.code
         /\ Cancelled(r).status = IF r.status = "queued" THEN "canceled" ELSE r.status
BY DEF Cancelled, Task, TaskStatuses, Outcomes

-----------------------------------------------------------------------------
(* Queues of reports.                                                      *)

LEMMA Appended ==
  ASSUME NEW p \in Seq(Reports), NEW s \in Reports
  PROVE  /\ Append(p, s) # <<>>
         /\ p # <<>> => Head(Append(p, s)) = Head(p)
         /\ p = <<>> => Head(Append(p, s)) = s
OBVIOUS

LEMMA AppendedLast ==
  ASSUME NEW t, NEW p \in Seq(Reports), NEW s \in Reports
  PROVE  Latest(t, Append(p, s)) = s
BY DEF Latest, Prior

LEMMA AppendedChain ==
  ASSUME NEW t, NEW p \in Seq(Reports), NEW s \in Reports,
         Chained(t, p), Reportable(Latest(t, p), s)
  PROVE  Chained(t, Append(p, s))
<1> DEFINE q == Append(p, s)
<1>1. /\ q \in Seq(Reports) /\ Len(q) = Len(p) + 1 /\ q[Len(p) + 1] = s
      /\ \A i \in 1..Len(p) : q[i] = p[i]
  OBVIOUS
<1> HIDE DEF q
<1>2. \A i \in 1..Len(q) : Prior(t, q, i) = Prior(t, p, i)
  BY <1>1 DEF Prior
<1>3. \A i \in 1..Len(p) : Reportable(Prior(t, q, i), q[i])
  BY <1>1, <1>2 DEF Chained
<1>4. Reportable(Prior(t, q, Len(p) + 1), q[Len(p) + 1])
  BY <1>1, <1>2 DEF Latest
<1> QED
  BY <1>1, <1>3, <1>4 DEF Chained, q

\* The head was taken off once the row had taken it up.
LEMMA TakenOff ==
  ASSUME NEW t, NEW p \in Seq(Reports), p # <<>>
  PROVE  /\ Tail(p) \in Seq(Reports)
         /\ Tail(p) # <<>> => Latest(t, Tail(p)) = Latest(t, p)
         /\ t = Head(p) => Latest(t, Tail(p)) = Latest(t, p)
         /\ Tail(p) = <<>> => Latest(t, p) = Head(p)
         /\ t = Head(p) /\ Chained(t, p) => Chained(t, Tail(p))
<1> DEFINE q == Tail(p)
<1>1. /\ q \in Seq(Reports) /\ Len(q) = Len(p) - 1 /\ Len(p) \in Nat \ {0}
      /\ \A i \in 1..Len(q) : q[i] = p[i + 1]
      /\ Head(p) = p[1]
  OBVIOUS
<1>2. q = <<>> <=> Len(q) = 0
  BY <1>1
<1> HIDE DEF q
<1>3. q # <<>> => Latest(t, q) = Latest(t, p)
  BY <1>1, <1>2 DEF Latest, Prior
<1>4. q = <<>> => Latest(t, q) = t /\ Latest(t, p) = Head(p)
  <2> HAVE q = <<>>
  <2>1. Len(q) = 0 /\ Len(p) = 1
    BY <1>1, <1>2
  <2> QED
    BY <1>1, <2>1 DEF Latest, Prior
<1>5. ASSUME t = Head(p), Chained(t, p) PROVE Chained(t, q)
  <2> SUFFICES ASSUME NEW i \in 1..Len(q) PROVE Reportable(Prior(t, q, i), q[i])
    BY DEF Chained
  <2>1. i + 1 \in 1..Len(p) /\ q[i] = p[i + 1]
    BY <1>1
  <2>2. Prior(t, q, i) = Prior(t, p, i + 1)
    BY <1>1, <1>5, <2>1 DEF Prior
  <2> QED
    BY <2>1, <2>2, <1>5 DEF Chained
<1> QED
  BY <1>1, <1>3, <1>4, <1>5 DEF q

\* A row takes up the head of the queue.
LEMMA TakenUp ==
  ASSUME NEW t, NEW p \in Seq(Reports), p # <<>>, Chained(t, p)
  PROVE  /\ Chained(Head(p), p)
         /\ \A u : Latest(u, p) = Latest(t, p)
         /\ Reportable(t, Head(p))
<1>1. Len(p) \in Nat \ {0} /\ Head(p) = p[1]
  OBVIOUS
<1>2. \A u : Latest(u, p) = Latest(t, p)
  BY <1>1 DEF Latest, Prior
<1>3. Reportable(t, Head(p))
  BY <1>1 DEF Chained, Prior
<1>4. Chained(Head(p), p)
  BY <1>1 DEF Chained, Prior, Reportable
<1> QED
  BY <1>2, <1>3, <1>4

-----------------------------------------------------------------------------
(* Phases.                                                                 *)

LEMMA Positions ==
  /\ Position("absent") = {1} /\ Position("created") = {2} /\ Position("queued") = {3}
  /\ Position("preparing") = {4} /\ Position("running") = {5}
  /\ Position("uploading") = {6} /\ Position("processing_result") = {7}
  /\ \A s \in Outcomes \cup {"archived"} : Position(s) = {}
BY DEF Position, Order, Outcomes

\* What has reached a phase, or has ended, does not return to the phase before.
LEMMA NotBack ==
  ASSUME NEW t \in OnBox, NEW x \in {t, "canceled", "archived"}
  PROVE  ~Onward(x, Before[t])
BY Positions DEF OnBox, Onward, Before, Terminal, Outcomes

LEMMA OnwardSteps ==
  /\ Onward("absent", "created") /\ Onward("created", "queued") /\ Onward("absent", "queued")
  /\ Onward("queued", "preparing") /\ Onward("uploading", "processing_result")
  /\ \A x : Onward(x, x)
  /\ \A x \in Outcomes : Onward(x, "archived")
  /\ \A x : x \notin Terminal => \A y \in Outcomes : Onward(x, y)
  /\ \A x, y : ValidTransition(x, y) => Onward(x, y)
BY Positions DEF Onward, ValidTransition, Terminal, Outcomes

-----------------------------------------------------------------------------
(* Steps of rows.                                                          *)

QuietRow(e) ==
  /\ task'[e].box = task[e].box
  /\ task[e].cancel => task'[e].cancel
  /\ \/ task'[e].status = task[e].status
     \/ task[e].status = "absent" /\ task'[e].status = "queued"
     \/ task[e].status = "queued" /\ task'[e].status = "canceled"
     \/ task[e].status \in Held /\ task'[e].status \in Outcomes

\* One experiment's part of TimeoutMeansSilence.
Silenced(e) ==
  task[e].code # "timeout" /\ task'[e].code = "timeout" =>
    box[task[e].box].silent >= StaleAfter + OfflineLimit

\* What everybody but a gateway does to the rows.
Quiet ==
  /\ RowsTyped' /\ RowsOK'
  /\ \A e \in Experiments : QuietRow(e) /\ Onward(exp[e], exp'[e]) /\ Silenced(e)

RowsInv == RowsTyped /\ RowsOK

LEMMA CreateQuiet ==
  ASSUME RowsInv, NEW e \in Experiments, Create(e) PROVE Quiet
<1>1. RowsTyped'
  BY DEF RowsInv, RowsTyped, Create, boxVars, ExpStatuses
<1>2. \A x \in Experiments : exp'[x] = IF x = e THEN "created" ELSE exp[x]
  BY DEF RowsInv, RowsTyped, Create
<1>3. RowsOK'
  BY <1>2 DEF RowsInv, RowsOK, TaskOK, BoxOK, Create, boxVars, Held, OnBox
<1>4. \A x \in Experiments : QuietRow(x) /\ Onward(exp[x], exp'[x]) /\ Silenced(x)
  BY <1>2, OnwardSteps DEF Create, boxVars, QuietRow, Silenced
<1> QED
  BY <1>1, <1>3, <1>4 DEF Quiet

LEMMA RunQuiet ==
  ASSUME RowsInv, NEW e \in Experiments, Run(e) PROVE Quiet
<1>1. RowsTyped'
  BY DEF RowsInv, RowsTyped, Run, ExpStatuses, Task, TaskStatuses
<1>2. /\ \A x \in Experiments : exp'[x] = IF x = e THEN "queued" ELSE exp[x]
      /\ \A x \in Experiments : x # e => task'[x] = task[x]
      /\ task'[e].status = "queued" /\ task'[e].box = task[e].box
      /\ task'[e].cancel = task[e].cancel /\ task'[e].code = task[e].code
  BY DEF RowsInv, RowsTyped, Run, Task
<1>3. exp[e] = "created" /\ task[e].status = "absent" /\ UNCHANGED <<box, bound>>
  BY DEF Run, RowsInv, RowsOK, TaskOK
<1>4. RowsOK'
  BY <1>2, <1>3 DEF RowsInv, RowsOK, TaskOK, BoxOK, Held, OnBox
<1>5. \A x \in Experiments : QuietRow(x) /\ Onward(exp[x], exp'[x]) /\ Silenced(x)
  BY <1>2, <1>3, OnwardSteps DEF QuietRow, Silenced
<1> QED
  BY <1>1, <1>4, <1>5 DEF Quiet

LEMMA CancelQuiet ==
  ASSUME RowsInv, NEW e \in Experiments, Cancel(e) PROVE Quiet
<1>0. task[e] \in Task /\ TaskOK(e) /\ UNCHANGED <<box, bound>>
  BY DEF RowsInv, RowsTyped, RowsOK, Cancel
<1>1. RowsTyped'
  BY <1>0, CancelledFacts DEF RowsInv, RowsTyped, Cancel, ExpStatuses, Terminal, Outcomes
<1>2. /\ \A x \in Experiments : x # e => exp'[x] = exp[x] /\ task'[x] = task[x]
      /\ exp'[e] = IF exp[e] \in {"created", "queued", "processing_result"}
                   THEN "canceled" ELSE exp[e]
      /\ task'[e] = IF task[e].status \in OnBox \cup {"queued"} THEN Cancelled(task[e]) ELSE task[e]
  BY DEF RowsInv, RowsTyped, Cancel
<1>3. /\ task'[e].box = task[e].box /\ task'[e].code = task[e].code
      /\ task[e].cancel => task'[e].cancel
      /\ task'[e].status = IF task[e].status = "queued" THEN "canceled" ELSE task[e].status
  BY <1>0, <1>2, CancelledFacts
<1>4. exp[e] \notin Terminal \cup {"absent"}
  BY DEF Cancel
<1>5. TaskOK(e)'
  BY <1>0, <1>2, <1>3, <1>4 DEF TaskOK, Held, OnBox, Terminal, Outcomes, Before
<1>6. RowsOK'
  BY <1>0, <1>2, <1>5 DEF RowsInv, RowsOK, TaskOK, BoxOK
<1>7. \A x \in Experiments : QuietRow(x) /\ Onward(exp[x], exp'[x]) /\ Silenced(x)
  BY <1>2, <1>3, <1>4, OnwardSteps DEF QuietRow, Silenced, Terminal, Outcomes
<1> QED
  BY <1>1, <1>6, <1>7 DEF Quiet

LEMMA ArchiveQuiet ==
  ASSUME RowsInv, NEW e \in Experiments, Archive(e) PROVE Quiet
<1>1. RowsTyped'
  BY DEF RowsInv, RowsTyped, Archive, boxVars, ExpStatuses, Terminal
<1>2. \A x \in Experiments : exp'[x] = IF x = e THEN "archived" ELSE exp[x]
  BY DEF RowsInv, RowsTyped, Archive
<1>3. exp[e] \in Outcomes /\ UNCHANGED <<box, bound, task>>
  BY DEF Archive, boxVars
<1>4. RowsOK'
  BY <1>2, <1>3 DEF RowsInv, RowsOK, TaskOK, BoxOK, Outcomes, Held, OnBox
<1>5. \A x \in Experiments : QuietRow(x) /\ Onward(exp[x], exp'[x]) /\ Silenced(x)
  BY <1>2, <1>3, OnwardSteps DEF QuietRow, Silenced
<1> QED
  BY <1>1, <1>4, <1>5 DEF Quiet

\* CompleteResult and FailResult.
LEMMA ProcessedQuiet ==
  ASSUME RowsInv, NEW e \in Experiments, NEW s \in {"succeeded", "failed"},
         exp[e] = "processing_result", exp' = [exp EXCEPT ![e] = s],
         task' = ProcessedTask(e, s), UNCHANGED <<box, bound>>
  PROVE  Quiet
<1>0. task[e] \in Task /\ TaskOK(e) /\ s \in TaskStatuses /\ "none" \in Codes /\ s \in Outcomes
  BY DEF RowsInv, RowsTyped, RowsOK, TaskStatuses, Outcomes, Codes
<1>1. RowsTyped'
  BY <1>0, EndedFacts DEF RowsInv, RowsTyped, ProcessedTask, ExpStatuses, Terminal
<1>2. /\ \A x \in Experiments : x # e => exp'[x] = exp[x] /\ task'[x] = task[x]
      /\ exp'[e] = s
      /\ task'[e] = IF task[e].status = "processing_result" THEN Ended(task[e], s, "none") ELSE task[e]
  BY DEF RowsInv, RowsTyped, ProcessedTask
<1>3. /\ task'[e].box = task[e].box /\ task'[e].cancel = task[e].cancel
      /\ task'[e].code \in {task[e].code, "none"}
      /\ task'[e].status = IF task[e].status = "processing_result" THEN s ELSE task[e].status
  BY <1>0, <1>2, EndedFacts
<1>4. TaskOK(e)'
  BY <1>0, <1>2, <1>3 DEF TaskOK, Held, OnBox, Outcomes, Before
<1>5. RowsOK'
  BY <1>2, <1>4 DEF RowsInv, RowsOK, TaskOK, BoxOK
<1>6. \A x \in Experiments : QuietRow(x) /\ Onward(exp[x], exp'[x]) /\ Silenced(x)
  BY <1>0, <1>2, <1>3, OnwardSteps DEF QuietRow, Silenced, Terminal, Outcomes, Held
<1> QED
  BY <1>1, <1>5, <1>6 DEF Quiet

LEMMA UserQuiet ==
  ASSUME RowsInv, NEW e \in Experiments, UserStep(e) \/ WorkerStep(e) PROVE Quiet
BY CreateQuiet, RunQuiet, CancelQuiet, ArchiveQuiet, ProcessedQuiet
   DEF UserStep, WorkerStep, CompleteResult, FailResult

\* Steps of boxes alone.
LEMMA BoxesQuiet ==
  ASSUME RowsInv, UNCHANGED <<task, exp>>, box' \in [Boxes -> Box], bound' \subseteq Boxes,
         \A b \in Boxes : BoxOK(b)'
  PROVE  Quiet
<1>1. RowsTyped' /\ RowsOK'
  BY DEF RowsInv, RowsTyped, RowsOK, TaskOK
<1>2. \A x \in Experiments : QuietRow(x) /\ Onward(exp[x], exp'[x]) /\ Silenced(x)
  BY OnwardSteps DEF QuietRow, Silenced
<1> QED
  BY <1>1, <1>2 DEF Quiet

LEMMA SilenceIsNat ==
  /\ Silence \in Nat /\ Silence = StaleAfter + OfflineLimit /\ Silence > 0
  /\ StaleAfter \in Nat /\ OfflineLimit \in Nat /\ Off \notin Nat
BY BoxControlConstants DEF Silence, Off

LEMMA ZeroIsTime == 0 \in 0..Silence /\ 0 \in 0..OfflineLimit
BY SilenceIsNat

LEMMA TickQuiet ==
  ASSUME RowsInv, Tick, UNCHANGED exp PROVE Quiet
<1> DEFINE Aged(r) == [r EXCEPT !.silent = Later(@, Silence), !.offline = Later(@, OfflineLimit)]
<1>1. ASSUME NEW b \in Boxes
      PROVE  box'[b] \in Box /\ BoxOK(b)'
  <2>1. box[b] \in Box /\ BoxOK(b)
    BY DEF RowsInv, RowsTyped, RowsOK
  <2>2. box'[b] = IF box[b].status \in {"online", "offline"} THEN Aged(box[b]) ELSE box[b]
    BY DEF Tick
  <2>3. /\ Later(box[b].silent, Silence) \in 0..Silence
        /\ Later(box[b].silent, Silence) >= box[b].silent
        /\ box[b].silent < Silence => Later(box[b].silent, Silence) = box[b].silent + 1
    BY <2>1, SilenceIsNat DEF Later, Box
  <2>4. /\ Later(box[b].offline, OfflineLimit) \in (0..OfflineLimit) \cup {Off}
        /\ box[b].offline = Off <=> Later(box[b].offline, OfflineLimit) = Off
        /\ box[b].offline # Off => Later(box[b].offline, OfflineLimit) <= box[b].offline + 1
    BY <2>1, SilenceIsNat DEF Later, Box, Off
  <2>5. CASE box[b].status \in {"online", "offline"}
    <3>1. /\ box'[b] \in Box /\ box'[b].status = box[b].status
          /\ box'[b].silent = Later(box[b].silent, Silence)
          /\ box'[b].offline = Later(box[b].offline, OfflineLimit)
      BY <2>1, <2>2, <2>3, <2>4, <2>5 DEF Box
    <3>2. ASSUME box[b].status = "offline"
          PROVE  /\ box'[b].offline # Off
                 /\ box'[b].silent >= StaleAfter + box'[b].offline
      <4>1. /\ box[b].offline \in 0..OfflineLimit /\ box[b].silent \in 0..Silence
            /\ box'[b].offline \in 0..OfflineLimit /\ box'[b].silent \in 0..Silence
            /\ box[b].silent >= StaleAfter + box[b].offline
        BY <2>1, <2>4, <3>1, <3>2 DEF BoxOK, Box
      <4>2. CASE box[b].silent < Silence
        BY <4>1, <4>2, <2>3, <2>4, <3>1, SilenceIsNat
      <4>3. CASE box[b].silent = Silence
        BY <4>1, <4>3, <2>3, <3>1, SilenceIsNat
      <4> QED
        BY <4>1, <4>2, <4>3, SilenceIsNat
    <3> QED
      BY <2>1, <2>4, <3>1, <3>2 DEF BoxOK
  <2>6. CASE box[b].status \notin {"online", "offline"}
    BY <2>1, <2>2, <2>6 DEF BoxOK
  <2> QED
    BY <2>5, <2>6
<1>2. box' \in [Boxes -> Box] /\ bound' \subseteq Boxes /\ UNCHANGED task
  BY <1>1 DEF Tick, RowsInv, RowsTyped
<1> QED
  BY <1>1, <1>2, BoxesQuiet

\* One box changes.
LEMMA OneBoxQuiet ==
  ASSUME RowsInv, NEW b \in Boxes, NEW r \in Box, box' = [box EXCEPT ![b] = r],
         bound' \subseteq Boxes, UNCHANGED <<task, exp>>,
         r.status = "online" => r.offline = Off,
         r.status = "offline" => r.offline # Off /\ r.silent >= StaleAfter + r.offline
  PROVE  Quiet
<1>1. box' \in [Boxes -> Box] /\ \A x \in Boxes : box'[x] = IF x = b THEN r ELSE box[x]
  BY DEF RowsInv, RowsTyped
<1>2. \A x \in Boxes : BoxOK(x)'
  BY <1>1 DEF RowsInv, RowsOK, BoxOK
<1> QED
  BY <1>1, <1>2, BoxesQuiet

LEMMA HeartbeatQuiet ==
  ASSUME RowsInv, NEW b \in Boxes, UpdateHeartbeat(b), UNCHANGED exp PROVE Quiet
<1>1. box[b] \in Box
  BY DEF RowsInv, RowsTyped
<1>2. /\ Beaten(box[b]) \in Box /\ Beaten(box[b]).status = "online"
      /\ Beaten(box[b]).offline = Off
  BY <1>1, ZeroIsTime DEF Beaten, Box, BoxStatuses
<1>3. box' = [box EXCEPT ![b] = Beaten(box[b])] /\ bound' \subseteq Boxes /\ UNCHANGED task
  BY DEF UpdateHeartbeat, RowsInv, RowsTyped
<1> QED
  BY <1>2, <1>3, OneBoxQuiet

LEMMA MarkOfflineQuiet ==
  ASSUME RowsInv, NEW b \in Boxes, MarkOffline(b), UNCHANGED exp PROVE Quiet
<1>1. box[b] \in Box /\ box[b].offline = Off /\ box[b].silent >= StaleAfter
  BY DEF RowsInv, RowsTyped, RowsOK, BoxOK, MarkOffline
<1>2. /\ Missed(box[b]) \in Box /\ Missed(box[b]).status = "offline"
      /\ Missed(box[b]).offline = 0 /\ Missed(box[b]).silent = box[b].silent
  BY <1>1, ZeroIsTime DEF Missed, Box, BoxStatuses
<1>3. box' = [box EXCEPT ![b] = Missed(box[b])] /\ bound' \subseteq Boxes /\ UNCHANGED task
  BY DEF MarkOffline, RowsInv, RowsTyped
<1>4. 0 # Off /\ StaleAfter + 0 = StaleAfter
  BY SilenceIsNat
<1> QED
  BY <1>1, <1>2, <1>3, <1>4, OneBoxQuiet

LEMMA RetiredFacts ==
  ASSUME NEW s \in {"draining", "revoked"}
  PROVE  Retired(s) \in Box /\ Retired(s).status = s
BY SilenceIsNat DEF Retired, Box, BoxStatuses

LEMMA BeginDrainQuiet ==
  ASSUME RowsInv, NEW b \in Boxes, BeginDrain(b), UNCHANGED exp PROVE Quiet
<1>1. box' = [box EXCEPT ![b] = Retired("draining")] /\ bound' \subseteq Boxes /\ UNCHANGED task
  BY DEF BeginDrain, RowsInv, RowsTyped
<1> QED
  BY <1>1, RetiredFacts, OneBoxQuiet

LEMMA RevokeDrainedQuiet ==
  ASSUME RowsInv, NEW b \in Boxes, RevokeDrained(b), UNCHANGED exp PROVE Quiet
<1>1. CASE box[b].status = "draining"
  <2>1. box' = [box EXCEPT ![b] = Retired("revoked")] /\ bound' \subseteq Boxes /\ UNCHANGED task
    BY <1>1 DEF RevokeDrained, RowsInv, RowsTyped
  <2> QED
    BY <2>1, RetiredFacts, OneBoxQuiet
<1>2. CASE box[b].status # "draining"
  <2>1. UNCHANGED <<box, bound, task>>
    BY <1>2 DEF RevokeDrained, boxVars
  <2>2. box' \in [Boxes -> Box] /\ bound' \subseteq Boxes /\ \A x \in Boxes : BoxOK(x)'
    BY <2>1 DEF RowsInv, RowsTyped, RowsOK, BoxOK
  <2> QED
    BY <2>1, <2>2, BoxesQuiet
<1> QED
  BY <1>1, <1>2

LEMMA AssignQuiet ==
  ASSUME RowsInv, NEW b \in Boxes, BoxStep(b), UNCHANGED exp PROVE Quiet
<1>1. UNCHANGED <<box, task>> /\ bound' \subseteq Boxes
  BY DEF BoxStep, Assign, Unassign, RowsInv, RowsTyped
<1>2. box' \in [Boxes -> Box] /\ \A x \in Boxes : BoxOK(x)'
  BY <1>1 DEF RowsInv, RowsTyped, RowsOK, BoxOK
<1> QED
  BY <1>1, <1>2, BoxesQuiet

\* Tasks on a box are failed, by the timeout or by force.
LEMMA FailTasksQuiet ==
  ASSUME RowsInv, NEW b \in Boxes, NEW code \in {"timeout", "force"},
         NEW ss \in SUBSET Held, FailTasks(TasksOf(b, ss), code), UNCHANGED exp,
         box' \in [Boxes -> Box], bound' \subseteq Boxes, \A x \in Boxes : BoxOK(x)',
         code = "timeout" => box[b].silent >= StaleAfter + OfflineLimit
  PROVE  /\ Quiet
         /\ \A e \in TasksOf(b, ss) : e \in Experiments /\ task'[e].status = "failed"
<1> DEFINE es == TasksOf(b, ss)
<1>0. "failed" \in TaskStatuses /\ code \in Codes
  BY DEF TaskStatuses, Outcomes, Codes
<1>1. ASSUME NEW x \in Experiments
      PROVE  /\ task[x] \in Task /\ task'[x] \in Task
             /\ x \notin es => task'[x] = task[x]
             /\ x \in es => /\ task'[x].status = "failed" /\ task'[x].code = code
                            /\ task'[x].box = task[x].box /\ task'[x].cancel = task[x].cancel
                            /\ task[x].status \in Held /\ task[x].box = b
  <2>1. task[x] \in Task /\ task'[x] = IF x \in es THEN Ended(task[x], "failed", code) ELSE task[x]
    BY DEF FailTasks, RowsInv, RowsTyped
  <2>2. x \in es => task[x].status \in Held /\ task[x].box = b
    BY DEF TasksOf
  <2> QED
    BY <2>1, <2>2, <1>0, EndedFacts
<1>2. RowsTyped'
  <2>1. task' \in [Experiments -> Task]
    BY <1>1 DEF FailTasks
  <2> QED
    BY <2>1 DEF RowsInv, RowsTyped
<1>3. es \subseteq Experiments
  BY DEF TasksOf
<1> HIDE DEF es
<1>4. ASSUME NEW x \in Experiments PROVE TaskOK(x)'
  <2>1. TaskOK(x)
    BY DEF RowsInv, RowsOK
  <2> QED
    BY <2>1, <1>1 DEF TaskOK, Held, OnBox, Before
<1>5. RowsOK'
  BY <1>4 DEF RowsOK
<1>6. \A x \in Experiments : QuietRow(x) /\ Onward(exp[x], exp'[x]) /\ Silenced(x)
  BY <1>1, OnwardSteps DEF QuietRow, Silenced, Outcomes
<1> QED
  BY <1>1, <1>2, <1>3, <1>5, <1>6 DEF Quiet, es

LEMMA TimeoutQuiet ==
  ASSUME RowsInv, NEW b \in Boxes, FailOfflineTimeouts(b), UNCHANGED exp
  PROVE  /\ Quiet
         /\ \A e \in TasksOf(b, OnBox) : e \in Experiments /\ task'[e].status = "failed"
<1>1. box' \in [Boxes -> Box] /\ bound' \subseteq Boxes /\ \A x \in Boxes : BoxOK(x)'
  BY DEF FailOfflineTimeouts, RowsInv, RowsTyped, RowsOK, BoxOK
<1>2. box[b].silent >= StaleAfter + OfflineLimit
  BY DEF FailOfflineTimeouts, Expired, RowsInv, RowsOK, BoxOK
<1>3. OnBox \in SUBSET Held
  BY DEF Held
<1> QED
  BY <1>1, <1>2, <1>3, FailTasksQuiet DEF FailOfflineTimeouts

LEMMA ForceQuiet ==
  ASSUME RowsInv, NEW b \in Boxes, ForceRevoke(b) \/ ForceUnassign(b), UNCHANGED exp
  PROVE  /\ Quiet
         /\ \A e \in TasksOf(b, Held) : e \in Experiments /\ task'[e].status = "failed"
<1>1. box' \in {box, [box EXCEPT ![b] = Retired("revoked")]}
  BY DEF ForceRevoke, ForceUnassign
<1>2. box' \in [Boxes -> Box]
  BY <1>1, RetiredFacts DEF RowsInv, RowsTyped
<1>3. \A x \in Boxes : box'[x] = box[x] \/ box'[x].status = "revoked"
  BY <1>1, RetiredFacts DEF RowsInv, RowsTyped
<1>4. \A x \in Boxes : BoxOK(x)'
  BY <1>3 DEF RowsInv, RowsOK, BoxOK
<1>5. bound' \subseteq Boxes /\ FailTasks(TasksOf(b, Held), "force")
  BY DEF ForceRevoke, ForceUnassign, RowsInv, RowsTyped
<1>6. Held \in SUBSET Held
  OBVIOUS
<1> QED
  BY <1>2, <1>4, <1>5, <1>6, FailTasksQuiet

\* The observer's transaction: the row handed over is never ahead of the row.
LEMMA ApplyTaskStatusQuiet ==
  ASSUME RowsInv, NEW c \in Call, CallOK(c), c.stage = "observe", c.kind \notin {"result", "drain"},
         ApplyTaskStatus(c.exp, c)
  PROVE  /\ Quiet
         /\ c.status = task[c.exp].status /\ c.status \in OnBox =>
              exp'[c.exp] # Before[c.status]
<1> DEFINE e == c.exp
           s == c.status
           t == task[e].status
<1>0. e \in Experiments /\ Claimed(e) /\ TaskOK(e) /\ exp[e] \in ExpStatuses
      /\ task[e] \in Task /\ UNCHANGED <<box, bound, task>>
  BY DEF CallOK, RowsInv, RowsTyped, RowsOK, ApplyTaskStatus, boxVars
<1>1. /\ s \in Held \cup Outcomes
      /\ s \in Outcomes => t \in Outcomes
      /\ s \in Held /\ t \in Held => Place[s] <= Place[t]
  BY DEF CallOK
<1>2. \A x \in Experiments : x # e => exp'[x] = exp[x]
  BY <1>0 DEF ApplyTaskStatus, RowsInv, RowsTyped
<1>3. exp'[e] = IF Ignored(exp[e], c) THEN exp[e] ELSE s
  BY <1>0 DEF ApplyTaskStatus, RowsInv, RowsTyped
<1>4. ~Conflicts(exp[e], c)
  BY DEF ApplyTaskStatus
<1>5. t \in Held \cup Outcomes
  BY <1>0 DEF Claimed, Task, TaskStatuses
<1>6. \/ exp'[e] = exp[e]
      \/ exp[e] \notin Terminal /\ PhaseTransition(exp[e], s) /\ exp'[e] = s
  BY <1>3, <1>4 DEF Conflicts, Ignored
<1> HIDE DEF e, s, t
<1>7. Onward(exp[e], exp'[e])
  <2>1. CASE exp[e] \notin Terminal /\ PhaseTransition(exp[e], s) /\ exp'[e] = s
    BY <2>1, OnwardSteps DEF PhaseTransition, Outcomes
  <2> QED
    BY <2>1, <1>6, OnwardSteps
<1>8. t \in Held => exp'[e] \in {t, Before[t], "canceled", "archived"}
  <2> HAVE t \in Held
  <2>1. exp[e] \in {t, Before[t], "canceled", "archived"}
    BY <1>0 DEF TaskOK, t
  <2>2. CASE exp[e] \notin Terminal /\ PhaseTransition(exp[e], s) /\ exp'[e] = s
    <3>1. s \in Held /\ Place[s] <= Place[t]
      BY <1>1 DEF Held, OnBox, Outcomes
    <3>2. s = t
      BY <2>1, <2>2, <3>1
         DEF PhaseTransition, ValidTransition, Held, OnBox, Before, Place, Terminal, Outcomes
    <3> QED
      BY <2>2, <3>2
  <2> QED
    BY <2>1, <2>2, <1>6
<1>9. TaskOK(e)'
  <2>1. exp'[e] \notin {"absent", "created"}
    BY <1>0, <1>1, <1>5, <1>6 DEF TaskOK, Held, OnBox, Outcomes, t
  <2>2. task'[e] = task[e] /\ task[e].status = t
    BY <1>0 DEF t
  <2>3. /\ t \in Held => task[e].box \in Boxes
        /\ t \notin {"absent", "queued"}
    BY <1>0 DEF TaskOK, Claimed, t
  <2> QED
    BY <2>1, <2>2, <2>3, <1>8 DEF TaskOK
<1>10. RowsTyped'
  <2>1. s \in ExpStatuses
    BY <1>1 DEF ExpStatuses, Terminal
  <2> QED
    BY <2>1, <1>0 DEF ApplyTaskStatus, RowsInv, RowsTyped, e, s
<1>11. RowsOK'
  <2>1. \A x \in Experiments : TaskOK(x)'
    BY <1>0, <1>2, <1>9 DEF RowsInv, RowsOK, TaskOK
  <2> QED
    BY <2>1, <1>0 DEF RowsInv, RowsOK, BoxOK
<1>12. \A x \in Experiments : QuietRow(x) /\ Onward(exp[x], exp'[x]) /\ Silenced(x)
  BY <1>0, <1>2, <1>7, OnwardSteps DEF QuietRow, Silenced
<1>13. s = t /\ s \in OnBox => exp'[e] # Before[s]
  <2> HAVE s = t /\ s \in OnBox
  <2>1. exp[e] \in {s, Before[s], "canceled", "archived"}
    BY <1>0 DEF TaskOK, t, Held
  <2>2. exp'[e] = s \/ exp[e] \in Terminal \/ exp[e] = "processing_result"
    BY <1>3 DEF Ignored, s, e
  <2> QED
    BY <1>6, <2>1, <2>2 DEF OnBox, Before, Terminal, Outcomes
<1> QED
  BY <1>10, <1>11, <1>12, <1>13 DEF Quiet, e, s, t

LEMMA ApplyResultQuiet ==
  ASSUME RowsInv, NEW e \in Experiments, Claimed(e), Settled(task[e].status), ApplyResult(e)
  PROVE  Quiet
<1>1. TaskOK(e) /\ exp[e] \in {"uploading", "processing_result"}
      /\ UNCHANGED <<box, bound, task>>
  BY DEF RowsInv, RowsOK, ApplyResult, boxVars
<1>2. \A x \in Experiments : exp'[x] = IF x = e THEN "processing_result" ELSE exp[x]
  BY DEF ApplyResult, RowsInv, RowsTyped
<1>3. RowsTyped'
  BY <1>1 DEF ApplyResult, RowsInv, RowsTyped, ExpStatuses, Held
<1>4. TaskOK(e)'
  BY <1>1, <1>2 DEF TaskOK, Settled, Held, OnBox, Outcomes, Claimed
<1>5. RowsOK'
  BY <1>1, <1>2, <1>4 DEF RowsInv, RowsOK, TaskOK, BoxOK
<1>6. \A x \in Experiments : QuietRow(x) /\ Onward(exp[x], exp'[x]) /\ Silenced(x)
  BY <1>1, <1>2, OnwardSteps DEF QuietRow, Silenced
<1> QED
  BY <1>3, <1>5, <1>6 DEF Quiet

-----------------------------------------------------------------------------
(* What quiet steps leave as it is.                                        *)

LEMMA QuietConsequences ==
  ASSUME RowsInv, Quiet, NEW e \in Experiments
  PROVE  /\ Claimed(e) => Claimed(e)' /\ task'[e].box = task[e].box
         /\ Claimed(e) /\ task'[e].status \in OnBox => task[e].status = task'[e].status
         /\ ~task'[e].cancel => ~task[e].cancel
         /\ Settled(task[e].status) => Settled(task'[e].status)
         /\ task[e].status \in Outcomes => task'[e].status \in Outcomes
         /\ Claimed(e) /\ task'[e].status \in Held => task'[e].status = task[e].status
         /\ Claimed(e) /\ task'[e].status \in OnBox /\ exp'[e] = Before[task'[e].status] =>
              exp[e] = Before[task[e].status]
         /\ Claimed(e) /\ ResumeTask(e) = "stop" => ResumeTask(e)' = "stop"
<1>1. QuietRow(e) /\ Onward(exp[e], exp'[e]) /\ TaskOK(e)
  BY DEF Quiet, RowsInv, RowsOK
<1>2. Claimed(e) /\ task'[e].status \in OnBox => task[e].status = task'[e].status
  BY <1>1 DEF QuietRow, Claimed, OnBox, Outcomes, Held
<1>3. ASSUME Claimed(e), task'[e].status \in OnBox, exp'[e] = Before[task'[e].status]
      PROVE  exp[e] = Before[task[e].status]
  <2>1. task[e].status \in OnBox /\ exp'[e] = Before[task[e].status]
    BY <1>2, <1>3
  <2>2. exp[e] \in {task[e].status, Before[task[e].status], "canceled", "archived"}
    BY <1>1, <2>1 DEF TaskOK, Held
  <2> QED
    BY <1>1, <2>1, <2>2, NotBack
<1>4. ~task'[e].cancel => ~task[e].cancel
  BY <1>1 DEF QuietRow
<1>5. Claimed(e) => Claimed(e)' /\ task'[e].box = task[e].box
  BY <1>1 DEF QuietRow, Claimed, Outcomes
<1>6. Claimed(e) /\ task'[e].status \in Held => task'[e].status = task[e].status
  BY <1>1 DEF QuietRow, Claimed, Held, OnBox, Outcomes
<1>7. /\ Settled(task[e].status) => Settled(task'[e].status)
      /\ task[e].status \in Outcomes => task'[e].status \in Outcomes
  BY <1>1 DEF QuietRow, Settled, Held, OnBox, Outcomes
<1>8. Claimed(e) /\ ResumeTask(e) = "stop" => ResumeTask(e)' = "stop"
  BY <1>2, <1>4 DEF ResumeTask
<1> QED
  BY <1>2, <1>3, <1>4, <1>5, <1>6, <1>7, <1>8

LEMMA QuietFiles ==
  ASSUME RowsInv, GateTyped, FilesOK, Quiet, UNCHANGED <<local, exec, stop, sync, lost>>
  PROVE  FilesOK'
<1> SUFFICES ASSUME NEW b \in Boxes, NEW e \in Experiments
             PROVE  Entry(b, e, local[b][e], exec[b][e])' /\ TurnOK(b, e)'
  BY DEF FilesOK
<1> DEFINE l == local[b][e]
           x == exec[b][e]
<1>1. Entry(b, e, l, x) /\ TurnOK(b, e)
  BY DEF FilesOK
<1>2. LocalOK(b, e, l, x)'
  BY <1>1, QuietConsequences DEF Entry, LocalOK
<1>3. KeptOK(b, e, l)'
  <2> SUFFICES ASSUME task'[e].box = b, task'[e].status \in OnBox, ~task'[e].cancel
               PROVE  e \in lost \/ l.known
    BY DEF KeptOK
  <2>1. Claimed(e)
    BY DEF Quiet, QuietRow, Claimed, OnBox, Outcomes
  <2> QED
    BY <1>1, <2>1, QuietConsequences DEF Entry, KeptOK
<1>4. EndOK(e, l)'
  BY <1>1, QuietConsequences DEF Entry, EndOK, LocalOK
<1>5. ChainOK(e, l, x)'
  <2>1. LocalOK(b, e, l, x) /\ ChainOK(e, l, x)
    BY <1>1 DEF Entry
  <2>2. CASE ~(l.known /\ task'[e].status \in OnBox)
    BY <2>2 DEF ChainOK
  <2>3. CASE l.known /\ task'[e].status \in OnBox
    <3>1. task'[e].status = task[e].status
      BY <2>1, <2>3, QuietConsequences DEF LocalOK
    <3> QED
      BY <2>1, <2>3, <3>1 DEF ChainOK
  <2> QED
    BY <2>2, <2>3
<1>6. LagOK(e, l, x)'
  BY <1>1, QuietConsequences DEF Entry, LagOK, LocalOK
<1>7. TurnOK(b, e)'
  BY <1>1, QuietConsequences DEF TurnOK
<1> QED
  BY <1>2, <1>3, <1>4, <1>5, <1>6, <1>7 DEF Entry

LEMMA QuietCall ==
  ASSUME RowsInv, Quiet, NEW c \in calls, CallOK(c)
  PROVE  CallOK(c)'
<1>1. CASE c.kind = "drain"
  BY <1>1 DEF CallOK
<1>2. CASE c.kind # "drain"
  <2>1. c.exp \in Experiments /\ Claimed(c.exp)
    BY <1>2 DEF CallOK
  <2> QED
    BY <1>2, <2>1, QuietConsequences DEF CallOK
<1> QED
  BY <1>1, <1>2

LEMMA QuietAsked ==
  ASSUME RowsInv, Quiet, UNCHANGED <<local, sync>>, NEW c \in calls, CallOK(c),
         AskedOK(c, local[c.box][c.exp])
  PROVE  AskedOK(c, local[c.box][c.exp])'
<1> SUFFICES ASSUME c.asked PROVE AskedOK(c, local[c.box][c.exp])'
  BY DEF AskedOK
<1>1. c.exp \in Experiments /\ Claimed(c.exp)
  BY DEF CallOK, AskedOK
<1> QED
  BY <1>1, QuietConsequences DEF AskedOK

\* A quiet step in which no gateway moves.
LEMMA QuietStep ==
  ASSUME GInv, Quiet, UNCHANGED gateVars, calls' \subseteq Call,
         \A c \in calls' : c \in calls \/ (~c.asked /\ CallOK(c)')
  PROVE  GInv'
<1>0. RowsInv /\ GateTyped /\ FilesOK /\ CallsOK
  BY DEF GInv, RowsInv
<1>1. FilesOK'
  BY <1>0, QuietFiles DEF gateVars
<1>2. \A c \in calls : CallOK(c)' /\ AskedOK(c, local[c.box][c.exp])'
  BY <1>0, QuietCall, QuietAsked DEF CallsOK, gateVars
<1>3. CallsOK'
  <2>1. \A c \in calls' : CallOK(c)' /\ AskedOK(c, local[c.box][c.exp])'
    BY <1>2 DEF AskedOK
  <2>2. AskedOnce'
    BY <1>0 DEF CallsOK, AskedOnce
  <2> QED
    BY <2>1, <2>2 DEF CallsOK
<1>4. GateTyped'
  BY <1>0 DEF GateTyped, gateVars
<1> QED
  BY <1>1, <1>3, <1>4 DEF GInv, Quiet

-----------------------------------------------------------------------------
(* Steps of gateways that leave the rows alone.                            *)

rows == <<box, bound, task, exp>>

LEMMA RowsKept ==
  ASSUME RowsInv, UNCHANGED rows PROVE Quiet
<1>1. box' \in [Boxes -> Box] /\ bound' \subseteq Boxes /\ \A b \in Boxes : BoxOK(b)'
  BY DEF RowsInv, RowsTyped, RowsOK, BoxOK, rows
<1> QED
  BY <1>1, BoxesQuiet DEF rows

\* The entry m answers for all that a caller may wait for in l.
Extends(l, m) ==
  /\ l.pend # <<>> => m.pend # <<>> /\ Head(m.pend) = Head(l.pend)
  /\ l.result => m.result

LEMMA AskedMoves ==
  ASSUME UNCHANGED <<task, exp>>, NEW c, NEW m, AskedOK(c, local[c.box][c.exp]),
         c.asked => sync'[c.box] = sync[c.box] /\ Extends(local[c.box][c.exp], m),
         m = local'[c.box][c.exp]
  PROVE  AskedOK(c, local[c.box][c.exp])'
BY DEF AskedOK, Extends

\* One entry and its goroutine move.
LEMMA EntryMoves ==
  ASSUME GInv, UNCHANGED <<task, exp, lost>>, NEW b \in Boxes, NEW e \in Experiments,
         NEW l \in LocalTask, NEW x \in Phases,
         local' = [local EXCEPT ![b][e] = l], exec' = [exec EXCEPT ![b][e] = x],
         Entry(b, e, l, x), \A d \in Boxes, y \in Experiments : TurnOK(d, y)',
         up' \subseteq Boxes, stop' \in [Boxes -> SUBSET Experiments],
         sync' \in [Boxes -> Experiments \cup {NoExp}]
  PROVE  FilesOK' /\ GateTyped'
<1>1. /\ local' \in [Boxes -> [Experiments -> LocalTask]]
      /\ exec' \in [Boxes -> [Experiments -> Phases]]
      /\ \A d \in Boxes, y \in Experiments :
           /\ local'[d][y] = IF d = b /\ y = e THEN l ELSE local[d][y]
           /\ exec'[d][y] = IF d = b /\ y = e THEN x ELSE exec[d][y]
  BY DEF GInv, GateTyped
<1>2. ASSUME NEW d \in Boxes, NEW y \in Experiments
      PROVE  Entry(d, y, local[d][y], exec[d][y])'
  <2>1. Entry(d, y, local'[d][y], exec'[d][y])
    BY <1>1 DEF GInv, FilesOK
  <2> QED
    BY <2>1 DEF Entry, LocalOK, KeptOK, EndOK, ChainOK, LagOK, Claimed, Chained, Latest, Prior,
                Reportable
<1> QED
  BY <1>1, <1>2 DEF FilesOK, GInv, GateTyped

\* The same, when Core does not notice.
LEMMA EntryStep ==
  ASSUME GInv, UNCHANGED <<box, bound, task, exp, calls, lost>>,
         NEW b \in Boxes, NEW e \in Experiments, NEW l \in LocalTask, NEW x \in Phases,
         local' = [local EXCEPT ![b][e] = l], exec' = [exec EXCEPT ![b][e] = x],
         Entry(b, e, l, x), \A d \in Boxes, y \in Experiments : TurnOK(d, y)',
         up' \subseteq Boxes, stop' \in [Boxes -> SUBSET Experiments],
         sync' \in [Boxes -> Experiments \cup {NoExp}],
         \A d \in Boxes : sync'[d] = sync[d] \/ Asked(d) = {},
         sync[b] = e /\ Asked(b) # {} => Extends(local[b][e], l)
  PROVE  GInv'
<1>1. FilesOK' /\ GateTyped'
  BY EntryMoves
<1>2. Quiet
  BY RowsKept DEF GInv, RowsInv, rows
<1>3. ASSUME NEW c \in calls PROVE CallOK(c)' /\ AskedOK(c, local[c.box][c.exp])'
  <2>1. CallOK(c) /\ AskedOK(c, local[c.box][c.exp]) /\ c \in Call /\ c.box \in Boxes
    BY DEF GInv, CallsOK, Call
  <2>2. CallOK(c)'
    BY <2>1, <1>2, QuietCall DEF GInv, RowsInv
  <2>3. ASSUME c.asked
        PROVE  /\ sync'[c.box] = sync[c.box]
               /\ Extends(local[c.box][c.exp], local'[c.box][c.exp])
    <3>1. c \in Asked(c.box) /\ c.exp = sync[c.box] /\ c.exp \in Experiments
      BY <2>1, <2>3 DEF Asked, AskedOK, CallOK
    <3>2. local'[c.box][c.exp] = IF c.box = b /\ c.exp = e THEN l ELSE local[c.box][c.exp]
      BY <2>1, <3>1 DEF GInv, GateTyped
    <3>3. Extends(local[c.box][c.exp], local[c.box][c.exp])
      BY DEF Extends
    <3> QED
      BY <2>1, <3>1, <3>2, <3>3
  <2> QED
    BY <2>1, <2>2, <2>3, AskedMoves
<1>4. CallsOK'
  BY <1>3 DEF GInv, CallsOK, AskedOnce
<1> QED
  BY <1>1, <1>2, <1>4 DEF GInv, Quiet

LEMMA BlankEntry ==
  ASSUME NEW b \in Boxes, NEW e \in Experiments, NEW l \in LocalTask, l = Blank,
         task[e].status \in OnBox => task[e].cancel \/ task[e].box # b \/ e \in lost
  PROVE  Entry(b, e, l, "none")
<1>1. l.pend = <<>> /\ ~l.known /\ ~l.started /\ ~l.finished /\ ~l.terminal /\ ~l.result
  BY BlankFacts
<1> QED
  BY <1>1 DEF Entry, LocalOK, KeptOK, EndOK, ChainOK, LagOK

\* A task that is to be stopped does not need its entry.
LEMMA StoppedNeedsNothing ==
  ASSUME NEW e \in Experiments, ResumeTask(e) = "stop"
  PROVE  task[e].status \in OnBox => task[e].cancel
BY DEF ResumeTask

LEMMA AdvanceStep ==
  ASSUME GInv, NEW b \in Boxes, NEW e \in Experiments, NEW from, NEW to \in Phases,
         NEW l \in LocalTask, Advance(b, e, from, to, l), Entry(b, e, l, to),
         l.known = local[b][e].known, Extends(local[b][e], l)
  PROVE  GInv'
<1>1. /\ local' = [local EXCEPT ![b][e] = l] /\ exec' = [exec EXCEPT ![b][e] = to]
      /\ UNCHANGED <<box, bound, task, exp, calls, up, stop, sync, lost>>
  BY DEF Advance, expVars
<1>2. GateTyped /\ FilesOK
  BY DEF GInv
<1>3. \A d \in Boxes, y \in Experiments : local'[d][y].known = local[d][y].known
  BY <1>1, <1>2 DEF GateTyped
<1>4. \A d \in Boxes, y \in Experiments : TurnOK(d, y)'
  BY <1>1, <1>2, <1>3 DEF FilesOK, TurnOK, Claimed, ResumeTask
<1> QED
  BY <1>1, <1>2, <1>4, EntryStep DEF GateTyped

LEMMA ReturnStep ==
  ASSUME GInv, NEW b \in Boxes, NEW e \in Experiments, NEW from,
         NEW l \in LocalTask, Return(b, e, from, l), Entry(b, e, l, "none"),
         l.known = local[b][e].known, Extends(local[b][e], l)
  PROVE  GInv'
<1> DEFINE m == IF e \in stop[b] THEN Blank ELSE l
<1>1. /\ local' = [local EXCEPT ![b][e] = m] /\ exec' = [exec EXCEPT ![b][e] = "none"]
      /\ stop' = [stop EXCEPT ![b] = @ \ {e}]
      /\ UNCHANGED <<box, bound, task, exp, calls, up, sync, lost>>
  BY DEF Return, expVars
<1>2. GateTyped /\ FilesOK /\ "none" \in Phases
  BY DEF GInv, Phases
<1>3. TurnOK(b, e)
  BY <1>2 DEF FilesOK
<1>4. m \in LocalTask /\ Entry(b, e, m, "none")
  BY <1>3, BlankFacts, BlankEntry, StoppedNeedsNothing DEF TurnOK
<1>5. sync[b] = e => m = l
  BY <1>3 DEF TurnOK
<1> HIDE DEF m
<1>6. \A d \in Boxes, y \in Experiments :
        local'[d][y] = IF d = b /\ y = e THEN m ELSE local[d][y]
  BY <1>1, <1>2 DEF GateTyped
<1>7. stop' \in [Boxes -> SUBSET Experiments] /\ \A d \in Boxes : stop'[d] \subseteq stop[d]
  BY <1>1, <1>2 DEF GateTyped
<1>8. \A d \in Boxes, y \in Experiments : TurnOK(d, y)'
  BY <1>1, <1>2, <1>5, <1>6, <1>7 DEF FilesOK, TurnOK, Claimed, ResumeTask
<1> QED
  BY <1>1, <1>2, <1>4, <1>5, <1>7, <1>8, EntryStep DEF GateTyped

-----------------------------------------------------------------------------
(* The goroutine of a task.                                                *)

\* A report is queued that may follow the last one.
LEMMA QueueEntry ==
  ASSUME NEW b \in Boxes, NEW e \in Experiments, NEW l \in LocalTask, NEW m \in LocalTask,
         NEW s \in Reports, NEW x, NEW y, Entry(b, e, l, x), l.known, LocalOK(b, e, m, y),
         m.pend = Append(l.pend, s), m.known = l.known, m.skipped = l.skipped,
         m.result = l.result, m.terminal => s \in Outcomes,
         l.pend = <<>> /\ ~l.started /\ ~l.finished /\ x = "none" => s = "preparing",
         ~m.skipped /\ task[e].status \in OnBox =>
           /\ Reportable(Latest(task[e].status, l.pend), s)
           /\ ~m.finished => /\ ~m.started \/ y = "started" => s = "preparing"
                             /\ m.started /\ y # "started" => s \in {"running", "uploading"}
  PROVE  Entry(b, e, m, y) /\ Extends(l, m)
<1>1. l.pend \in Seq(Reports)
  BY DEF LocalTask
<1>2. /\ m.pend # <<>>
      /\ l.pend # <<>> => Head(m.pend) = Head(l.pend)
      /\ l.pend = <<>> => Head(m.pend) = s
      /\ \A t : Latest(t, m.pend) = s
      /\ \A t : Chained(t, l.pend) /\ Reportable(Latest(t, l.pend), s) => Chained(t, m.pend)
  <2>1. PICK p \in Seq(Reports) : p = l.pend
    BY <1>1
  <2>2. /\ Append(p, s) # <<>>
        /\ p # <<>> => Head(Append(p, s)) = Head(p)
        /\ p = <<>> => Head(Append(p, s)) = s
    BY Appended
  <2>3. \A t : Latest(t, Append(p, s)) = s
    BY AppendedLast
  <2>4. \A t : Chained(t, p) /\ Reportable(Latest(t, p), s) => Chained(t, Append(p, s))
    BY AppendedChain
  <2> QED
    BY <2>1, <2>2, <2>3, <2>4
<1>3. KeptOK(b, e, m)
  BY DEF KeptOK
<1>4. EndOK(e, m)
  BY <1>2 DEF EndOK
<1>5. ChainOK(e, m, y)
  BY <1>2 DEF ChainOK, Entry
<1>6. LagOK(e, m, y)
  BY <1>2 DEF LagOK, Entry
<1>7. Extends(l, m)
  BY <1>2 DEF Extends
<1> QED
  BY <1>3, <1>4, <1>5, <1>6, <1>7 DEF Entry

\* What is known while the goroutine of a task runs.
LEMMA InHand ==
  ASSUME GInv, NEW b \in Boxes, NEW e \in Experiments
  PROVE  /\ local[b][e] \in LocalTask /\ local[b][e].pend \in Seq(Reports)
         /\ Entry(b, e, local[b][e], exec[b][e])
         /\ exec[b][e] # "none" => /\ local[b][e].known /\ ~local[b][e].finished
                                   /\ ~local[b][e].terminal /\ ~local[b][e].result
         /\ exec[b][e] \in {"started", "run", "bundle"} => local[b][e].started
<1>1. local[b][e] \in LocalTask /\ Entry(b, e, local[b][e], exec[b][e])
  BY DEF GInv, GateTyped, FilesOK
<1>2. local[b][e].pend \in Seq(Reports)
  BY <1>1 DEF LocalTask
<1> QED
  BY <1>1, <1>2 DEF Entry, LocalOK

LEMMA ExtendsItself ==
  ASSUME NEW l PROVE Extends(l, l)
BY DEF Extends

LEMMA LaunchKeeps ==
  ASSUME GInv, NEW b \in Boxes, NEW e \in Experiments, Launch(b, e) PROVE GInv'
<1> DEFINE l == local[b][e]
           m == IF l.started THEN l ELSE Queued(l, "preparing")
<1>1. /\ l \in LocalTask /\ Entry(b, e, l, "none") /\ l.known /\ ~l.finished
      /\ Advance(b, e, "none", "prepare", m) /\ "prepare" \in Phases /\ "preparing" \in Reports
  BY InHand DEF Launch, Advance, Phases, Reports
<1>2. CASE l.started
  <2>1. Entry(b, e, l, "prepare")
    BY <1>1, <1>2 DEF Entry, LocalOK, KeptOK, EndOK, ChainOK, LagOK
  <2> QED
    BY <1>1, <1>2, <2>1, AdvanceStep, ExtendsItself
<1>3. CASE ~l.started
  <2> DEFINE q == Queued(l, "preparing")
  <2>1. /\ q \in LocalTask /\ q.pend = Append(l.pend, "preparing") /\ q.known = l.known
        /\ q.started = l.started /\ q.finished = l.finished /\ q.terminal = l.terminal
        /\ q.result = l.result /\ q.skipped = l.skipped
    BY <1>1, QueuedFacts
  <2>2. m = q
    BY <1>3
  <2> HIDE DEF q, m
  <2>3. LocalOK(b, e, q, "prepare") /\ ~q.terminal
    BY <1>1, <2>1 DEF Entry, LocalOK
  <2>4. ~q.skipped /\ task[e].status \in OnBox =>
          Reportable(Latest(task[e].status, l.pend), "preparing")
    BY <1>1, <1>3, <2>1 DEF Entry, ChainOK, Reportable
  <2>5. Entry(b, e, q, "prepare") /\ Extends(l, q)
    BY <1>1, <1>3, <2>1, <2>3, <2>4, QueueEntry
  <2> QED
    BY <1>1, <2>1, <2>2, <2>5, AdvanceStep
<1> QED
  BY <1>2, <1>3

\* The task ends: what the goroutine knows of the chain allows every outcome.
LEMMA EndsKeeps ==
  ASSUME GInv, NEW b \in Boxes, NEW e \in Experiments,
         NEW s \in {"failed", "canceled", "timed_out"}, NEW from \in {"prepare", "run", "bundle"},
         Return(b, e, from, TerminalOnly(local[b][e], s))
  PROVE  GInv'
<1> DEFINE l == local[b][e]
           q == TerminalOnly(l, s)
<1>1. exec[b][e] = from /\ s \in Reports /\ s \in Outcomes
  BY DEF Return, Reports, Outcomes
<1>2. l \in LocalTask /\ Entry(b, e, l, from) /\ l.known /\ ~l.finished /\ ~l.result
  BY <1>1, InHand
<1>3. /\ q \in LocalTask /\ q.pend = Append(l.pend, s) /\ q.known = l.known
      /\ q.started = l.started /\ q.finished /\ q.terminal
      /\ q.result = l.result /\ q.skipped = l.skipped
  BY <1>1, <1>2, TerminalFacts
<1>4. Return(b, e, from, q)
  OBVIOUS
<1> HIDE DEF q
<1>5. LocalOK(b, e, q, "none")
  BY <1>2, <1>3 DEF Entry, LocalOK
<1>6. ~q.skipped /\ task[e].status \in OnBox => Reportable(Latest(task[e].status, l.pend), s)
  <2> HAVE ~q.skipped /\ task[e].status \in OnBox
  <2>1. Latest(task[e].status, l.pend) \in {"preparing", "running", "uploading"}
    BY <1>2, <1>3 DEF Entry, ChainOK
  <2> QED
    BY <2>1 DEF Reportable, ValidTransition
<1>7. Entry(b, e, q, "none") /\ Extends(l, q)
  BY <1>1, <1>2, <1>3, <1>5, <1>6, QueueEntry
<1> QED
  BY <1>3, <1>4, <1>7, ReturnStep

LEMMA StartRuntimeKeeps ==
  ASSUME GInv, NEW b \in Boxes, NEW e \in Experiments, StartRuntime(b, e) PROVE GInv'
<1> DEFINE l == local[b][e]
           m == [l EXCEPT !.started = TRUE]
           to == IF l.started THEN "run" ELSE "started"
<1>1. exec[b][e] = "prepare" /\ Advance(b, e, "prepare", to, m) /\ to \in Phases
  BY DEF StartRuntime, Advance, Phases
<1>2. l \in LocalTask /\ Entry(b, e, l, "prepare") /\ l.known /\ ~l.finished
  BY <1>1, InHand
<1>3. /\ m \in LocalTask /\ m.pend = l.pend /\ m.known = l.known /\ m.started
      /\ m.finished = l.finished /\ m.terminal = l.terminal /\ m.result = l.result
      /\ m.skipped = l.skipped
  BY <1>2 DEF LocalTask
<1>4. to \in {"run", "started"} /\ (to = "started" <=> ~l.started)
  OBVIOUS
<1> HIDE DEF m, to
<1>5. Entry(b, e, m, to)
  <2>1. LocalOK(b, e, m, to) /\ KeptOK(b, e, m) /\ EndOK(e, m)
    BY <1>2, <1>3, <1>4 DEF Entry, LocalOK, KeptOK, EndOK
  <2>2. ChainOK(e, m, to)
    BY <1>2, <1>3, <1>4 DEF Entry, ChainOK
  <2>3. LagOK(e, m, to)
    BY <1>2, <1>3, <1>4 DEF Entry, LagOK
  <2> QED
    BY <2>1, <2>2, <2>3 DEF Entry
<1>6. Extends(l, m)
  BY <1>3 DEF Extends
<1> QED
  BY <1>1, <1>3, <1>5, <1>6, AdvanceStep

\* QueueRunning and RunSucceeds.
LEMMA QueuedKeeps ==
  ASSUME GInv, NEW b \in Boxes, NEW e \in Experiments,
         NEW s \in {"running", "uploading"}, NEW from, NEW to,
         <<from, to, s>> \in {<<"started", "run", "running">>, <<"run", "bundle", "uploading">>},
         Advance(b, e, from, to, Queued(local[b][e], s))
  PROVE  GInv'
<1> DEFINE l == local[b][e]
           q == Queued(l, s)
<1>1. exec[b][e] = from /\ s \in Reports /\ to \in Phases /\ to # "started" /\ to # "none"
      /\ \/ from = "started" /\ s = "running"
         \/ from = "run" /\ s = "uploading"
  BY DEF Advance, Reports, Phases
<1>2. l \in LocalTask /\ Entry(b, e, l, from) /\ l.known /\ ~l.finished /\ l.started
      /\ ~l.terminal /\ ~l.result
  BY <1>1, InHand
<1>3. /\ q \in LocalTask /\ q.pend = Append(l.pend, s) /\ q.known = l.known
      /\ q.started = l.started /\ q.finished = l.finished /\ q.terminal = l.terminal
      /\ q.result = l.result /\ q.skipped = l.skipped
  BY <1>1, <1>2, QueuedFacts
<1>4. Advance(b, e, from, to, q)
  OBVIOUS
<1> HIDE DEF q
<1>5. LocalOK(b, e, q, to)
  BY <1>2, <1>3 DEF Entry, LocalOK
<1>6. ~q.skipped /\ task[e].status \in OnBox => Reportable(Latest(task[e].status, l.pend), s)
  BY <1>1, <1>2, <1>3 DEF Entry, ChainOK, Reportable, ValidTransition
<1>7. Entry(b, e, q, to) /\ Extends(l, q)
  BY <1>1, <1>2, <1>3, <1>5, <1>6, QueueEntry
<1> QED
  BY <1>1, <1>3, <1>4, <1>7, AdvanceStep

LEMMA DetachKeeps ==
  ASSUME GInv, NEW b \in Boxes, NEW e \in Experiments, Detach(b, e) PROVE GInv'
<1> DEFINE l == local[b][e]
<1>1. exec[b][e] = "run" /\ Return(b, e, "run", l)
  BY DEF Detach, Return
<1>2. l \in LocalTask /\ Entry(b, e, l, "run") /\ l.known /\ l.started
  BY <1>1, InHand
<1>3. Entry(b, e, l, "none")
  BY <1>2 DEF Entry, LocalOK, KeptOK, EndOK, ChainOK, LagOK
<1> QED
  BY <1>1, <1>2, <1>3, ReturnStep, ExtendsItself

LEMMA BundleReadyKeeps ==
  ASSUME GInv, NEW b \in Boxes, NEW e \in Experiments, BundleReady(b, e) PROVE GInv'
<1> DEFINE l == local[b][e]
           m == [l EXCEPT !.finished = TRUE, !.result = TRUE]
<1>1. exec[b][e] = "bundle" /\ Return(b, e, "bundle", m)
  BY DEF BundleReady, Return
<1>2. l \in LocalTask /\ Entry(b, e, l, "bundle") /\ l.known /\ l.started /\ ~l.terminal
  BY <1>1, InHand
<1>3. /\ m \in LocalTask /\ m.pend = l.pend /\ m.known = l.known /\ m.started = l.started
      /\ m.finished /\ m.terminal = l.terminal /\ m.result /\ m.skipped = l.skipped
  BY <1>2 DEF LocalTask
<1> HIDE DEF m
<1>4. Entry(b, e, m, "none")
  BY <1>2, <1>3 DEF Entry, LocalOK, KeptOK, EndOK, ChainOK, LagOK
<1>5. Extends(l, m)
  BY <1>3 DEF Extends
<1> QED
  BY <1>1, <1>2, <1>3, <1>4, <1>5, ReturnStep

LEMMA ExecuteKeeps ==
  ASSUME GInv, NEW b \in Boxes, NEW e \in Experiments, Execute(b, e) PROVE GInv'
<1>1. ASSUME QueueRunning(b, e) \/ RunSucceeds(b, e) PROVE GInv'
  BY <1>1, QueuedKeeps DEF QueueRunning, RunSucceeds
<1>2. ASSUME PrepareFails(b, e) \/ BundleFails(b, e) PROVE GInv'
  BY <1>2, EndsKeeps DEF PrepareFails, BundleFails
<1>3. ASSUME NEW s \in Outcomes \ {"succeeded"}, RunEnds(b, e, s) PROVE GInv'
  BY <1>3, EndsKeeps DEF RunEnds, Outcomes
<1> QED
  BY <1>1, <1>2, <1>3, LaunchKeeps, StartRuntimeKeeps, DetachKeeps, BundleReadyKeeps DEF Execute

-----------------------------------------------------------------------------
(* The sync pass, and the end of a process.                                *)

LEMMA NobodyWaits ==
  ASSUME GInv, NEW b \in Boxes, sync[b] = NoExp PROVE Asked(b) = {}
<1> SUFFICES ASSUME NEW c \in Asked(b) PROVE FALSE
  OBVIOUS
<1>1. c \in calls /\ c.box = b /\ c.asked /\ CallOK(c) /\ AskedOK(c, local[c.box][c.exp])
  BY DEF Asked, GInv, CallsOK
<1>2. c.exp \in Experiments /\ sync[b] = c.exp
  BY <1>1 DEF CallOK, AskedOK
<1> QED
  BY <1>2, GatewayConstants

LEMMA ResumeKeeps ==
  ASSUME GInv, NEW b \in Boxes, NEW e \in Experiments, Resume(b, e) PROVE GInv'
<1> DEFINE l == local[b][e]
           x == exec[b][e]
<1>1. /\ l \in LocalTask /\ Entry(b, e, l, x) /\ l.known /\ TurnOK(b, e) /\ Claimed(e)
      /\ Asked(b) = {} /\ sync[b] = NoExp /\ x \in Phases /\ NoExp # e
      /\ UNCHANGED <<box, bound, task, exp, calls, up, exec, lost>>
  BY InHand, NobodyWaits, GatewayConstants
     DEF Resume, expVars, GInv, GateTyped, FilesOK, Entry, LocalOK
<1>2. GateTyped /\ FilesOK
  BY DEF GInv
<1>3. exec' = [exec EXCEPT ![b][e] = x]
  BY <1>1, <1>2 DEF GateTyped
<1>4. CASE ResumeTask(e) = "continue"
  <2>1. sync' = [sync EXCEPT ![b] = e] /\ UNCHANGED <<local, stop>>
    BY <1>4 DEF Resume
  <2>2. local' = [local EXCEPT ![b][e] = l]
    BY <2>1, <1>2 DEF GateTyped
  <2>3. sync' \in [Boxes -> Experiments \cup {NoExp}] /\ \A d \in Boxes : d # b => sync'[d] = sync[d]
    BY <2>1, <1>2 DEF GateTyped
  <2>4. e \notin stop[b]
    BY <1>1, <1>4 DEF TurnOK
  <2>5. \A d \in Boxes, y \in Experiments : TurnOK(d, y)'
    BY <1>1, <1>2, <2>1, <2>3, <2>4 DEF FilesOK, GateTyped, TurnOK, Claimed, ResumeTask
  <2>6. \A d \in Boxes : sync'[d] = sync[d] \/ Asked(d) = {}
    BY <1>1, <2>3
  <2> QED
    BY <1>1, <1>2, <1>3, <2>1, <2>2, <2>3, <2>5, <2>6, EntryStep DEF GateTyped
<1>5. CASE ResumeTask(e) # "continue" /\ x = "none"
  <2>1. local' = [local EXCEPT ![b][e] = Blank] /\ UNCHANGED <<sync, stop>>
    BY <1>5 DEF Resume
  <2>2. ResumeTask(e) = "stop"
    BY <1>5 DEF ResumeTask
  <2>3. Entry(b, e, Blank, "none") /\ Blank \in LocalTask
    BY <2>2, BlankFacts, BlankEntry, StoppedNeedsNothing
  <2>4. \A d \in Boxes, y \in Experiments :
          local'[d][y] = IF d = b /\ y = e THEN Blank ELSE local[d][y]
    BY <2>1, <1>2 DEF GateTyped
  <2>5. \A d \in Boxes, y \in Experiments : TurnOK(d, y)'
    BY <1>1, <1>2, <2>1, <2>4 DEF FilesOK, TurnOK, Claimed, ResumeTask
  <2> QED
    BY <1>1, <1>2, <1>3, <1>5, <2>1, <2>3, <2>5, EntryStep DEF GateTyped
<1>6. CASE ResumeTask(e) # "continue" /\ x # "none"
  <2>1. stop' = [stop EXCEPT ![b] = @ \cup {e}] /\ UNCHANGED <<sync, local>>
    BY <1>6 DEF Resume
  <2>2. ResumeTask(e) = "stop"
    BY <1>6 DEF ResumeTask
  <2>3. local' = [local EXCEPT ![b][e] = l]
    BY <2>1, <1>2 DEF GateTyped
  <2>4. /\ stop' \in [Boxes -> SUBSET Experiments]
        /\ \A d \in Boxes, y \in Experiments : y \in stop'[d] <=> y \in stop[d] \/ (d = b /\ y = e)
    BY <2>1, <1>2 DEF GateTyped
  <2>5. \A d \in Boxes, y \in Experiments : TurnOK(d, y)'
    BY <1>1, <1>2, <2>1, <2>2, <2>4 DEF FilesOK, TurnOK, Claimed, ResumeTask
  <2> QED
    BY <1>1, <1>2, <1>3, <2>1, <2>3, <2>4, <2>5, EntryStep DEF GateTyped
<1> QED
  BY <1>4, <1>5, <1>6

LEMMA EndSyncKeeps ==
  ASSUME GInv, NEW b \in Boxes, NEW e \in Experiments, EndSync(b, e) PROVE GInv'
<1> DEFINE l == local[b][e]
           x == exec[b][e]
           m == IF Complete(l) THEN Blank ELSE l
<1>1. /\ l \in LocalTask /\ Entry(b, e, l, x) /\ TurnOK(b, e) /\ x \in Phases
      /\ Asked(b) = {} /\ sync[b] = e /\ sync' = [sync EXCEPT ![b] = NoExp]
      /\ UNCHANGED <<box, bound, task, exp, calls, up, exec, stop, lost>>
  BY InHand DEF EndSync, expVars, GInv, GateTyped, FilesOK
<1>2. GateTyped /\ FilesOK
  BY DEF GInv
<1>3. l.known
  BY <1>1 DEF TurnOK
<1>4. m \in LocalTask /\ Entry(b, e, m, x)
  <2>1. CASE Complete(l)
    <3>1. x = "none" /\ task[e].status \notin OnBox
      BY <1>1, <1>3, <2>1 DEF Complete, Entry, LocalOK, EndOK
    <3> QED
      BY <2>1, <3>1, BlankFacts, BlankEntry
  <2> QED
    BY <1>1, <2>1
<1>5. local' = [local EXCEPT ![b][e] = m]
  BY <1>2 DEF EndSync, GateTyped
<1> HIDE DEF m
<1>6. exec' = [exec EXCEPT ![b][e] = x]
  BY <1>1, <1>2 DEF GateTyped
<1>7. /\ sync' \in [Boxes -> Experiments \cup {NoExp}] /\ sync'[b] = NoExp
      /\ \A d \in Boxes : d # b => sync'[d] = sync[d]
  BY <1>1, <1>2 DEF GateTyped
<1>8. \A d \in Boxes, y \in Experiments : d # b => local'[d][y] = local[d][y]
  BY <1>2, <1>5 DEF GateTyped
<1>9. \A d \in Boxes, y \in Experiments : TurnOK(d, y)'
  BY <1>1, <1>2, <1>7, <1>8, GatewayConstants DEF FilesOK, TurnOK, Claimed, ResumeTask
<1>10. \A d \in Boxes : sync'[d] = sync[d] \/ Asked(d) = {}
  BY <1>1, <1>7
<1> QED
  BY <1>1, <1>2, <1>4, <1>5, <1>6, <1>7, <1>9, <1>10, EntryStep DEF GateTyped

\* A gateway no longer waits for its call.
LEMMA Unasked ==
  ASSUME GInv, UNCHANGED rows, NEW b \in Boxes,
         calls' = (calls \ Asked(b)) \cup {[c EXCEPT !.asked = FALSE] : c \in Asked(b)},
         \A d \in Boxes : d # b => sync'[d] = sync[d] /\ local'[d] = local[d]
  PROVE  calls' \subseteq Call /\ CallsOK'
<1>0. \A c \in calls : /\ c \in Call /\ c.box \in Boxes
                       /\ CallOK(c) /\ AskedOK(c, local[c.box][c.exp])
  BY DEF GInv, CallsOK, Call
<1>1. ASSUME NEW c \in Call
      PROVE  /\ [c EXCEPT !.asked = FALSE] \in Call /\ ~[c EXCEPT !.asked = FALSE].asked
             /\ CallOK(c) => CallOK([c EXCEPT !.asked = FALSE])
  <2> DEFINE d == [c EXCEPT !.asked = FALSE]
  <2>1. /\ d \in Call /\ ~d.asked /\ d.kind = c.kind /\ d.exp = c.exp
        /\ d.status = c.status /\ d.stage = c.stage
    BY DEF Call
  <2> HIDE DEF d
  <2>2. CallOK(c) => CallOK(d)
    BY <2>1 DEF CallOK
  <2> QED
    BY <2>1, <2>2 DEF d
<1>2. \A d \in calls' : (d \in calls /\ d \notin Asked(b)) \/ (d \in Call /\ ~d.asked /\ CallOK(d))
  BY <1>0, <1>1 DEF Asked
<1>3. calls' \subseteq Call
  BY <1>0, <1>2
<1>4. ASSUME NEW d \in calls' PROVE CallOK(d)' /\ AskedOK(d, local[d.box][d.exp])'
  <2>1. CallOK(d)
    BY <1>0, <1>2
  <2>2. CallOK(d)'
    BY <2>1 DEF CallOK, Claimed, Settled, rows
  <2>3. CASE ~d.asked
    BY <2>2, <2>3 DEF AskedOK
  <2>4. CASE d.asked
    <3>1. d \in calls /\ d.box \in Boxes /\ d.box # b
      BY <2>4, <1>0, <1>2 DEF Asked
    <3>2. AskedOK(d, local[d.box][d.exp]) /\ local'[d.box][d.exp] = local[d.box][d.exp]
          /\ sync'[d.box] = sync[d.box]
      BY <3>1, <1>0
    <3> QED
      BY <2>2, <3>2, AskedMoves, ExtendsItself DEF rows
  <2> QED
    BY <2>2, <2>3, <2>4
<1>5. AskedOnce'
  BY <1>2 DEF AskedOnce, GInv, CallsOK
<1> QED
  BY <1>3, <1>4, <1>5 DEF CallsOK

LEMMA EntriesStay ==
  ASSUME GInv, UNCHANGED <<task, exp, local, exec, lost>>
  PROVE  \A d \in Boxes, y \in Experiments : Entry(d, y, local[d][y], exec[d][y])'
<1> SUFFICES ASSUME NEW d \in Boxes, NEW y \in Experiments
             PROVE  Entry(d, y, local[d][y], exec[d][y])'
  OBVIOUS
<1>1. Entry(d, y, local[d][y], exec[d][y])
  BY DEF GInv, FilesOK
<1>2. LocalOK(d, y, local[d][y], exec[d][y])' /\ KeptOK(d, y, local[d][y])'
  BY <1>1 DEF Entry, LocalOK, KeptOK, Claimed
<1>3. EndOK(y, local[d][y])' /\ ChainOK(y, local[d][y], exec[d][y])'
  BY <1>1 DEF Entry, EndOK, ChainOK
<1>4. LagOK(y, local[d][y], exec[d][y])'
  BY <1>1 DEF Entry, LagOK
<1> QED
  BY <1>2, <1>3, <1>4 DEF Entry

LEMMA GiveUpKeeps ==
  ASSUME GInv, NEW b \in Boxes, GiveUp(b) PROVE GInv'
<1>1. /\ UNCHANGED <<box, bound, task, exp, up, local, exec, stop, lost>>
      /\ sync' = [sync EXCEPT ![b] = NoExp]
      /\ calls' = (calls \ Asked(b)) \cup {[c EXCEPT !.asked = FALSE] : c \in Asked(b)}
  BY DEF GiveUp, expVars
<1>2. /\ sync' \in [Boxes -> Experiments \cup {NoExp}] /\ sync'[b] = NoExp
      /\ \A d \in Boxes : d # b => sync'[d] = sync[d]
  BY <1>1 DEF GInv, GateTyped
<1>3. calls' \subseteq Call /\ CallsOK'
  BY <1>1, <1>2, Unasked DEF rows
<1>4. FilesOK'
  <2>1. \A d \in Boxes, y \in Experiments : Entry(d, y, local[d][y], exec[d][y])'
    BY <1>1, EntriesStay
  <2>2. \A d \in Boxes, y \in Experiments : TurnOK(d, y)'
    BY <1>1, <1>2, GatewayConstants DEF GInv, FilesOK, TurnOK, Claimed, ResumeTask
  <2> QED
    BY <2>1, <2>2 DEF FilesOK
<1>5. RowsTyped' /\ RowsOK'
  BY <1>1, RowsKept DEF GInv, RowsInv, Quiet, rows
<1>6. GateTyped'
  BY <1>1, <1>2 DEF GInv, GateTyped
<1> QED
  BY <1>3, <1>4, <1>5, <1>6 DEF GInv

LEMMA EndKeeps ==
  ASSUME GInv, NEW b \in Boxes, End(b) PROVE GInv'
<1>1. /\ UNCHANGED <<box, bound, task, exp, lost>>
      /\ up' = up \ {b}
      /\ exec' = [exec EXCEPT ![b] = [e \in Experiments |-> "none"]]
      /\ stop' = [stop EXCEPT ![b] = {}]
      /\ sync' = [sync EXCEPT ![b] = NoExp]
      /\ calls' = (calls \ Asked(b)) \cup {[c EXCEPT !.asked = FALSE] : c \in Asked(b)}
  BY DEF End, expVars
<1> DEFINE Marked(e) == Interrupted(local[b][e], exec[b][e])
<1>2. GateTyped /\ FilesOK
  BY DEF GInv
<1>3. local' = [local EXCEPT ![b] = [e \in Experiments |-> Marked(e)]]
  BY DEF End
<1>4. ASSUME NEW e \in Experiments
      PROVE  Marked(e) \in LocalTask /\ Entry(b, e, Marked(e), "none")
  <2> DEFINE l == local[b][e]
             m == Marked(e)
  <2>1. l \in LocalTask /\ Entry(b, e, l, exec[b][e]) /\ exec[b][e] \in Phases
    BY <1>2, InHand DEF GateTyped
  <2>2. /\ m \in LocalTask /\ m.pend = l.pend /\ m.known = l.known /\ m.started = l.started
        /\ m.finished = l.finished /\ m.terminal = l.terminal /\ m.result = l.result
        /\ m.skipped = (l.skipped \/ exec[b][e] = "started")
    BY <2>1 DEF LocalTask, Interrupted
  <2> HIDE DEF m
  <2>3. LocalOK(b, e, m, "none") /\ KeptOK(b, e, m) /\ EndOK(e, m) /\ LagOK(e, m, "none")
    BY <2>1, <2>2 DEF Entry, LocalOK, KeptOK, EndOK, LagOK
  <2>4. ChainOK(e, m, "none")
    BY <2>1, <2>2 DEF Entry, ChainOK
  <2>5. Entry(b, e, m, "none")
    BY <2>3, <2>4 DEF Entry
  <2> QED
    BY <2>2, <2>5 DEF m
<1> HIDE DEF Marked
<1>5. /\ local' \in [Boxes -> [Experiments -> LocalTask]]
      /\ exec' \in [Boxes -> [Experiments -> Phases]]
      /\ stop' \in [Boxes -> SUBSET Experiments]
      /\ sync' \in [Boxes -> Experiments \cup {NoExp}]
  <2>1. [e \in Experiments |-> Marked(e)] \in [Experiments -> LocalTask]
    BY <1>4
  <2>2. [e \in Experiments |-> "none"] \in [Experiments -> Phases]
    BY DEF Phases
  <2> QED
    BY <1>1, <1>2, <1>3, <2>1, <2>2 DEF GateTyped
<1>6. /\ \A d \in Boxes : d # b => /\ local'[d] = local[d] /\ exec'[d] = exec[d]
                                   /\ stop'[d] = stop[d] /\ sync'[d] = sync[d]
      /\ \A y \in Experiments : local'[b][y] = Marked(y) /\ exec'[b][y] = "none"
      /\ stop'[b] = {} /\ sync'[b] = NoExp
  BY <1>1, <1>2, <1>3 DEF GateTyped
<1>7. calls' \subseteq Call /\ CallsOK'
  BY <1>1, <1>6, Unasked DEF rows
<1>8. ASSUME NEW d \in Boxes, NEW y \in Experiments
      PROVE  Entry(d, y, local[d][y], exec[d][y])' /\ TurnOK(d, y)'
  <2>1. Entry(d, y, local'[d][y], exec'[d][y])
    BY <1>2, <1>4, <1>6 DEF FilesOK
  <2>2. Entry(d, y, local[d][y], exec[d][y])'
    BY <1>1, <2>1 DEF Entry, LocalOK, KeptOK, EndOK, ChainOK, LagOK, Claimed, Chained, Latest, Prior,
                Reportable
  <2>3. TurnOK(d, y)'
    BY <1>1, <1>2, <1>6, GatewayConstants DEF FilesOK, TurnOK, Claimed, ResumeTask
  <2> QED
    BY <2>2, <2>3
<1>9. GateTyped'
  BY <1>1, <1>2, <1>5 DEF GateTyped
<1>10. RowsTyped' /\ RowsOK'
  BY <1>1, RowsKept DEF GInv, RowsInv, Quiet, rows
<1> QED
  BY <1>7, <1>8, <1>9, <1>10 DEF GInv, FilesOK

-----------------------------------------------------------------------------
(* Core's part of a call.                                                  *)

\* Only calls that are still there matter.
LEMMA DroppedCalls ==
  ASSUME GInv, Quiet, calls' \subseteq calls,
         \A c \in calls' : c.asked => /\ sync'[c.box] = sync[c.box]
                                      /\ local'[c.box] = local[c.box]
  PROVE  calls' \subseteq Call /\ CallsOK'
<1>0. RowsInv
  BY DEF GInv, RowsInv
<1>1. ASSUME NEW c \in calls' PROVE CallOK(c)' /\ AskedOK(c, local[c.box][c.exp])'
  <2>1. c \in calls /\ CallOK(c) /\ AskedOK(c, local[c.box][c.exp])
    BY DEF GInv, CallsOK
  <2>2. CallOK(c)'
    BY <1>0, <2>1, QuietCall
  <2>3. ASSUME c.asked PROVE AskedOK(c, local[c.box][c.exp])'
    <3>1. c.exp \in Experiments /\ Claimed(c.exp)
      BY <2>1, <2>3 DEF CallOK, AskedOK
    <3> QED
      BY <1>0, <2>1, <2>3, <3>1, QuietConsequences DEF AskedOK
  <2>4. AskedOK(c, local[c.box][c.exp])'
    BY <2>3 DEF AskedOK
  <2> QED
    BY <2>2, <2>4
<1> QED
  BY <1>1 DEF GInv, CallsOK, AskedOnce

LEMMA RefusedStep ==
  ASSUME GInv, NEW c \in calls, Refused(c), UNCHANGED expVars PROVE GInv'
<1>0. c.box \in Boxes /\ UNCHANGED <<box, bound, task, exp, up, local, exec, stop, lost>>
      /\ calls' = calls \ {c}
  BY DEF GInv, Call, Refused, expVars
<1>1. Quiet
  BY <1>0, RowsKept DEF GInv, RowsInv, rows
<1>2. /\ sync' \in [Boxes -> Experiments \cup {NoExp}]
      /\ \A d \in Boxes : sync'[d] = sync[d] \/ (sync'[d] = NoExp /\ d = c.box /\ c.asked)
  BY <1>0, GatewayConstants DEF Refused, GInv, GateTyped
<1>3. \A d \in calls' : d.asked => sync'[d.box] = sync[d.box]
  BY <1>0, <1>2 DEF GInv, CallsOK, AskedOnce, Call
<1>4. calls' \subseteq Call /\ CallsOK'
  BY <1>0, <1>1, <1>3, DroppedCalls
<1>5. FilesOK'
  <2>1. \A d \in Boxes, y \in Experiments : Entry(d, y, local[d][y], exec[d][y])'
    BY <1>0, EntriesStay
  <2>2. \A d \in Boxes, y \in Experiments : TurnOK(d, y)'
    BY <1>0, <1>2, GatewayConstants DEF GInv, FilesOK, TurnOK, Claimed, ResumeTask
  <2> QED
    BY <2>1, <2>2 DEF FilesOK
<1>6. GateTyped'
  BY <1>0, <1>2 DEF GInv, GateTyped
<1> QED
  BY <1>1, <1>4, <1>5, <1>6 DEF GInv, Quiet

LEMMA ProceedStep ==
  ASSUME GInv, Quiet, NEW c \in calls, NEW stage \in {"count", "revoke"}, Proceed(c, stage),
         c.asked /\ c.kind = "status" /\ task'[c.exp].status \in OnBox =>
           exp'[c.exp] # Before[task'[c.exp].status]
  PROVE  GInv'
<1> DEFINE d == [c EXCEPT !.stage = stage, !.status = "absent", !.code = "none"]
<1>0. RowsInv /\ GateTyped /\ FilesOK /\ c \in Call /\ UNCHANGED gateVars
      /\ CallOK(c) /\ AskedOK(c, local[c.box][c.exp])
  BY DEF GInv, RowsInv, CallsOK, Proceed
<1>1. calls' = (calls \ {c}) \cup {d}
  BY DEF Proceed
<1>2. /\ d \in Call /\ d.kind = c.kind /\ d.exp = c.exp /\ d.box = c.box /\ d.asked = c.asked
      /\ d.stage # "observe"
  BY <1>0 DEF Call, TaskStatuses, Codes
<1> HIDE DEF d
<1>3. \A y \in calls : CallOK(y)' /\ AskedOK(y, local[y.box][y.exp])'
  BY <1>0, QuietCall, QuietAsked DEF GInv, CallsOK, gateVars
<1>4. CallOK(d)'
  BY <1>2, <1>3 DEF CallOK
<1>5. AskedOK(d, local[d.box][d.exp])'
  <2>1. AskedOK(c, local[c.box][c.exp])'
    BY <1>3
  <2>2. CASE ~d.asked
    BY <2>2 DEF AskedOK
  <2>3. CASE d.asked /\ c.kind = "status"
    BY <2>1, <2>3, <1>2 DEF AskedOK
  <2>4. CASE d.asked /\ c.kind # "status"
    BY <2>1, <2>4, <1>2 DEF AskedOK
  <2> QED
    BY <2>2, <2>3, <2>4
<1>6. AskedOnce'
  BY <1>1, <1>2 DEF GInv, CallsOK, AskedOnce
<1>7. CallsOK' /\ calls' \subseteq Call
  BY <1>1, <1>2, <1>3, <1>4, <1>5, <1>6 DEF CallsOK, GInv
<1>8. FilesOK' /\ GateTyped'
  BY <1>0, QuietFiles DEF gateVars, GateTyped
<1> QED
  BY <1>7, <1>8 DEF GInv, Quiet

\* The head of the queue was taken up, and the experiment has followed.
LEMMA AcknowledgedEntry ==
  ASSUME NEW b \in Boxes, NEW e \in Experiments, NEW l \in LocalTask, NEW x, Entry(b, e, l, x),
         l.pend # <<>>, l.known, task[e].status \in OnBox => task[e].status = Head(l.pend),
         task[e].status \in OnBox => exp[e] # Before[task[e].status]
  PROVE  Acknowledged(l) \in LocalTask /\ Entry(b, e, Acknowledged(l), x)
<1> DEFINE m == Acknowledged(l)
           t == task[e].status
<1>1. /\ m \in LocalTask /\ m.pend = Tail(l.pend) /\ m.known = l.known
      /\ m.started = l.started /\ m.finished = l.finished /\ m.terminal = l.terminal
      /\ m.result = l.result /\ m.skipped = l.skipped
  BY AcknowledgedFacts
<1>2. l.pend \in Seq(Reports)
  BY DEF LocalTask
<1>3. /\ \A u : Tail(l.pend) # <<>> => Latest(u, Tail(l.pend)) = Latest(u, l.pend)
      /\ \A u : u = Head(l.pend) => Latest(u, Tail(l.pend)) = Latest(u, l.pend)
      /\ \A u : Tail(l.pend) = <<>> => Latest(u, l.pend) = Head(l.pend)
      /\ \A u : u = Head(l.pend) /\ Chained(u, l.pend) => Chained(u, Tail(l.pend))
  BY <1>2, TakenOff
<1> HIDE DEF m
<1>4. LocalOK(b, e, m, x) /\ KeptOK(b, e, m)
  BY <1>1 DEF Entry, LocalOK, KeptOK
<1>5. EndOK(e, m)
  <2> SUFFICES ASSUME m.terminal, t \in OnBox
               PROVE  m.pend # <<>> /\ Latest("absent", m.pend) \in Outcomes
    BY DEF EndOK
  <2>1. Latest("absent", l.pend) \in Outcomes
    BY <1>1 DEF Entry, EndOK
  <2>2. m.pend # <<>>
    BY <1>1, <1>3, <2>1 DEF OnBox, Outcomes
  <2> QED
    BY <1>1, <1>3, <2>1, <2>2
<1>6. ChainOK(e, m, x)
  BY <1>1, <1>3 DEF Entry, ChainOK
<1>7. LagOK(e, m, x)
  BY DEF LagOK
<1>8. Entry(b, e, m, x)
  BY <1>4, <1>5, <1>6, <1>7 DEF Entry
<1> QED
  BY <1>1, <1>8 DEF m

LEMMA AnsweredStep ==
  ASSUME GInv, Quiet, NEW c \in calls, Answered(c),
         c.asked => UNCHANGED <<task, exp>> /\ c.stage # "observe"
  PROVE  GInv'
<1>0. RowsInv /\ GateTyped /\ FilesOK /\ c \in Call /\ c.box \in Boxes
      /\ CallOK(c) /\ AskedOK(c, local[c.box][c.exp]) /\ calls' = calls \ {c}
      /\ UNCHANGED <<up, exec, stop, lost>>
  BY DEF GInv, RowsInv, CallsOK, Call, Answered
<1>1. CASE ~c.asked
  <2>1. UNCHANGED gateVars
    BY <1>0, <1>1 DEF Answered, gateVars
  <2> QED
    BY <1>0, <2>1, QuietStep DEF GInv
<1>2. CASE c.asked
  <2> DEFINE b == c.box
             e == c.exp
             l == local[b][e]
             x == exec[b][e]
             m == IF c.kind = "result" THEN Blank ELSE Acknowledged(l)
  <2>1. /\ e \in Experiments /\ Claimed(e) /\ sync[b] = e /\ c.kind \in {"status", "result"}
        /\ UNCHANGED <<task, exp>> /\ c.stage # "observe"
    BY <1>0, <1>2 DEF CallOK, AskedOK
  <2>2. l \in LocalTask /\ Entry(b, e, l, x) /\ TurnOK(b, e) /\ x \in Phases
    BY <1>0, <2>1 DEF FilesOK, GateTyped
  <2>3. l.known /\ e \notin stop[b]
    BY <2>1, <2>2 DEF TurnOK
  <2>4. m \in LocalTask /\ Entry(b, e, m, x)
    <3>1. CASE c.kind = "result"
      <4>1. Settled(task[e].status) /\ l.result
        BY <1>0, <1>2, <3>1 DEF AskedOK
      <4>2. x = "none" /\ task[e].status \notin OnBox
        BY <2>2, <4>1 DEF Entry, LocalOK, Settled, OnBox, Outcomes
      <4> QED
        BY <3>1, <4>2, <1>0, <2>1, BlankFacts, BlankEntry
    <3>2. CASE c.kind = "status"
      <4>1. /\ l.pend # <<>> /\ task[e].status \in OnBox => task[e].status = Head(l.pend)
            /\ l.pend # <<>>
            /\ task[e].status \in OnBox => exp[e] # Before[task[e].status]
        BY <1>0, <1>2, <2>1, <3>2 DEF AskedOK
      <4> QED
        BY <1>0, <2>1, <2>2, <2>3, <3>2, <4>1, AcknowledgedEntry
    <3> QED
      BY <2>1, <3>1, <3>2
  <2>5. local' = [local EXCEPT ![b][e] = m]
    BY <1>2 DEF Answered
  <2>6. sync' = IF c.kind = "result" THEN [sync EXCEPT ![b] = NoExp] ELSE sync
    BY <1>2 DEF Answered
  <2>7. c.kind # "result" => m.known
    BY <2>2, <2>3, <2>1, <1>0, <1>2, AcknowledgedFacts DEF AskedOK
  <2> HIDE DEF m, b, e
  <2>8. /\ sync' \in [Boxes -> Experiments \cup {NoExp}]
        /\ \A d \in Boxes : d # b => sync'[d] = sync[d]
        /\ sync'[b] = NoExp \/ (sync'[b] = e /\ c.kind # "result")
    BY <1>0, <2>1, <2>6 DEF GateTyped, b, e
  <2>9. /\ \A d \in Boxes : d # b => local'[d] = local[d]
        /\ \A y \in Experiments : local'[b][y] = IF y = e THEN m ELSE local[b][y]
    BY <1>0, <2>1, <2>5 DEF GateTyped, b, e
  <2>10. \A d \in Boxes, y \in Experiments : TurnOK(d, y)'
    BY <1>0, <2>1, <2>3, <2>7, <2>8, <2>9, GatewayConstants
       DEF FilesOK, TurnOK, Claimed, ResumeTask
  <2>11. exec' = [exec EXCEPT ![b][e] = x]
    BY <1>0 DEF GateTyped, b, e
  <2>12. FilesOK' /\ GateTyped'
    BY <1>0, <2>1, <2>2, <2>4, <2>5, <2>8, <2>10, <2>11, EntryMoves DEF GateTyped, b, e
  <2>13. \A d \in calls' : d.asked => d.box # b
    BY <1>0, <1>2 DEF GInv, CallsOK, AskedOnce, b
  <2>14. calls' \subseteq Call /\ CallsOK'
    BY <1>0, <2>8, <2>9, <2>13, DroppedCalls DEF GInv, Call
  <2> QED
    BY <2>12, <2>14 DEF GInv, Quiet
<1> QED
  BY <1>1, <1>2

-----------------------------------------------------------------------------
(* Steps of Core.                                                          *)

\* What the action properties ask of a step.
Progress ==
  \A e \in Experiments : /\ Onward(task[e].status, task'[e].status)
                         /\ Onward(exp[e], exp'[e]) /\ Silenced(e)

LEMMA QuietProgress ==
  ASSUME Quiet PROVE Progress
<1> SUFFICES ASSUME NEW e \in Experiments
             PROVE  Onward(task[e].status, task'[e].status)
  BY DEF Quiet, Progress
<1>1. QuietRow(e)
  BY DEF Quiet
<1>2. task[e].status \in Held => task[e].status \notin Terminal
  BY DEF Held, OnBox, Terminal, Outcomes
<1>3. "queued" \notin Terminal /\ "canceled" \in Outcomes
  BY DEF Terminal, Outcomes
<1> QED
  BY <1>1, <1>2, <1>3, OnwardSteps DEF QuietRow

Kept == GInv' /\ Progress

LEMMA ObserveKeeps ==
  ASSUME GInv, NEW c \in calls, Observe(c) PROVE Kept
<1>0. RowsInv /\ c \in Call /\ CallOK(c) /\ AskedOK(c, local[c.box][c.exp]) /\ c.stage = "observe"
  BY DEF GInv, RowsInv, CallsOK, Observe
<1>1. CASE /\ c.kind # "result" /\ ApplyTaskStatus(c.exp, c)
           /\ IF c.kind = "status" THEN Proceed(c, "count") ELSE Answered(c)
  <2>1. c.kind # "drain"
    BY <1>0 DEF CallOK
  <2>2. /\ Quiet /\ UNCHANGED task
        /\ (c.status = task[c.exp].status /\ c.status \in OnBox) => exp'[c.exp] # Before[c.status]
    BY <1>0, <1>1, <2>1, ApplyTaskStatusQuiet DEF ApplyTaskStatus, boxVars
  <2>3. CASE c.kind = "status"
    <3>1. c.asked /\ task'[c.exp].status \in OnBox => exp'[c.exp] # Before[task'[c.exp].status]
      BY <1>0, <2>2, <2>3 DEF AskedOK
    <3> QED
      BY <1>1, <2>2, <2>3, <3>1, ProceedStep, QuietProgress DEF Kept
  <2>4. CASE c.kind # "status"
    <3>1. ~c.asked
      BY <1>0, <1>1, <2>4 DEF AskedOK
    <3> QED
      BY <1>1, <2>2, <2>4, <3>1, AnsweredStep, QuietProgress DEF Kept
  <2> QED
    BY <2>3, <2>4
<1>2. CASE Refused(c) /\ UNCHANGED expVars
  <2>1. Quiet
    BY <1>0, <1>2, RowsKept DEF rows, expVars
  <2> QED
    BY <1>2, <2>1, RefusedStep, QuietProgress DEF Kept
<1>3. CASE c.kind = "result" /\ ApplyResult(c.exp) /\ Proceed(c, "count")
  <2>1. c.exp \in Experiments /\ Claimed(c.exp) /\ Settled(task[c.exp].status)
    BY <1>0, <1>3 DEF CallOK
  <2>2. Quiet
    BY <1>0, <1>3, <2>1, ApplyResultQuiet
  <2> QED
    BY <1>3, <2>2, ProceedStep, QuietProgress DEF Kept
<1> QED
  BY <1>1, <1>2, <1>3 DEF Observe

LEMMA CountActiveKeeps ==
  ASSUME GInv, NEW c \in calls, CountActive(c) PROVE Kept
<1>0. RowsInv /\ AskedOK(c, local[c.box][c.exp]) /\ c.stage = "count"
      /\ UNCHANGED <<box, bound, task, exp>>
  BY DEF GInv, RowsInv, CallsOK, CountActive, expVars
<1>1. Quiet
  BY <1>0, RowsKept DEF rows
<1>2. CASE Proceed(c, "revoke")
  <2>1. c.asked /\ c.kind = "status" /\ task'[c.exp].status \in OnBox =>
          exp'[c.exp] # Before[task'[c.exp].status]
    BY <1>0 DEF AskedOK
  <2> QED
    BY <1>1, <1>2, <2>1, ProceedStep, QuietProgress DEF Kept
<1>3. CASE Answered(c)
  BY <1>0, <1>1, <1>3, AnsweredStep, QuietProgress DEF Kept
<1> QED
  BY <1>2, <1>3 DEF CountActive

LEMMA FinalizeDrainedKeeps ==
  ASSUME GInv, NEW c \in calls, FinalizeDrained(c) PROVE Kept
<1>1. RowsInv /\ c.box \in Boxes /\ c.stage = "revoke" /\ UNCHANGED <<task, exp>>
      /\ RevokeDrained(c.box) /\ Answered(c)
  BY DEF GInv, RowsInv, Call, FinalizeDrained, RevokeDrained, boxVars
<1>2. Quiet
  BY <1>1, RevokeDrainedQuiet
<1> QED
  BY <1>1, <1>2, AnsweredStep, QuietProgress DEF Kept

LEMMA HandleCallKeeps ==
  ASSUME GInv, HandleCall PROVE Kept
<1>1. ASSUME NEW c \in calls, CallFails(c) PROVE Kept
  <2>1. Refused(c) /\ UNCHANGED expVars /\ Quiet
    BY <1>1, RowsKept DEF CallFails, GInv, RowsInv, rows, expVars
  <2> QED
    BY <2>1, RefusedStep, QuietProgress DEF Kept
<1> QED
  BY <1>1, ObserveKeeps, CountActiveKeeps, FinalizeDrainedKeeps DEF HandleCall

\* Calls that a timeout or a user begins.
LEMMA ToldKeeps ==
  ASSUME GInv, Quiet, UNCHANGED gateVars, NEW b \in Boxes, NEW kind \in {"timeout", "force"},
         NEW es, \A e \in es : e \in Experiments /\ task'[e].status = "failed",
         calls' = calls \cup Told(kind, b, es, FALSE)
  PROVE  Kept
<1>1. ASSUME NEW c \in Told(kind, b, es, FALSE)
      PROVE  c \in Call /\ ~c.asked /\ CallOK(c)'
  <2>1. PICK e \in es : c = [kind |-> kind, box |-> b, exp |-> e, status |-> task'[e].status,
                             code |-> task'[e].code, stage |-> "observe", asked |-> FALSE]
    BY DEF Told
  <2>2. e \in Experiments /\ task'[e].status = "failed" /\ task'[e].code \in Codes
    BY DEF Quiet, RowsTyped, Task
  <2>3. /\ c.kind = kind /\ c.exp = e /\ c.status = "failed" /\ c.stage = "observe" /\ ~c.asked
        /\ c \in Call
    BY <2>1, <2>2 DEF Call, TaskStatuses, Outcomes
  <2>4. CallOK(c)'
    BY <2>2, <2>3 DEF CallOK, Claimed, Outcomes, Held, OnBox
  <2> QED
    BY <2>3, <2>4
<1>2. calls' \subseteq Call
  BY <1>1 DEF GInv
<1> QED
  BY <1>1, <1>2, QuietStep, QuietProgress DEF Kept

LEMMA TimeOutKeeps ==
  ASSUME GInv, NEW b \in Boxes, TimeOut(b) PROVE Kept
<1>1. RowsInv /\ FailOfflineTimeouts(b) /\ UNCHANGED exp /\ UNCHANGED gateVars
      /\ calls' = calls \cup Told("timeout", b, TasksOf(b, OnBox), FALSE)
  BY DEF GInv, RowsInv, TimeOut
<1> QED
  BY <1>1, TimeoutQuiet, ToldKeeps

LEMMA ForceKeeps ==
  ASSUME GInv, NEW b \in Boxes, TakeAway(b) PROVE Kept
<1>1. /\ RowsInv /\ UNCHANGED exp /\ UNCHANGED gateVars
      /\ calls' = calls \cup Told("force", b, TasksOf(b, Held), FALSE)
  BY DEF GInv, RowsInv, TakeAway
<1>2. ForceRevoke(b) \/ ForceUnassign(b)
  BY DEF TakeAway
<1>3. Quiet /\ \A e \in TasksOf(b, Held) : e \in Experiments /\ task'[e].status = "failed"
  BY <1>1, <1>2, ForceQuiet
<1> QED
  BY <1>1, <1>3, ToldKeeps

LEMMA DrainKeeps ==
  ASSUME GInv, NEW b \in Boxes, Drain(b) PROVE Kept
<1> DEFINE d == [kind |-> "drain", box |-> b, exp |-> NoExp, status |-> "absent",
                 code |-> "none", stage |-> "count", asked |-> FALSE]
<1>1. RowsInv /\ BeginDrain(b) /\ UNCHANGED exp /\ UNCHANGED gateVars
      /\ calls' \subseteq calls \cup {d}
  BY DEF GInv, RowsInv, Drain
<1>2. d \in Call /\ ~d.asked /\ d.kind = "drain" /\ d.stage = "count"
  BY DEF Call, TaskStatuses, Codes
<1> HIDE DEF d
<1>3. CallOK(d)'
  BY <1>2 DEF CallOK
<1>4. calls' \subseteq Call
  BY <1>1, <1>2 DEF GInv
<1>5. Quiet
  BY <1>1, BeginDrainQuiet
<1> QED
  BY <1>1, <1>2, <1>3, <1>4, <1>5, QuietStep, QuietProgress DEF Kept

LEMMA QuietKeeps ==
  ASSUME GInv, Quiet, UNCHANGED <<calls, gateVars>> PROVE Kept
BY QuietStep, QuietProgress DEF Kept, GInv

LEMMA CoreKeeps ==
  ASSUME GInv, CoreStep PROVE Kept
<1>0. RowsInv
  BY DEF GInv, RowsInv
<1>1. ASSUME NEW e \in Experiments, (UserStep(e) \/ WorkerStep(e)) /\ UNCHANGED <<calls, gateVars>>
      PROVE  Kept
  BY <1>0, <1>1, UserQuiet, QuietKeeps
<1>2. ASSUME NEW b \in Boxes,
             (BoxStep(b) \/ MarkOffline(b)) /\ UNCHANGED <<exp, calls, gateVars>>
      PROVE  Kept
  BY <1>0, <1>2, AssignQuiet, MarkOfflineQuiet, QuietKeeps
<1>3. ASSUME Tick /\ UNCHANGED <<exp, calls, gateVars>> PROVE Kept
  BY <1>0, <1>3, TickQuiet, QuietKeeps
<1> QED
  BY <1>1, <1>2, <1>3, TimeOutKeeps, ForceKeeps, DrainKeeps, HandleCallKeeps DEF CoreStep

-----------------------------------------------------------------------------
(* A gateway claims a task, reports on it, and submits its result.         *)

LEMMA StartKeeps ==
  ASSUME GInv, NEW b \in Boxes, Start(b) PROVE Kept
<1>1. /\ UNCHANGED <<box, bound, task, exp, calls, local, exec, stop, sync, lost>>
      /\ up' \subseteq Boxes
  BY DEF Start, expVars, GInv, GateTyped
<1>2. Quiet
  BY <1>1, RowsKept DEF GInv, RowsInv, rows
<1>3. FilesOK' /\ GateTyped'
  BY <1>1, <1>2, QuietFiles DEF GInv, RowsInv, GateTyped
<1>4. CallsOK' /\ calls' \subseteq Call
  BY <1>1, <1>2, DroppedCalls DEF GInv
<1> QED
  BY <1>2, <1>3, <1>4, QuietProgress DEF Kept, GInv, Quiet

LEMMA HeartbeatKeeps ==
  ASSUME GInv, NEW b \in Boxes, Heartbeat(b) PROVE Kept
BY HeartbeatQuiet, QuietKeeps DEF Heartbeat, GInv, RowsInv

\* A task that nobody has claimed is in no file and in no call.
LEMMA Unknown ==
  ASSUME GInv, NEW e \in Experiments, ~Claimed(e)
  PROVE  /\ \A d \in Boxes : /\ ~local[d][e].known /\ local[d][e].pend = <<>>
                             /\ exec[d][e] = "none" /\ sync[d] # e /\ e \notin stop[d]
         /\ \A c \in calls : c.exp # e \/ c.kind = "drain"
<1>1. ASSUME NEW d \in Boxes
      PROVE  /\ ~local[d][e].known /\ local[d][e].pend = <<>>
             /\ exec[d][e] = "none" /\ sync[d] # e /\ e \notin stop[d]
  BY DEF GInv, FilesOK, Entry, LocalOK, TurnOK
<1>2. \A c \in calls : c.exp # e \/ c.kind = "drain"
  BY DEF GInv, CallsOK, CallOK
<1> QED
  BY <1>1, <1>2

\* The other rows and their entries stay.
LEMMA OtherEntries ==
  ASSUME GInv, NEW d \in Boxes, NEW y \in Experiments,
         task'[y] = task[y], exp'[y] = exp[y], y \in lost => y \in lost',
         local'[d][y] = local[d][y], exec'[d][y] = exec[d][y], UNCHANGED <<sync, stop>>
  PROVE  Entry(d, y, local[d][y], exec[d][y])' /\ TurnOK(d, y)'
<1>1. Entry(d, y, local[d][y], exec[d][y]) /\ TurnOK(d, y)
  BY DEF GInv, FilesOK
<1>2. Entry(d, y, local[d][y], exec[d][y])'
  BY <1>1 DEF Entry, LocalOK, KeptOK, EndOK, ChainOK, LagOK, Claimed, Chained, Latest, Prior,
              Reportable
<1>3. TurnOK(d, y)'
  BY <1>1 DEF TurnOK, Claimed, ResumeTask
<1> QED
  BY <1>2, <1>3

LEMMA OtherCalls ==
  ASSUME GInv, NEW c \in calls, UNCHANGED <<sync, exp>>, task'[c.exp] = task[c.exp],
         c.asked => local'[c.box][c.exp] = local[c.box][c.exp]
  PROVE  CallOK(c)' /\ AskedOK(c, local[c.box][c.exp])'
<1>1. CallOK(c) /\ AskedOK(c, local[c.box][c.exp])
  BY DEF GInv, CallsOK
<1>2. CallOK(c)'
  BY <1>1 DEF CallOK, Claimed, Settled
<1>3. AskedOK(c, local[c.box][c.exp])'
  BY <1>1 DEF AskedOK, Settled
<1> QED
  BY <1>2, <1>3

LEMMA ClaimKeeps ==
  ASSUME GInv, NEW b \in Boxes, NEW e \in Experiments, Claim(b, e) PROVE Kept
<1> DEFINE l == [Blank EXCEPT !.known = TRUE]
<1>0. /\ RowsTyped /\ RowsOK /\ GateTyped /\ task[e] \in Task /\ TaskOK(e)
      /\ task[e].status = "queued" /\ ~task[e].cancel /\ exp[e] = "queued"
      /\ task' = [task EXCEPT ![e].status = "preparing", ![e].box = b]
      /\ bound' \subseteq Boxes
      /\ UNCHANGED <<box, exp, calls, up, exec, stop, sync>>
  BY DEF GInv, RowsTyped, RowsOK, TaskOK, Claim, ClaimTask, Claimable
<1>1. /\ task' \in [Experiments -> Task]
      /\ task'[e].status = "preparing" /\ task'[e].box = b /\ ~task'[e].cancel
      /\ task'[e].code = task[e].code
      /\ \A y \in Experiments : y # e => task'[y] = task[y]
  BY <1>0 DEF RowsTyped, Task, TaskStatuses, Held, OnBox
<1>2. RowsTyped' /\ RowsOK'
  <2>1. TaskOK(e)'
    BY <1>0, <1>1 DEF TaskOK, Before, Held, OnBox
  <2>2. \A y \in Experiments : TaskOK(y)'
    BY <1>0, <1>1, <2>1 DEF RowsOK, TaskOK
  <2>3. \A d \in Boxes : BoxOK(d)'
    BY <1>0 DEF RowsOK, BoxOK
  <2> QED
    BY <1>0, <1>1, <2>2, <2>3 DEF RowsTyped, RowsOK
<1>3. ~Claimed(e)
  BY <1>0 DEF Claimed
<1>4. /\ l \in LocalTask /\ l.known /\ l.pend = <<>> /\ ~l.started /\ ~l.finished
      /\ ~l.terminal /\ ~l.result
  BY BlankFacts DEF LocalTask
<1>5. \/ local' = [local EXCEPT ![b][e] = l] /\ UNCHANGED lost
      \/ lost' = lost \cup {e} /\ UNCHANGED local
  BY DEF Claim
<1> HIDE DEF l
<1>6. /\ local' \in [Boxes -> [Experiments -> LocalTask]]
      /\ lost' \subseteq Experiments /\ lost \subseteq lost'
      /\ \A d \in Boxes, y \in Experiments : d # b \/ y # e => local'[d][y] = local[d][y]
      /\ local'[b][e] = l \/ (local'[b][e] = local[b][e] /\ e \in lost')
  <2>1. local \in [Boxes -> [Experiments -> LocalTask]] /\ lost \subseteq Experiments
    BY <1>0 DEF GateTyped
  <2>2. CASE local' = [local EXCEPT ![b][e] = l] /\ UNCHANGED lost
    <3>1. [local EXCEPT ![b][e] = l] \in [Boxes -> [Experiments -> LocalTask]]
      BY <1>4, <2>1
    <3>2. [local EXCEPT ![b][e] = l][b][e] = l
      BY <2>1
    <3>3. \A d \in Boxes, y \in Experiments :
            d # b \/ y # e => [local EXCEPT ![b][e] = l][d][y] = local[d][y]
      BY <2>1
    <3> QED
      BY <2>1, <2>2, <3>1, <3>2, <3>3
  <2>3. CASE lost' = lost \cup {e} /\ UNCHANGED local
    BY <2>1, <2>3
  <2> QED
    BY <1>5, <2>2, <2>3
<1>7. Entry(b, e, local[b][e], exec[b][e])'
  <2>1. CASE local'[b][e] = l
    <3>1. LocalOK(b, e, local[b][e], exec[b][e])'
      BY <1>0, <1>1, <1>3, <1>4, <2>1, Unknown DEF LocalOK, Claimed
    <3>2. KeptOK(b, e, local[b][e])' /\ EndOK(e, local[b][e])'
      BY <1>4, <2>1 DEF KeptOK, EndOK
    <3>3. ChainOK(e, local[b][e], exec[b][e])'
      <4>1. Latest("preparing", <<>>) = "preparing" /\ Chained("preparing", <<>>)
        BY DEF Latest, Prior, Chained
      <4> QED
        BY <1>0, <1>1, <1>3, <1>4, <2>1, <4>1, Unknown DEF ChainOK
    <3>4. LagOK(e, local[b][e], exec[b][e])'
      BY <1>0, <1>1, <1>3, <1>4, <2>1, Unknown DEF LagOK
    <3> QED
      BY <3>1, <3>2, <3>3, <3>4 DEF Entry
  <2>2. CASE local'[b][e] = local[b][e] /\ e \in lost'
    <3>1. /\ local'[b][e] = local[b][e] /\ ~local[b][e].known /\ local[b][e].pend = <<>>
          /\ exec'[b][e] = "none"
      BY <1>0, <1>3, <2>2, Unknown
    <3>2. LocalOK(b, e, local[b][e], exec[b][e])
      BY DEF GInv, FilesOK, Entry
    <3>3. LocalOK(b, e, local[b][e], exec[b][e])'
      BY <3>1, <3>2 DEF LocalOK
    <3>4. KeptOK(b, e, local[b][e])'
      BY <2>2 DEF KeptOK
    <3>5. /\ EndOK(e, local[b][e])' /\ ChainOK(e, local[b][e], exec[b][e])'
          /\ LagOK(e, local[b][e], exec[b][e])'
      BY <3>1 DEF EndOK, ChainOK, LagOK
    <3> QED
      BY <3>3, <3>4, <3>5 DEF Entry
  <2> QED
    BY <1>6, <2>1, <2>2
<1>8. ASSUME NEW d \in Boxes, d # b PROVE Entry(d, e, local[d][e], exec[d][e])'
  <2>1. local'[d][e] = local[d][e] /\ ~local[d][e].known /\ exec'[d][e] = "none"
        /\ Entry(d, e, local[d][e], exec[d][e])
    BY <1>0, <1>3, <1>6, <1>8, Unknown DEF GInv, FilesOK
  <2> QED
    BY <1>1, <1>8, <2>1, <1>0 DEF Entry, LocalOK, KeptOK, EndOK, ChainOK, LagOK
<1>9. FilesOK'
  <2>1. ASSUME NEW d \in Boxes, NEW y \in Experiments, y # e
        PROVE  Entry(d, y, local[d][y], exec[d][y])' /\ TurnOK(d, y)'
    BY <1>0, <1>1, <1>6, <2>1, OtherEntries
  <2>2. \A d \in Boxes : TurnOK(d, e)'
    BY <1>0, <1>3, Unknown DEF TurnOK
  <2> QED
    BY <1>7, <1>8, <2>1, <2>2 DEF FilesOK
<1>10. GateTyped'
  BY <1>0, <1>6 DEF GateTyped
<1>11. ASSUME NEW c \in calls PROVE CallOK(c)' /\ AskedOK(c, local[c.box][c.exp])'
  <2>1. c.box \in Boxes /\ CallOK(c) /\ AskedOK(c, local[c.box][c.exp])
    BY DEF GInv, Call, CallsOK
  <2>2. CASE c.kind = "drain"
    BY <2>1, <2>2 DEF CallOK, AskedOK
  <2>3. CASE c.kind # "drain"
    <3>1. c.exp \in Experiments /\ c.exp # e
      BY <1>3, <2>1, <2>3, Unknown DEF CallOK
    <3> QED
      BY <1>0, <1>1, <1>6, <2>1, <3>1, OtherCalls
  <2> QED
    BY <2>2, <2>3
<1>12. CallsOK'
  BY <1>0, <1>11 DEF CallsOK, GInv, AskedOnce
<1>13. Progress
  BY <1>0, <1>1, OnwardSteps DEF Progress, Silenced
<1> QED
  BY <1>0, <1>2, <1>9, <1>10, <1>12, <1>13 DEF Kept, GInv

\* What the row of a task becomes by the report or the result of its gateway:
\* it takes up the head of the queue, or goes on to the processing of the result.
TakesUp(b, e) ==
  LET l == local[b][e]
      t == task[e].status
      u == task'[e].status IN
  /\ task'[e] \in Task /\ task'[e].box = b /\ task'[e].cancel = task[e].cancel
  /\ task'[e].code \in {task[e].code, "none"}
  /\ \A y \in Experiments : y # e => task'[y] = task[y]
  /\ \/ u = t /\ (t \in OnBox => l.pend # <<>> /\ Head(l.pend) = t)
     \/ u # t /\ ValidTransition(t, u) /\ l.pend # <<>> /\ Head(l.pend) = u
     \/ t = "uploading" /\ u = "processing_result" /\ l.pend = <<>>

LEMMA TakesUpKeeps ==
  ASSUME GInv, NEW b \in Boxes, NEW e \in Experiments, sync[b] = e, Asked(b) = {},
         task[e].box = b, UNCHANGED <<box, bound, exp, gateVars>>,
         task' \in [Experiments -> Task], TakesUp(b, e)
  PROVE  /\ RowsTyped' /\ RowsOK' /\ FilesOK' /\ GateTyped' /\ Progress
         /\ \A c \in calls : CallOK(c)' /\ AskedOK(c, local[c.box][c.exp])'
<1> DEFINE l == local[b][e]
           x == exec[b][e]
           t == task[e].status
           u == task'[e].status
<1>0. /\ RowsTyped /\ RowsOK /\ GateTyped /\ l \in LocalTask /\ l.pend \in Seq(Reports)
      /\ Entry(b, e, l, x) /\ TurnOK(b, e) /\ TaskOK(e) /\ UNCHANGED <<up, local, exec, stop, sync, lost>>
  BY InHand DEF GInv, RowsOK, FilesOK, gateVars
<1>1. l.known /\ Claimed(e) /\ e \notin stop[b]
  BY <1>0 DEF TurnOK, Entry, LocalOK
<1>2. t \in Held \cup Outcomes
  BY <1>1 DEF Claimed, GInv, RowsTyped, Task, TaskStatuses
<1>3. /\ u \in OnBox => t \in OnBox /\ l.pend # <<>> /\ Head(l.pend) = u
      /\ u \in Held \cup Outcomes
      /\ Settled(t) => Settled(u) /\ (t \in Outcomes => u = t) /\ (u \in Held => t \in Held)
      /\ u \in Held /\ t \in Held => Place[t] <= Place[u]
      /\ Onward(t, u)
  <2>1. CASE u = t
    BY <1>2, <2>1, OnwardSteps DEF TakesUp, OnBox, Place, Held
  <2>2. CASE u # t /\ ValidTransition(t, u) /\ l.pend # <<>> /\ Head(l.pend) = u
    BY <2>2, OnwardSteps DEF ValidTransition, OnBox, Held, Outcomes, Settled, Place
  <2>3. CASE t = "uploading" /\ u = "processing_result"
    BY <2>3, OnwardSteps DEF OnBox, Held, Outcomes, Settled, Place
  <2> QED
    BY <2>1, <2>2, <2>3 DEF TakesUp
<1>4. u \in Held => exp[e] \in {u, Before[u], "canceled", "archived"}
  <2> HAVE u \in Held
  <2>1. CASE u = t
    BY <1>0, <2>1 DEF TaskOK
  <2>2. CASE u # t
    <3>1. t \in OnBox /\ t = Before[u]
      BY <2>2 DEF TakesUp, ValidTransition, Held, OnBox, Before
    <3>2. exp[e] \in {t, Before[t], "canceled", "archived"}
      BY <1>0, <3>1 DEF TaskOK, Held
    <3>3. exp[e] # Before[t]
      BY <1>0, <1>1, <2>2, <3>1 DEF TakesUp, Entry, LagOK, OnBox
    <3> QED
      BY <3>1, <3>2, <3>3
  <2> QED
    BY <2>1, <2>2
<1>5. TaskOK(e)'
  BY <1>0, <1>1, <1>2, <1>3, <1>4 DEF TaskOK, TakesUp, Claimed, Held, OnBox, Outcomes
<1>6. RowsTyped' /\ RowsOK'
  <2>1. \A y \in Experiments : TaskOK(y)'
    BY <1>0, <1>5 DEF TakesUp, RowsOK, TaskOK
  <2> QED
    BY <1>0, <2>1 DEF RowsTyped, RowsOK, BoxOK
<1>7. Entry(b, e, local[b][e], exec[b][e])'
  <2>1. LocalOK(b, e, local[b][e], exec[b][e])'
    BY <1>0, <1>3 DEF Entry, LocalOK, TakesUp, Claimed, Held, OnBox, Outcomes
  <2>2. KeptOK(b, e, local[b][e])'
    BY <1>0, <1>1 DEF KeptOK
  <2>3. EndOK(e, local[b][e])'
    BY <1>0, <1>3 DEF Entry, EndOK
  <2>4. ChainOK(e, local[b][e], exec[b][e])'
    <3> SUFFICES ASSUME ~l.skipped, u \in OnBox
                 PROVE  ChainOK(e, local[b][e], exec[b][e])'
      BY <1>0 DEF ChainOK
    <3>1. t \in OnBox /\ l.pend # <<>> /\ Head(l.pend) = u
      BY <1>3
    <3>2. Chained(t, l.pend)
      BY <1>0, <1>1, <3>1 DEF Entry, ChainOK
    <3>3. Chained(u, l.pend) /\ Latest(u, l.pend) = Latest(t, l.pend)
      BY <1>0, <3>1, <3>2, TakenUp
    <3> QED
      BY <1>0, <1>1, <3>1, <3>3 DEF Entry, ChainOK
  <2>5. LagOK(e, local[b][e], exec[b][e])'
    BY <1>0, <1>3 DEF LagOK
  <2> QED
    BY <2>1, <2>2, <2>3, <2>4, <2>5 DEF Entry
<1>8. ASSUME NEW d \in Boxes, d # b
      PROVE  ~local[d][e].known /\ sync[d] # e /\ Entry(d, e, local[d][e], exec[d][e])'
  <2>1. Entry(d, e, local[d][e], exec[d][e]) /\ TurnOK(d, e)
    BY DEF GInv, FilesOK
  <2>2. ~local[d][e].known /\ sync[d] # e
    BY <1>8, <2>1 DEF Entry, LocalOK, TurnOK
  <2>3. Entry(d, e, local[d][e], exec[d][e])'
    BY <1>0, <1>8, <2>1, <2>2 DEF Entry, LocalOK, KeptOK, EndOK, ChainOK, LagOK, TakesUp
  <2> QED
    BY <2>2, <2>3
<1>9. ASSUME NEW d \in Boxes PROVE TurnOK(d, e)'
  <2>1. TurnOK(d, e)
    BY DEF GInv, FilesOK
  <2>2. ResumeTask(e) = "stop" => ResumeTask(e)' = "stop"
    BY <1>3 DEF ResumeTask, TakesUp
  <2>3. Claimed(e)'
    BY <1>3 DEF Claimed, Held, OnBox, Outcomes
  <2> QED
    BY <1>0, <2>1, <2>2, <2>3 DEF TurnOK
<1>10. FilesOK' /\ GateTyped'
  <2>1. ASSUME NEW d \in Boxes, NEW y \in Experiments, y # e
        PROVE  Entry(d, y, local[d][y], exec[d][y])' /\ TurnOK(d, y)'
    BY <1>0, <2>1, OtherEntries DEF TakesUp
  <2> QED
    BY <1>0, <1>7, <1>8, <1>9, <2>1 DEF FilesOK, GateTyped
<1>11. ASSUME NEW c \in calls PROVE CallOK(c)' /\ AskedOK(c, local[c.box][c.exp])'
  <2>1. c.box \in Boxes /\ CallOK(c) /\ AskedOK(c, local[c.box][c.exp])
    BY DEF GInv, Call, CallsOK
  <2>2. CASE c.kind = "drain"
    BY <2>1, <2>2 DEF CallOK, AskedOK
  <2>3. CASE c.kind # "drain" /\ c.exp # e
    <3>1. task'[c.exp] = task[c.exp]
      BY <2>1, <2>3 DEF CallOK, TakesUp
    <3> QED
      BY <1>0, <3>1, OtherCalls
  <2>4. CASE c.kind # "drain" /\ c.exp = e
    <3>1. ~c.asked
      BY <1>8, <2>1, <2>4 DEF AskedOK, Asked
    <3>2. CallOK(c)'
      BY <1>2, <1>3, <2>1, <2>4
         DEF CallOK, Claimed, Settled, Held, OnBox, Outcomes, Place
    <3> QED
      BY <3>1, <3>2 DEF AskedOK
  <2> QED
    BY <2>2, <2>3, <2>4
<1>12. Progress
  BY <1>3, OnwardSteps DEF Progress, Silenced, TakesUp
<1> QED
  BY <1>6, <1>10, <1>11, <1>12

\* The gateway asks: Core has changed the row and goes on to the observer.
LEMMA Asks ==
  ASSUME GInv, NEW b \in Boxes, NEW e \in Experiments, Free(b, e), task[e].box = b,
         UNCHANGED <<box, bound, exp, gateVars>>, task' \in [Experiments -> Task], TakesUp(b, e),
         NEW kind \in {"status", "result"},
         kind = "status" => local[b][e].pend # <<>>,
         kind = "result" => Settled(task'[e].status) /\ local[b][e].result,
         calls' = calls \cup Told(kind, b, {e}, TRUE)
  PROVE  Kept
<1> DEFINE u == task'[e].status
<1>0. PICK c : c = [kind |-> kind, box |-> b, exp |-> e, status |-> u,
                    code |-> task'[e].code, stage |-> "observe", asked |-> TRUE]
  OBVIOUS
<1>1. sync[b] = e /\ Asked(b) = {} /\ UNCHANGED <<local, sync>>
  BY DEF Free, gateVars
<1>2. /\ RowsTyped' /\ RowsOK' /\ FilesOK' /\ GateTyped' /\ Progress
      /\ \A d \in calls : CallOK(d)' /\ AskedOK(d, local[d.box][d.exp])'
  BY <1>1, TakesUpKeeps
<1>3. calls' = calls \cup {c}
  BY <1>0 DEF Told
<1>4. u \in Held \cup Outcomes /\ task'[e].code \in Codes
  <2>1. local[b][e].known
    BY <1>1 DEF GInv, FilesOK, TurnOK
  <2>2. Claimed(e)'
    BY <1>1, <1>2, <2>1 DEF FilesOK, Entry, LocalOK
  <2> QED
    BY <2>2 DEF Claimed, Task, TaskStatuses
<1>5. u \in OnBox /\ kind = "status" => Head(local[b][e].pend) = u
  BY DEF TakesUp, OnBox
<1>6. /\ c.kind = kind /\ c.box = b /\ c.exp = e /\ c.status = u /\ c.asked
      /\ c.stage = "observe" /\ c \in Call
  BY <1>0, <1>4 DEF Call, TaskStatuses
<1>7. CallOK(c)'
  BY <1>4, <1>6 DEF CallOK, Claimed, Held, OnBox, Outcomes, Place
<1>8. AskedOK(c, local[c.box][c.exp])'
  BY <1>1, <1>5, <1>6 DEF AskedOK
<1>9. AskedOnce'
  BY <1>1, <1>3, <1>6 DEF AskedOnce, Asked, GInv, CallsOK
<1> QED
  BY <1>2, <1>3, <1>6, <1>7, <1>8, <1>9 DEF Kept, GInv, CallsOK

LEMMA SendStatusKeeps ==
  ASSUME GInv, NEW b \in Boxes, NEW e \in Experiments, SendStatus(b, e) PROVE Kept
<1> DEFINE l == local[b][e]
           t == task[e].status
           s == Head(l.pend)
<1>1. /\ Free(b, e) /\ l.pend # <<>> /\ task[e].box = b /\ Reportable(t, s)
      /\ task' = [task EXCEPT ![e] = Reported(task[e], s)]
      /\ UNCHANGED <<box, bound, exp, gateVars>>
      /\ calls' = calls \cup Told("status", b, {e}, TRUE)
  BY DEF SendStatus, ReportStatus
<1>2. l \in LocalTask /\ task \in [Experiments -> Task] /\ task[e] \in Task
  BY InHand DEF GInv, RowsTyped
<1>3. s \in Reports
  BY <1>1, <1>2 DEF LocalTask
<1>4. s \in TaskStatuses
  BY <1>3 DEF Reports, TaskStatuses, Held, OnBox, Outcomes
<1>5. /\ Reported(task[e], s) \in Task
      /\ Reported(task[e], s).box = b /\ Reported(task[e], s).cancel = task[e].cancel
      /\ Reported(task[e], s).code \in {task[e].code, "none"}
      /\ Reported(task[e], s).status = IF Settled(t) THEN t ELSE s
  <2>1. "none" \in Codes
    BY DEF Codes
  <2>2. /\ Ended(task[e], s, "none") \in Task
        /\ Ended(task[e], s, "none").status = s /\ Ended(task[e], s, "none").code = "none"
        /\ Ended(task[e], s, "none").box = task[e].box
        /\ Ended(task[e], s, "none").cancel = task[e].cancel
    BY <1>2, <1>4, <2>1, EndedFacts
  <2> QED
    BY <1>1, <1>2, <2>2 DEF Reported
<1>6. /\ task' \in [Experiments -> Task] /\ task'[e] = Reported(task[e], s)
      /\ \A y \in Experiments : y # e => task'[y] = task[y]
  BY <1>1, <1>2, <1>5
<1>7. TakesUp(b, e)
  <2>1. CASE Settled(t)
    BY <1>5, <1>6, <2>1 DEF TakesUp, Settled, Outcomes, OnBox
  <2>2. CASE ~Settled(t)
    BY <1>1, <1>5, <1>6, <2>2 DEF TakesUp, Reportable
  <2> QED
    BY <2>1, <2>2
<1> QED
  BY <1>1, <1>6, <1>7, Asks

LEMMA SendResultKeeps ==
  ASSUME GInv, NEW b \in Boxes, NEW e \in Experiments, SendResult(b, e) PROVE Kept
<1> DEFINE l == local[b][e]
           t == task[e].status
           u == IF t = "succeeded" THEN t ELSE "processing_result"
<1>1. /\ Free(b, e) /\ l.pend = <<>> /\ l.result /\ task[e].box = b /\ Submittable(t)
      /\ task' = [task EXCEPT ![e].status = u]
      /\ UNCHANGED <<box, bound, exp, gateVars>>
      /\ calls' = calls \cup Told("result", b, {e}, TRUE)
  BY DEF SendResult, SubmitResult
<1>2. task \in [Experiments -> Task] /\ task[e] \in Task
  BY DEF GInv, RowsTyped
<1>3. t \in {"uploading", "processing_result", "succeeded"}
  BY <1>1 DEF Submittable
<1>4. u \in TaskStatuses /\ Settled(u)
  BY <1>3 DEF TaskStatuses, Held, Outcomes, Settled
<1>5. /\ task' \in [Experiments -> Task] /\ task'[e] \in Task
      /\ task'[e].status = u /\ task'[e].box = b /\ task'[e].cancel = task[e].cancel
      /\ task'[e].code = task[e].code
      /\ \A y \in Experiments : y # e => task'[y] = task[y]
  <2> HIDE DEF u
  <2> QED
    BY <1>1, <1>2, <1>4 DEF Task
<1>6. TakesUp(b, e)
  BY <1>1, <1>3, <1>5 DEF TakesUp, OnBox
<1> QED
  BY <1>1, <1>4, <1>5, <1>6, Asks

-----------------------------------------------------------------------------
(* All steps.                                                              *)

LEMMA SyncKeeps ==
  ASSUME GInv, NEW b \in Boxes, NEW e \in Experiments, Sync(b, e) PROVE Kept
<1>1. ASSUME Resume(b, e) \/ EndSync(b, e) PROVE Kept
  <2>1. Quiet
    BY <1>1, RowsKept DEF Resume, EndSync, expVars, rows, GInv, RowsInv
  <2> QED
    BY <1>1, <2>1, ResumeKeeps, EndSyncKeeps, QuietProgress DEF Kept
<1> QED
  BY <1>1, SendStatusKeeps, SendResultKeeps DEF Sync

LEMMA GatewayKeeps ==
  ASSUME GInv, NEW b \in Boxes, GatewayStep(b) PROVE Kept
<1>1. ASSUME End(b) \/ GiveUp(b) PROVE Kept
  <2>1. Quiet
    BY <1>1, RowsKept DEF End, GiveUp, expVars, rows, GInv, RowsInv
  <2> QED
    BY <1>1, <2>1, EndKeeps, GiveUpKeeps, QuietProgress DEF Kept
<1>2. ASSUME NEW e \in Experiments, Execute(b, e) PROVE Kept
  <2>1. UNCHANGED expVars
    BY <1>2 DEF Execute, Launch, PrepareFails, StartRuntime, QueueRunning, RunEnds, Detach,
                RunSucceeds, BundleFails, BundleReady, Advance, Return
  <2>2. Quiet
    BY <2>1, RowsKept DEF expVars, rows, GInv, RowsInv
  <2> QED
    BY <1>2, <2>2, ExecuteKeeps, QuietProgress DEF Kept
<1> QED
  BY <1>1, <1>2, StartKeeps, HeartbeatKeeps, ClaimKeeps, SyncKeeps DEF GatewayStep

LEMMA NextKeeps ==
  ASSUME GInv, [Next]_vars PROVE Kept
<1>1. CASE UNCHANGED vars
  <2>1. Quiet /\ UNCHANGED <<calls, gateVars>>
    BY <1>1, RowsKept DEF vars, gateVars, rows, GInv, RowsInv
  <2> QED
    BY <2>1, QuietKeeps
<1> QED
  BY <1>1, CoreKeeps, GatewayKeeps DEF Next

LEMMA GInit == Init => GInv
<1> HAVE Init
<1>1. /\ box = [b \in Boxes |-> [status |-> "registering", silent |-> 0, offline |-> Off]]
      /\ bound = {}
      /\ task = [e \in Experiments |->
           [status |-> "absent", box |-> NoBox, cancel |-> FALSE, code |-> "none"]]
      /\ exp = [e \in Experiments |-> "absent"]
      /\ calls = {} /\ up = {} /\ lost = {}
      /\ local = [b \in Boxes |-> [e \in Experiments |-> Blank]]
      /\ exec = [b \in Boxes |-> [e \in Experiments |-> "none"]]
      /\ stop = [b \in Boxes |-> {}]
      /\ sync = [b \in Boxes |-> NoExp]
  BY DEF Init, ExpInit, ControlInit
<1>2. RowsTyped
  <2>1. [status |-> "registering", silent |-> 0, offline |-> Off] \in Box
    BY ZeroIsTime DEF Box, BoxStatuses
  <2>2. [status |-> "absent", box |-> NoBox, cancel |-> FALSE, code |-> "none"] \in Task
    BY DEF Task, TaskStatuses, Codes
  <2> QED
    BY <1>1, <2>1, <2>2 DEF RowsTyped, ExpStatuses
<1>3. RowsOK
  BY <1>1 DEF RowsOK, TaskOK, BoxOK, Held, OnBox
<1>4. GateTyped
  BY <1>1, BlankFacts DEF GateTyped, Phases
<1>5. FilesOK
  <2> SUFFICES ASSUME NEW b \in Boxes, NEW e \in Experiments
               PROVE  Entry(b, e, local[b][e], exec[b][e]) /\ TurnOK(b, e)
    BY DEF FilesOK
  <2>1. /\ local[b][e] = Blank /\ exec[b][e] = "none" /\ e \notin stop[b] /\ sync[b] # e
        /\ task[e].status = "absent"
    BY <1>1, GatewayConstants
  <2>2. ~Blank.known /\ Blank.pend = <<>> /\ ~Blank.finished /\ ~Blank.terminal /\ ~Blank.result
    BY BlankFacts
  <2>3. Entry(b, e, Blank, "none")
    BY <2>1, <2>2 DEF Entry, LocalOK, KeptOK, EndOK, ChainOK, LagOK, OnBox
  <2> QED
    BY <2>1, <2>3 DEF TurnOK
<1> QED
  BY <1>1, <1>2, <1>3, <1>4, <1>5 DEF GInv, CallsOK, AskedOnce

-----------------------------------------------------------------------------
(* The theorems.                                                           *)

LEMMA Invariant == Spec => []GInv
<1>1. GInv /\ [Next]_vars => GInv'
  BY NextKeeps DEF Kept
<1> QED
  BY GInit, <1>1, PTL DEF Spec

\* The rows, the calls Core is handling and the files of the gateways have
\* their types, whatever the number of boxes and experiments.
THEOREM GTypeCorrect == Spec => []GTypeOK
<1>1. GInv => GTypeOK
  BY DEF GInv, RowsTyped, GateTyped, GTypeOK
<1> QED
  BY <1>1, Invariant, PTL

\* The observer that carries a task's row over to its experiment is never more
\* than one report late, and only by a report still in the gateway's queue.
THEOREM FollowsTask == Spec => []ExperimentFollowsTask
<1>1. GInv => ExperimentFollowsTask
  BY DEF GInv, RowsOK, TaskOK, ExperimentFollowsTask
<1> QED
  BY <1>1, Invariant, PTL

\* A gateway keeps what it runs in its file until Core has the outcome, through
\* crashes, refused calls and clean-ups.
THEOREM NotForgotten == Spec => []WorkIsNotForgotten
<1>1. ASSUME GInv PROVE WorkIsNotForgotten
  <2> SUFFICES ASSUME NEW e \in Experiments, task[e].status \in OnBox, ~task[e].cancel
               PROVE  e \in lost \/ local[task[e].box][e].known
    BY DEF WorkIsNotForgotten
  <2>1. task[e].box \in Boxes
    BY <1>1 DEF GInv, RowsOK, TaskOK, Held
  <2> QED
    BY <1>1, <2>1 DEF GInv, FilesOK, Entry, KeptOK
<1> QED
  BY <1>1, Invariant, PTL

\* The head of a gateway's queue is a report Core accepts, although it may
\* have been delivered before, or the task ended without the gateway.
THEOREM Accepted == Spec => []ReportsAreAccepted
<1>1. ASSUME GInv PROVE ReportsAreAccepted
  <2> SUFFICES ASSUME NEW b \in Boxes, NEW e \in Experiments,
                      local[b][e].pend # <<>>, ~local[b][e].skipped
               PROVE  Reportable(task[e].status, Head(local[b][e].pend))
    BY DEF ReportsAreAccepted
  <2>1. /\ Entry(b, e, local[b][e], exec[b][e]) /\ local[b][e].pend \in Seq(Reports)
        /\ task[e].status \in TaskStatuses
    BY <1>1, InHand DEF GInv, FilesOK, RowsTyped, Task
  <2>2. local[b][e].known /\ Claimed(e)
    BY <2>1 DEF Entry, LocalOK
  <2>3. CASE task[e].status \in OnBox
    <3>1. Chained(task[e].status, local[b][e].pend)
      BY <2>1, <2>2, <2>3 DEF Entry, ChainOK
    <3> QED
      BY <2>1, <3>1, TakenUp
  <2>4. CASE task[e].status \notin OnBox
    BY <2>1, <2>2, <2>4 DEF Claimed, TaskStatuses, Held, Reportable, Settled
  <2> QED
    BY <2>3, <2>4
<1> QED
  BY <1>1, Invariant, PTL

\* No heartbeat reached Core for the whole time after which a task is failed
\* with the code "timeout".
THEOREM TimeoutNeedsSilence == Spec => TimeoutMeansSilence
<1>1. ASSUME GInv, [Next]_vars
      PROVE  [\A e \in Experiments : task[e].code # "timeout" /\ task'[e].code = "timeout" =>
                box[task[e].box].silent >= StaleAfter + OfflineLimit]_vars
  BY <1>1, NextKeeps DEF Kept, Progress, Silenced
<1> QED
  BY <1>1, Invariant, PTL DEF Spec, TimeoutMeansSilence

\* No step of Core or of a gateway, in whatever order calls are handled, takes
\* a task or an experiment back to an earlier phase or out of an outcome.
THEOREM Monotone == Spec => ProgressIsMonotone
<1>1. ASSUME GInv, [Next]_vars
      PROVE  [\A e \in Experiments :
                Onward(task[e].status, task'[e].status) /\ Onward(exp[e], exp'[e])]_vars
  BY <1>1, NextKeeps DEF Kept, Progress
<1> QED
  BY <1>1, Invariant, PTL DEF Spec, ProgressIsMonotone
=============================================================================
