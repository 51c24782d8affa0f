---------------------------- MODULE ResultCommits ----------------------------
(***************************************************************************)
(* The results of experiments enter the repository: FinalizeWorkerResult   *)
(* (backend/internal/experiment/result_processing.go) commits the result   *)
(* directory, records the commit and binds the experiment to it, and       *)
(* appends a compensating revert when the binding fails.  Each request of  *)
(* a worker is one writer; two of them may finalize one experiment when    *)
(* the result job was claimed again.  Synchronisations, other clients,     *)
(* expired leases and crashes run in between.                              *)
(***************************************************************************)
EXTENDS Repository

CONSTANTS
  Syncs    \* goroutines of Core that synchronise: the loop and its waiters

VARIABLES
  result,  \* experiments: execution_status, result_commit_sha
  writer,  \* the control state of each writer
  sync     \* the control state of each synchronisation

vars == <<remote, head, repo, request, now, announced, result, writer, sync>>

-----------------------------------------------------------------------------
\* "failed" stands for every end but success.
Result == [status : {"processing_result", "succeeded", "failed"}, commit : Commit \cup {NoCommit}]

Phases == {"idle", "resolve", "begin", "prepare", "save", "push", "fetch", "complete",
           "fail", "stage", "bind", "record"}
\* seen is the head the writer has resolved, and then the one it has claimed.
Writer == [phase : Phases, exp : Experiments \cup {NoExp}, kind : Kinds, seen : 0..MaxCommits,
           commit : Commit \cup {NoCommit}]
Sync == [phase : {"idle", "fetch", "complete"}, requested : 0..MaxRequests,
         fetched : 0..MaxCommits]

Resting == [phase |-> "idle", exp |-> NoExp, kind |-> "archive", seen |-> 0,
            commit |-> NoCommit]
SyncResting == [phase |-> "idle", requested |-> 0, fetched |-> 0]

Init ==
  /\ RepoInit
  /\ result = [e \in Experiments |-> [status |-> "processing_result", commit |-> NoCommit]]
  /\ writer = [w \in Writers |-> Resting]
  /\ sync = [s \in Syncs |-> SyncResting]

Key(p) == <<p.exp, p.kind>>
Goto(w, p) == writer' = [writer EXCEPT ![w] = p]
Phase(w, phase) == Goto(w, [writer[w] EXCEPT !.phase = phase])

\* From here on the writer does not need the head it has seen, or its commit.
Past(w, phase) == Goto(w, [writer[w] EXCEPT !.phase = phase, !.seen = 0])
Failing(w) == Goto(w, [writer[w] EXCEPT !.phase = "fail", !.seen = 0, !.commit = NoCommit])

-----------------------------------------------------------------------------
(* commitTrusted, for a result and for its revert.                         *)

ResolveHead(w) ==
  /\ writer[w].phase = "resolve"
  /\ Goto(w, [writer[w] EXCEPT !.phase = "begin", !.seen = head])
  /\ UNCHANGED <<repoVars, result, sync>>

\* Where a commit goes on when it is in the branch and on record.
Committed(p, c) ==
  IF p.kind = "archive" THEN [p EXCEPT !.phase = "stage", !.seen = 0, !.commit = c]
                        ELSE [p EXCEPT !.phase = "record", !.seen = 0, !.commit = NoCommit]

Begin(w) ==
  LET p == writer[w]
      q == request[Key(p)] IN
  /\ p.phase = "begin"
  /\ \/ /\ BeginCommit(w, Key(p), p.seen)
        /\ Goto(w, [p EXCEPT !.phase = IF q.commit = NoCommit THEN "prepare" ELSE "push",
                             !.seen = head, !.commit = q.commit])
     \/ /\ Refusal(Key(p), p.seen) = "done"
        /\ Goto(w, Committed(p, q.commit)) /\ UNCHANGED repoVars
     \/ /\ Refusal(Key(p), p.seen) \notin {"none", "done"}
        /\ Goto(w, Resting) /\ UNCHANGED repoVars
  /\ UNCHANGED <<result, sync>>

\* The last commit about the directory of e decides whether it is there.
Directory(e) ==
  \E i \in 1..Len(remote) : /\ remote[i].exp = e /\ remote[i].kind = "archive"
                            /\ \A k \in (i + 1)..Len(remote) : remote[k].exp # e

\* The remote is fetched; adding what is there, or removing what is not, fails.
Preparable(p) ==
  /\ Len(remote) = p.seen /\ p.seen < MaxCommits
  /\ Directory(p.exp) <=> p.kind = "revert"

Prepare(w) ==
  LET p == writer[w] IN
  /\ p.phase = "prepare"
  /\ IF Preparable(p)
     THEN Goto(w, [p EXCEPT !.phase = "save",
                            !.commit = [kind |-> p.kind, exp |-> p.exp, base |-> p.seen]])
     ELSE Failing(w)
  /\ UNCHANGED <<repoVars, result, sync>>

Save(w) ==
  LET p == writer[w] IN
  /\ p.phase = "save"
  /\ \/ SavePreparedCommit(w, Key(p), p.commit) /\ Phase(w, "push")
     \/ ~Savable(w, Key(p), p.commit) /\ Failing(w) /\ UNCHANGED repoVars
  /\ UNCHANGED <<result, sync>>

\* A push that reaches the remote is accepted as a fast-forward; it may be
\* lost, and so may its answer.
PushPrepared(w) ==
  LET p == writer[w] IN
  /\ p.phase = "push"
  /\ IF At(p.commit, p.seen)
     THEN Past(w, "complete") /\ UNCHANGED repoVars
     ELSE /\ Past(w, "fetch")
          /\ \/ /\ Len(remote) = p.commit.base
                /\ Push(p.commit)
                /\ UNCHANGED <<head, repo, request, syncVars>>
             \/ UNCHANGED repoVars
  /\ UNCHANGED <<result, sync>>

\* Mutant of Confirmed: the answer of the push is believed.
ConfirmedBlindly(c) == TRUE

\* The fetched head is the prepared commit.
Confirmed(c) == At(c, Len(remote))

Fetch(w) ==
  /\ writer[w].phase = "fetch"
  /\ IF Confirmed(writer[w].commit) THEN Phase(w, "complete") ELSE Failing(w)
  /\ UNCHANGED <<repoVars, result, sync>>

Complete(w) ==
  LET p == writer[w] IN
  /\ p.phase = "complete"
  /\ \/ CompleteCommit(w, Key(p), p.commit) /\ Goto(w, Committed(p, p.commit))
     \/ ~Completable(w, Key(p)) /\ Failing(w) /\ UNCHANGED repoVars
  /\ UNCHANGED <<result, sync>>

\* An error of git, of the network or the database, a cancelled request, or a
\* lease that could not be renewed.
Interrupt(w) ==
  /\ writer[w].phase \in {"prepare", "save", "push", "fetch", "complete"}
  /\ Failing(w)
  /\ UNCHANGED <<repoVars, result, sync>>

Fail(w) ==
  /\ writer[w].phase = "fail"
  /\ FailCommit(w, Key(writer[w]))
  /\ Goto(w, Resting)
  /\ UNCHANGED <<result, sync>>

Renew(w) ==
  /\ writer[w].phase \in {"prepare", "save", "push", "fetch", "complete"}
  /\ Mine(w, Key(writer[w]))
  /\ RenewLease(w)
  /\ UNCHANGED <<result, writer, sync>>

CommitStep(w) ==
  \/ ResolveHead(w) \/ Begin(w) \/ Prepare(w) \/ Save(w) \/ PushPrepared(w) \/ Fetch(w)
  \/ Complete(w) \/ Interrupt(w) \/ Fail(w) \/ Renew(w)

-----------------------------------------------------------------------------
(* FinalizeWorkerResult.                                                   *)

Processing(e) == result[e].status = "processing_result"

Finalize(w, e) ==
  /\ writer[w].phase = "idle" /\ Processing(e)
  /\ Goto(w, [Resting EXCEPT !.phase = "resolve", !.exp = e])
  /\ UNCHANGED <<repoVars, result, sync>>

Compensating(p) == [p EXCEPT !.phase = "resolve", !.kind = "revert", !.commit = NoCommit]

\* Any error, also one of the database, leads to the revert.
RecordManagedStaging(w) ==
  LET p == writer[w] IN
  /\ p.phase = "stage"
  /\ \/ Processing(p.exp) /\ Phase(w, "bind")
     \/ Goto(w, Compensating(p))
  /\ UNCHANGED <<repoVars, result, sync>>

CompleteResult(w) ==
  LET p == writer[w] IN
  /\ p.phase = "bind"
  /\ result' = IF Processing(p.exp)
               THEN [result EXCEPT ![p.exp] = [status |-> "succeeded", commit |-> p.commit]]
               ELSE result
  /\ Goto(w, IF result[p.exp].status = "failed" THEN Compensating(p) ELSE Resting)
  /\ UNCHANGED <<repoVars, sync>>

\* The transaction fails, or it commits and the experiment cannot be read.
CompleteResultFails(w) ==
  LET p == writer[w] IN
  /\ p.phase = "bind"
  /\ \/ UNCHANGED result
     \/ /\ Processing(p.exp)
        /\ result' = [result EXCEPT ![p.exp] = [status |-> "succeeded", commit |-> p.commit]]
  /\ Goto(w, Compensating(p))
  /\ UNCHANGED <<repoVars, sync>>

\* RecordCompensation writes columns that nothing here reads.
Record(w) ==
  /\ writer[w].phase = "record"
  /\ Goto(w, Resting)
  /\ UNCHANGED <<repoVars, result, sync>>

\* The process of the writer dies; locks and requests stay.
Crash(w) ==
  /\ writer[w].phase # "idle"
  /\ Goto(w, Resting)
  /\ UNCHANGED <<repoVars, result, sync>>

FinalizeStep(w) ==
  \/ \E e \in Experiments : Finalize(w, e)
  \/ RecordManagedStaging(w) \/ CompleteResult(w) \/ CompleteResultFails(w) \/ Record(w)
  \/ Crash(w)

\* The worker reports a failure, or a user cancels.
EndResult(e) ==
  /\ Processing(e)
  /\ result' = [result EXCEPT ![e].status = "failed"]
  /\ UNCHANGED <<repoVars, writer, sync>>

-----------------------------------------------------------------------------
(* The coordinator.                                                        *)

SyncGoto(s, p) == sync' = [sync EXCEPT ![s] = p]

StartSync(s) ==
  /\ sync[s].phase = "idle"
  /\ ClaimSync
  /\ SyncGoto(s, [SyncResting EXCEPT !.phase = "fetch", !.requested = repo.requested])
  /\ UNCHANGED <<result, writer>>

Synchronize(s) ==
  /\ sync[s].phase = "fetch"
  /\ SyncGoto(s, [sync[s] EXCEPT !.phase = "complete", !.fetched = Len(remote)])
  /\ UNCHANGED <<repoVars, result, writer>>

FinishSync(s) ==
  /\ sync[s].phase = "complete"
  /\ IF repo.owner = Core THEN CompleteSync(sync[s].fetched, sync[s].requested)
                          ELSE UNCHANGED repoVars
  /\ SyncGoto(s, SyncResting)
  /\ UNCHANGED <<result, writer>>

SyncFails(s, retryable) ==
  /\ sync[s].phase = "fetch"
  /\ IF repo.owner = Core THEN FailSync(retryable, sync[s].requested) ELSE UNCHANGED repoVars
  /\ SyncGoto(s, SyncResting)
  /\ UNCHANGED <<result, writer>>

RenewSync(s) ==
  /\ sync[s].phase = "fetch" /\ repo.status = "syncing"
  /\ RenewLease(Core)
  /\ UNCHANGED <<result, writer, sync>>

SyncCrash(s) ==
  /\ sync[s].phase # "idle"
  /\ SyncGoto(s, SyncResting)
  /\ UNCHANGED <<repoVars, result, writer>>

SyncStep(s) ==
  \/ StartSync(s) \/ Synchronize(s) \/ FinishSync(s) \/ RenewSync(s) \/ SyncCrash(s)
  \/ \E retryable \in BOOLEAN : SyncFails(s, retryable)

Next ==
  \/ \E w \in Writers : CommitStep(w) \/ FinalizeStep(w)
  \/ \E s \in Syncs : SyncStep(s)
  \/ \E e \in Experiments : EndResult(e)
  \/ (ExternalPush \/ RequestSync \/ LeaseExpires) /\ UNCHANGED <<result, writer, sync>>

Spec == Init /\ [][Next]_vars

-----------------------------------------------------------------------------
(* Properties.                                                             *)

\* Every variable has its type; a request has an owner exactly while it is
\* pending, and a commit when it has succeeded.
RTypeOK ==
  /\ remote \in Seq(Commit) /\ Len(remote) <= MaxCommits
  /\ head \in 0..MaxCommits /\ repo \in Repo
  /\ request \in [Keys -> Request]
  /\ now \in 0..MaxRequests /\ announced \in 0..MaxCommits
  /\ result \in [Experiments -> Result]
  /\ writer \in [Writers -> Writer]
  /\ sync \in [Syncs -> Sync]
  /\ \A k \in Keys : /\ request[k].owner # NoOwner <=> request[k].status = "pending"
                     /\ request[k].status = "succeeded" => request[k].commit # NoCommit

Archives(e) == {i \in 1..Len(remote) : remote[i].kind = "archive" /\ remote[i].exp = e}

\* The branch holds at most one archive of an experiment, however many writers
\* prepare one, crash after the push, or lose their lease before it; and an
\* experiment succeeds only with the archive that is in the branch.
ResultIsArchivedOnce ==
  \A e \in Experiments :
    /\ Cardinality(Archives(e)) <= 1
    /\ result[e].status = "succeeded" =>
         /\ Pushed(result[e].commit)
         /\ Archives(e) = {result[e].commit.base + 1}

\* Commits that were announced are in the workspace, or a request to fetch them
\* is waiting: one that comes while the repository is being synchronised, or
\* while several goroutines of Core hold the same claim, is not lost.  A
\* failure that is not to be retried leaves the status "error".
AnnouncedIsSynced ==
  announced <= head \/ repo.requested # 0 \/ repo.status = "error"

-----------------------------------------------------------------------------
(* The promise to those who read results.                                  *)

Reverts(e) == {i \in 1..Len(remote) : remote[i].kind = "revert" /\ remote[i].exp = e}

ArchivesOf == [e \in Experiments |-> Archives(e)]
RevertsOf == [e \in Experiments |-> Reverts(e)]
Outcomes == [e \in Experiments |-> IF Processing(e) THEN "open" ELSE result[e].status]
Evidence == [e \in Experiments |->
               IF result[e].status = "succeeded" THEN {result[e].commit.base + 1} ELSE {}]

Ledger == INSTANCE ResultLedger
          WITH length <- Len(remote), archives <- ArchivesOf, reverts <- RevertsOf,
               outcome <- Outcomes, evidence <- Evidence

\* Every step of writers, synchronisations and other clients is a step of the
\* ledger of results or none at all: there is one archive and one revert that
\* follows it, whoever crashes or loses the lease, and a success is final and
\* names the archive.
LedgerIsKept == Ledger!LedgerSpec
=============================================================================
