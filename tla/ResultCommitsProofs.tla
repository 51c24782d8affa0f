------------------------ MODULE ResultCommitsProofs ------------------------
(***************************************************************************)
(* Proofs about ResultCommits for any number of experiments, writers,      *)
(* synchronisations, commits and requests.  The argument: a request is     *)
(* prepared once, at the head it was made for; a push is of that commit    *)
(* only; so a commit in the branch is the one its request names, and a     *)
(* writer that still holds the lock moves the head forward.                *)
(***************************************************************************)
EXTENDS ResultCommits, FiniteSetTheorems, TLAPS

Writing == {"prepare", "save", "push", "fetch", "complete"}

\* The branch: a commit is at its position, and its request names it.
BranchOK ==
  /\ \A i \in 1..Len(remote) : remote[i].base = i - 1
  /\ \A i \in 1..Len(remote) : remote[i].kind \in Kinds =>
       /\ <<remote[i].exp, remote[i].kind>> \in Keys
       /\ request[<<remote[i].exp, remote[i].kind>>].commit = remote[i]

\* A request has one commit, for its experiment and on the head it expected.
RequestOK(k) ==
  LET q == request[k] IN
  /\ q.commit # NoCommit =>
       /\ q.status # "absent"
       /\ q.commit.exp = k[1] /\ q.commit.kind = k[2] /\ q.commit.base = q.expected
  /\ q.status = "succeeded" => Pushed(q.commit)

\* What the phase of a writer says of its request; the head does not pass the
\* commit of a writer that still has the lock.
WriterOK(w, p) ==
  LET q == request[Key(p)] IN
  /\ p.phase # "idle" => p.exp \in Experiments
  /\ p.phase \in Writing => q.status # "absent"
  /\ p.phase \in Writing /\ repo.owner = w => head <= q.expected + 1
  /\ p.phase = "prepare" => p.seen = q.expected
  /\ p.phase = "save" =>
       /\ p.commit # NoCommit
       /\ p.commit.exp = p.exp /\ p.commit.kind = p.kind /\ p.commit.base = q.expected
  /\ p.phase \in {"push", "fetch", "complete", "stage", "bind"} =>
       p.commit # NoCommit /\ p.commit = q.commit
  /\ p.phase \in {"complete", "stage", "bind"} => Pushed(p.commit)
  /\ p.phase \in {"stage", "bind"} => p.kind = "archive"

ResultOK(e) ==
  result[e].status = "succeeded" =>
    /\ result[e].commit # NoCommit
    /\ result[e].commit = request[<<e, "archive">>].commit
    /\ Pushed(result[e].commit)

\* A claim that has read the last request has fetched what it announced.
SyncOK(s) ==
  LET p == sync[s] IN
  /\ p.phase # "idle" => p.requested \in 1..now
  /\ p.phase = "complete" /\ p.requested = now => announced <= p.fetched

LockOK ==
  /\ announced <= Len(remote)
  /\ repo.requested \in {0, now}
  /\ repo.owner = Core => repo.requested # 0
  /\ repo.owner \in Writers => repo.status = "ready"

RInv ==
  /\ RTypeOK
  /\ BranchOK
  /\ \A k \in Keys : RequestOK(k)
  /\ \A w \in Writers : WriterOK(w, writer[w])
  /\ \A e \in Experiments : ResultOK(e)
  /\ \A s \in Syncs : SyncOK(s)
  /\ LockOK
  /\ AnnouncedIsSynced

THEOREM RInit == Init => RInv
<1> SUFFICES ASSUME Init PROVE RInv
  OBVIOUS
<1> USE RepositoryConstants, NoCommitIsNone DEF Init, RepoInit
<1>1. RTypeOK
  BY DEF RTypeOK, Commit, Repo, Request, Result, Writer, Sync, Resting, SyncResting, Keys,
         Kinds, Phases
<1>2. BranchOK
  BY DEF BranchOK
<1>3. \A k \in Keys : RequestOK(k)
  BY DEF RequestOK
<1>4. \A w \in Writers : WriterOK(w, writer[w])
  BY DEF WriterOK, Resting, Writing
<1>5. \A e \in Experiments : ResultOK(e)
  BY DEF ResultOK
<1>6. \A s \in Syncs : SyncOK(s)
  BY DEF SyncOK, SyncResting
<1>7. LockOK /\ AnnouncedIsSynced
  BY DEF LockOK, AnnouncedIsSynced
<1> QED
  BY <1>1, <1>2, <1>3, <1>4, <1>5, <1>6, <1>7 DEF RInv

-----------------------------------------------------------------------------
(* Steps that change nothing but the control state of one writer.          *)

\* A writer goes on; the repository, the results and the claims stay.
LEMMA WriterMoves ==
  ASSUME RInv, NEW w \in Writers, NEW p \in Writer, Goto(w, p), WriterOK(w, p),
         UNCHANGED <<repoVars, result, sync>>
  PROVE  RInv'
<1> USE DEF Goto, repoVars, syncVars
<1>1. RTypeOK'
  BY DEF RInv, RTypeOK
<1>2. BranchOK'
  BY DEF RInv, BranchOK
<1>3. \A k \in Keys : RequestOK(k)'
  BY DEF RInv, RequestOK, Pushed, At
<1>4. \A v \in Writers : WriterOK(v, writer[v])'
  <2> SUFFICES ASSUME NEW v \in Writers PROVE WriterOK(v, writer[v])'
    OBVIOUS
  <2>1. writer'[v] = IF v = w THEN p ELSE writer[v]
    BY DEF RInv, RTypeOK
  <2>2. WriterOK(v, writer'[v])
    BY <2>1 DEF RInv
  <2> QED
    BY <2>2 DEF WriterOK, Pushed, At, Key
<1>5. \A e \in Experiments : ResultOK(e)'
  BY DEF RInv, ResultOK, Pushed, At
<1>6. \A s \in Syncs : SyncOK(s)'
  BY DEF RInv, SyncOK
<1>7. LockOK' /\ AnnouncedIsSynced'
  BY DEF RInv, LockOK, AnnouncedIsSynced
<1> QED
  BY <1>1, <1>2, <1>3, <1>4, <1>5, <1>6, <1>7 DEF RInv

\* A writer that gives up stands where it started.
LEMMA WriterRests ==
  ASSUME RInv, NEW w \in Writers, Goto(w, Resting), UNCHANGED <<repoVars, result, sync>>
  PROVE  RInv'
<1>1. Resting \in Writer
  BY RepositoryConstants DEF Resting, Writer, Phases, Kinds
<1>2. WriterOK(w, Resting)
  BY DEF WriterOK, Resting, Writing
<1> QED
  BY <1>1, <1>2, WriterMoves

LEMMA WriterFails ==
  ASSUME RInv, NEW w \in Writers, writer[w].phase \in Writing, Failing(w),
         UNCHANGED <<repoVars, result, sync>>
  PROVE  RInv'
<1> DEFINE p == [writer[w] EXCEPT !.phase = "fail", !.seen = 0, !.commit = NoCommit]
<1>1. writer[w] \in Writer /\ WriterOK(w, writer[w])
  BY DEF RInv, RTypeOK
<1>a. 0 \in 0..MaxCommits /\ "fail" \in Phases
  BY RepositoryConstants DEF Phases
<1>2. p \in Writer /\ p.phase = "fail" /\ p.exp = writer[w].exp
  BY <1>1, <1>a DEF Writer
<1>3. WriterOK(w, p)
  BY <1>1, <1>2 DEF WriterOK, Writing
<1>4. Goto(w, p)
  BY DEF Failing
<1> HIDE DEF p
<1> QED
  BY <1>2, <1>3, <1>4, WriterMoves

LEMMA ResolveHeadKeeps ==
  ASSUME RInv, NEW w \in Writers, ResolveHead(w) PROVE RInv'
<1> DEFINE p == [writer[w] EXCEPT !.phase = "begin", !.seen = head]
<1>1. writer[w] \in Writer /\ WriterOK(w, writer[w]) /\ head \in 0..MaxCommits
  BY DEF RInv, RTypeOK
<1>2. p \in Writer /\ p.phase = "begin" /\ p.exp = writer[w].exp
  BY <1>1 DEF Writer, Phases
<1>3. WriterOK(w, p)
  BY <1>1, <1>2 DEF WriterOK, Writing, ResolveHead
<1>4. Goto(w, p) /\ UNCHANGED <<repoVars, result, sync>>
  BY DEF ResolveHead
<1> HIDE DEF p
<1> QED
  BY <1>2, <1>3, <1>4, WriterMoves

LEMMA PrepareKeeps ==
  ASSUME RInv, NEW w \in Writers, Prepare(w) PROVE RInv'
<1>1. writer[w] \in Writer /\ WriterOK(w, writer[w]) /\ writer[w].phase = "prepare"
  BY DEF RInv, RTypeOK, Prepare
<1>2. CASE ~Preparable(writer[w])
  BY <1>1, <1>2, WriterFails DEF Prepare, Writing
<1>3. CASE Preparable(writer[w])
  <2> DEFINE c == [kind |-> writer[w].kind, exp |-> writer[w].exp, base |-> writer[w].seen]
             p == [writer[w] EXCEPT !.phase = "save", !.commit = c]
  <2>1. c \in Commit
    BY <1>1 DEF Writer, Commit
  <2>2. c # NoCommit
    BY <2>1, NoCommitIsNone
  <2>3. p \in Writer /\ p.phase = "save" /\ p.commit = c /\ Key(p) = Key(writer[w])
        /\ p.exp = writer[w].exp /\ p.kind = writer[w].kind
    BY <1>1, <2>1 DEF Writer, Phases, Key
  <2> HIDE DEF p
  <2>4. WriterOK(w, p)
    BY <1>1, <2>2, <2>3 DEF WriterOK, Writing
  <2> QED
    BY <1>3, <2>3, <2>4, WriterMoves DEF Prepare, p
<1> QED
  BY <1>2, <1>3

LEMMA FetchKeeps ==
  ASSUME RInv, NEW w \in Writers, Fetch(w) PROVE RInv'
<1>1. writer[w] \in Writer /\ WriterOK(w, writer[w]) /\ writer[w].phase = "fetch"
  BY DEF RInv, RTypeOK, Fetch
<1>2. CASE ~Confirmed(writer[w].commit)
  BY <1>1, <1>2, WriterFails DEF Fetch, Writing
<1>3. CASE Confirmed(writer[w].commit)
  <2> DEFINE p == [writer[w] EXCEPT !.phase = "complete"]
  <2>1. p \in Writer /\ p.phase = "complete" /\ p.commit = writer[w].commit
        /\ Key(p) = Key(writer[w]) /\ p.exp = writer[w].exp
    BY <1>1 DEF Writer, Phases, Key
  <2>2. writer[w].commit # NoCommit
    BY <1>1 DEF WriterOK
  <2>3. Pushed(writer[w].commit)
    <3>1. At(writer[w].commit, Len(remote)) /\ Len(remote) \in Nat
      BY <1>3 DEF Confirmed, RInv, RTypeOK
    <3>2. writer[w].commit.base = Len(remote) - 1
      BY <3>1 DEF At, RInv, BranchOK
    <3> QED
      BY <2>2, <3>1, <3>2 DEF Pushed
  <2> HIDE DEF p
  <2>4. WriterOK(w, p)
    BY <1>1, <2>1, <2>2, <2>3 DEF WriterOK, Writing
  <2> QED
    BY <1>3, <2>1, <2>4, WriterMoves DEF Fetch, Phase, p
<1> QED
  BY <1>2, <1>3

LEMMA FinalizeKeeps ==
  ASSUME RInv, NEW w \in Writers, NEW e \in Experiments, Finalize(w, e) PROVE RInv'
<1> DEFINE p == [Resting EXCEPT !.phase = "resolve", !.exp = e]
<1>a. Resting \in Writer
  BY RepositoryConstants DEF Writer, Phases, Resting, Kinds
<1>1. p \in Writer /\ p.phase = "resolve" /\ p.exp = e
  BY <1>a DEF Writer, Phases
<1>2. WriterOK(w, p)
  BY <1>1 DEF WriterOK, Writing
<1>3. Goto(w, p) /\ UNCHANGED <<repoVars, result, sync>>
  BY DEF Finalize
<1> HIDE DEF p
<1> QED
  BY <1>1, <1>2, <1>3, WriterMoves

\* The compensation starts anew, with the head of now.
LEMMA CompensatingOK ==
  ASSUME RInv, NEW w \in Writers, writer[w].phase \in {"stage", "bind"}
  PROVE  Compensating(writer[w]) \in Writer /\ WriterOK(w, Compensating(writer[w]))
<1> DEFINE p == Compensating(writer[w])
<1>1. writer[w] \in Writer /\ WriterOK(w, writer[w])
  BY DEF RInv, RTypeOK
<1>2. p \in Writer /\ p.phase = "resolve" /\ p.exp = writer[w].exp
  BY <1>1 DEF Writer, Phases, Kinds, Compensating
<1> HIDE DEF p
<1>3. WriterOK(w, p)
  BY <1>1, <1>2 DEF WriterOK, Writing
<1> QED
  BY <1>2, <1>3 DEF p

LEMMA StagingKeeps ==
  ASSUME RInv, NEW w \in Writers, RecordManagedStaging(w) PROVE RInv'
<1>1. writer[w] \in Writer /\ WriterOK(w, writer[w]) /\ writer[w].phase = "stage"
  BY DEF RInv, RTypeOK, RecordManagedStaging
<1>2. CASE Goto(w, Compensating(writer[w]))
  BY <1>1, <1>2, CompensatingOK, WriterMoves DEF RecordManagedStaging
<1>3. CASE Phase(w, "bind")
  <2> DEFINE p == [writer[w] EXCEPT !.phase = "bind"]
  <2>1. p \in Writer /\ p.phase = "bind" /\ p.commit = writer[w].commit
        /\ Key(p) = Key(writer[w]) /\ p.exp = writer[w].exp /\ p.kind = writer[w].kind
    BY <1>1 DEF Writer, Phases, Key
  <2> HIDE DEF p
  <2>2. WriterOK(w, p)
    BY <1>1, <2>1 DEF WriterOK, Writing
  <2> QED
    BY <1>3, <2>1, <2>2, WriterMoves DEF RecordManagedStaging, Phase, p
<1> QED
  BY <1>2, <1>3 DEF RecordManagedStaging

-----------------------------------------------------------------------------
(* Steps that change the lock only, and other clients.                     *)

\* Nothing in the branch is lost when it grows.
LEMMA PushedStays ==
  ASSUME RTypeOK, NEW c, NEW d \in Commit, Pushed(c), remote' \in {remote, Append(remote, d)}
  PROVE  Pushed(c)'
BY DEF RTypeOK, Pushed, At

LEMMA SomeCommit == \E d : d \in Commit
<1>1. [kind |-> "other", exp |-> NoExp, base |-> 0] \in Commit
  BY RepositoryConstants DEF Commit
<1> QED
  BY <1>1

\* The row of the repository changes, the branch grows by another client, or a
\* synchronisation is requested: no request, writer or result is touched, and
\* no writer gets the lock.
LEMMA RepositoryMoves ==
  ASSUME RInv, RTypeOK', BranchOK', LockOK', AnnouncedIsSynced', \A s \in Syncs : SyncOK(s)',
         NEW d \in Commit, remote' \in {remote, Append(remote, d)},
         repo'.owner \in Writers => repo'.owner = repo.owner /\ head' = head,
         UNCHANGED <<request, result, writer>>
  PROVE  RInv'
<1>t. RTypeOK
  BY DEF RInv
<1>p. ASSUME NEW c, Pushed(c) PROVE Pushed(c)'
  BY <1>t, <1>p, PushedStays
<1>1. \A k \in Keys : RequestOK(k)'
  <2> SUFFICES ASSUME NEW k \in Keys PROVE RequestOK(k)'
    OBVIOUS
  <2>1. RequestOK(k)
    BY DEF RInv
  <2>2. Pushed(request[k].commit) => Pushed(request[k].commit)'
    BY <1>p
  <2> QED
    BY <2>1, <2>2 DEF RequestOK, Pushed, At
<1>2. \A w \in Writers : WriterOK(w, writer[w])'
  <2> SUFFICES ASSUME NEW w \in Writers PROVE WriterOK(w, writer[w])'
    OBVIOUS
  <2>1. WriterOK(w, writer[w])
    BY DEF RInv
  <2>2. Pushed(writer[w].commit) => Pushed(writer[w].commit)'
    BY <1>p
  <2>3. repo'.owner = w => repo.owner = w /\ head' = head
    OBVIOUS
  <2> QED
    BY <2>1, <2>2, <2>3 DEF WriterOK, Pushed, At, Key
<1>3. \A e \in Experiments : ResultOK(e)'
  <2> SUFFICES ASSUME NEW e \in Experiments PROVE ResultOK(e)'
    OBVIOUS
  <2>1. ResultOK(e)
    BY DEF RInv
  <2>2. Pushed(result[e].commit) => Pushed(result[e].commit)'
    BY <1>p
  <2> QED
    BY <2>1, <2>2 DEF ResultOK, Pushed, At
<1> QED
  BY <1>1, <1>2, <1>3 DEF RInv

other == <<result, writer, sync>>

LEMMA ExternalPushKeeps ==
  ASSUME RInv, ExternalPush, UNCHANGED other PROVE RInv'
<1> DEFINE c == [kind |-> "other", exp |-> NoExp, base |-> Len(remote)]
<1>t. RTypeOK
  BY DEF RInv
<1>1. remote' = Append(remote, c) /\ Len(remote) < MaxCommits
      /\ UNCHANGED <<head, repo, request, now, announced, result, writer, sync>>
  BY DEF ExternalPush, Push, syncVars, other
<1>2. c \in Commit /\ c.base = Len(remote) /\ c.kind \notin Kinds
  BY <1>1, <1>t DEF Commit, RTypeOK, Kinds
<1> HIDE DEF c
<1>3. RTypeOK'
  BY <1>1, <1>2, <1>t, RepositoryConstants DEF RTypeOK
<1>4. BranchOK'
  BY <1>1, <1>2, <1>t DEF BranchOK, RTypeOK, RInv
<1>5. LockOK' /\ AnnouncedIsSynced'
  BY <1>1, <1>t DEF RInv, LockOK, AnnouncedIsSynced, RTypeOK
<1>6. \A s \in Syncs : SyncOK(s)'
  BY <1>1 DEF RInv, SyncOK
<1> QED
  BY <1>1, <1>2, <1>3, <1>4, <1>5, <1>6, RepositoryMoves

LEMMA RequestSyncKeeps ==
  ASSUME RInv, RequestSync, UNCHANGED other PROVE RInv'
<1>t. RTypeOK
  BY DEF RInv
<1>1. remote' = remote /\ now < MaxRequests /\ now' = now + 1
      /\ repo' = [repo EXCEPT !.requested = now + 1] /\ announced' = Len(remote)
      /\ UNCHANGED <<head, request, result, writer, sync>>
  BY DEF RequestSync, other
<1>2. /\ repo' \in Repo /\ repo'.owner = repo.owner /\ repo'.requested = now' /\ now' # 0
      /\ repo'.status = repo.status /\ now' \in 0..MaxRequests
  <2>1. repo \in Repo /\ now \in 0..MaxRequests /\ MaxRequests \in Nat
    BY <1>t, RepositoryConstants DEF RTypeOK
  <2>2. now' \in 0..MaxRequests /\ now' # 0
    BY <1>1, <2>1
  <2>3. repo' = [repo EXCEPT !.requested = now']
    BY <1>1
  <2>4. PICK x : x = now'
    OBVIOUS
  <2> QED
    BY <2>1, <2>2, <2>3, <2>4 DEF Repo
<1>3. RTypeOK'
  BY <1>1, <1>2, <1>t, RepositoryConstants DEF RTypeOK
<1>4. BranchOK'
  BY <1>1 DEF BranchOK, RInv
<1>5. LockOK' /\ AnnouncedIsSynced'
  BY <1>1, <1>2, <1>t DEF RInv, LockOK, AnnouncedIsSynced, RTypeOK
<1>6. \A s \in Syncs : SyncOK(s)'
  BY <1>1, <1>t DEF RInv, SyncOK, RTypeOK
<1> QED
  BY <1>1, <1>2, <1>3, <1>4, <1>5, <1>6, RepositoryMoves, NoCommitIsNone, SomeCommit

\* A lease expires or is renewed.
LEMMA LeaseKeeps ==
  ASSUME RInv, NEW x \in {"live", "over"}, repo' = [repo EXCEPT !.lease = x],
         UNCHANGED <<remote, head, request, syncVars>>, UNCHANGED other
  PROVE  RInv'
<1>t. RTypeOK
  BY DEF RInv
<1>1. UNCHANGED <<remote, head, request, now, announced, result, writer, sync>>
  BY DEF syncVars, other
<1>2. repo' \in Repo /\ repo'.owner = repo.owner /\ repo'.requested = repo.requested
      /\ repo'.status = repo.status
  BY <1>t DEF RTypeOK, Repo
<1>3. RTypeOK'
  BY <1>1, <1>2, <1>t DEF RTypeOK
<1>4. BranchOK'
  BY <1>1 DEF BranchOK, RInv
<1>5. LockOK' /\ AnnouncedIsSynced'
  BY <1>1, <1>2 DEF RInv, LockOK, AnnouncedIsSynced
<1>6. \A s \in Syncs : SyncOK(s)'
  BY <1>1 DEF RInv, SyncOK
<1> QED
  BY <1>1, <1>2, <1>3, <1>4, <1>5, <1>6, RepositoryMoves, SomeCommit

-----------------------------------------------------------------------------
(* Synchronisation.                                                        *)

\* A claim goes on; the repository stays.
LEMMA SyncMoves ==
  ASSUME RInv, NEW s \in Syncs, NEW p \in Sync, SyncGoto(s, p),
         p.phase # "idle" => p.requested \in 1..now,
         p.phase = "complete" /\ p.requested = now => announced <= p.fetched,
         UNCHANGED <<repoVars, result, writer>>
  PROVE  RInv'
<1>t. RTypeOK
  BY DEF RInv
<1>1. UNCHANGED <<remote, head, repo, request, now, announced, result, writer>>
  BY DEF repoVars
<1>2. sync' = [sync EXCEPT ![s] = p]
  BY DEF SyncGoto
<1>3. RTypeOK'
  BY <1>1, <1>2, <1>t DEF RTypeOK
<1>4. BranchOK' /\ LockOK' /\ AnnouncedIsSynced'
  BY <1>1 DEF BranchOK, LockOK, AnnouncedIsSynced, RInv
<1>5. \A v \in Syncs : SyncOK(v)'
  BY <1>1, <1>2, <1>t DEF RInv, SyncOK, RTypeOK
<1> QED
  BY <1>1, <1>3, <1>4, <1>5, RepositoryMoves, SomeCommit

LEMMA SyncIdle == SyncResting \in Sync /\ SyncResting.phase = "idle"
BY RepositoryConstants DEF SyncResting, Sync

LEMMA StartSyncKeeps ==
  ASSUME RInv, NEW s \in Syncs, StartSync(s) PROVE RInv'
<1> DEFINE p == [SyncResting EXCEPT !.phase = "fetch", !.requested = repo.requested]
<1>t. RTypeOK
  BY DEF RInv
<1>1. repo.requested # 0 /\ repo' = [repo EXCEPT !.status = "syncing", !.owner = Core,
                                                  !.lease = "live"]
      /\ sync' = [sync EXCEPT ![s] = p]
      /\ UNCHANGED <<remote, head, request, now, announced, result, writer>>
  BY DEF StartSync, ClaimSync, SyncGoto, syncVars
<1>2. p \in Sync /\ p.phase = "fetch" /\ p.requested = repo.requested
  BY <1>t, SyncIdle DEF Sync, RTypeOK, Repo
<1> HIDE DEF p
<1>3. repo' \in Repo /\ repo'.owner = Core /\ repo'.requested = repo.requested
  BY <1>1, <1>t DEF RTypeOK, Repo
<1>4. RTypeOK'
  BY <1>1, <1>2, <1>3, <1>t DEF RTypeOK
<1>5. BranchOK'
  BY <1>1 DEF BranchOK, RInv
<1>6. LockOK' /\ AnnouncedIsSynced'
  BY <1>1, <1>3, RepositoryConstants DEF LockOK, AnnouncedIsSynced, RInv
<1>7. \A v \in Syncs : SyncOK(v)'
  <2> SUFFICES ASSUME NEW v \in Syncs PROVE SyncOK(v)'
    OBVIOUS
  <2>1. sync'[v] = IF v = s THEN p ELSE sync[v]
    BY <1>1, <1>t DEF RTypeOK
  <2>2. repo.requested \in 1..now
    BY <1>1, <1>t DEF RInv, LockOK, RTypeOK
  <2> QED
    BY <1>1, <1>2, <2>1, <2>2 DEF RInv, SyncOK
<1> QED
  BY <1>1, <1>3, <1>4, <1>5, <1>6, <1>7, RepositoryMoves, SomeCommit, RepositoryConstants

LEMMA SynchronizeKeeps ==
  ASSUME RInv, NEW s \in Syncs, Synchronize(s) PROVE RInv'
<1> DEFINE p == [sync[s] EXCEPT !.phase = "complete", !.fetched = Len(remote)]
<1>t. RTypeOK /\ SyncOK(s) /\ announced <= Len(remote) /\ sync[s] \in Sync
  BY DEF RInv, LockOK, RTypeOK
<1>l. Len(remote) \in 0..MaxCommits
  BY <1>t DEF RTypeOK
<1>1. p \in Sync /\ p.phase = "complete" /\ p.requested = sync[s].requested
      /\ p.fetched = Len(remote)
  BY <1>t, <1>l DEF Sync
<1>2. sync[s].phase = "fetch" /\ SyncGoto(s, p) /\ UNCHANGED <<repoVars, result, writer>>
  BY DEF Synchronize
<1> HIDE DEF p
<1>3. p.phase # "idle" => p.requested \in 1..now
  BY <1>t, <1>1, <1>2 DEF SyncOK
<1>4. p.phase = "complete" /\ p.requested = now => announced <= p.fetched
  BY <1>t, <1>1
<1> QED
  BY <1>1, <1>2, <1>3, <1>4, SyncMoves

\* The end of a claim, one that was lost included.
LEMMA SyncEnds ==
  ASSUME RInv, NEW s \in Syncs, SyncGoto(s, SyncResting), UNCHANGED <<repoVars, result, writer>>
  PROVE  RInv'
BY SyncMoves, SyncIdle

LEMMA ReleaseKeeps ==
  ASSUME RInv, NEW s \in Syncs, SyncGoto(s, SyncResting), repo.owner = Core,
         NEW status \in {"ready", "error"}, NEW served \in BOOLEAN,
         NEW h \in 0..MaxCommits, head' = h,
         repo' = IF served THEN Served(Unlocked(status), sync[s].requested) ELSE Unlocked(status),
         status = "ready" => served /\ sync[s].phase = "complete" /\ h = sync[s].fetched,
         UNCHANGED <<remote, request, syncVars, result, writer>>
  PROVE  RInv'
<1>t. RTypeOK /\ SyncOK(s)
  BY DEF RInv
<1>1. UNCHANGED <<remote, request, now, announced, result, writer>>
  BY DEF syncVars
<1>2. sync' = [sync EXCEPT ![s] = SyncResting]
  BY DEF SyncGoto
<1>3. /\ Unlocked(status) \in Repo /\ Unlocked(status).owner = NoOwner
      /\ Unlocked(status).requested = repo.requested /\ Unlocked(status).status = status
  BY <1>t DEF Unlocked, Repo, RTypeOK
<1>4. /\ repo' \in Repo /\ repo'.owner = NoOwner /\ repo'.status = status
      /\ \/ repo'.requested = repo.requested /\ (served => repo.requested > sync[s].requested)
         \/ repo'.requested = 0 /\ served /\ repo.requested <= sync[s].requested
  <2> DEFINE r == Unlocked(status)
  <2> HIDE DEF r
  <2>1. CASE served /\ r.requested <= sync[s].requested
    <3>1. repo' = [r EXCEPT !.requested = 0]
      BY <2>1 DEF Served, r
    <3>2. r \in Repo /\ r.owner = NoOwner /\ r.status = status /\ r.requested = repo.requested
      BY <1>3 DEF r
    <3>3. 0 \in 0..MaxRequests
      BY RepositoryConstants
    <3>4. repo' \in Repo /\ repo'.owner = NoOwner /\ repo'.status = status /\ repo'.requested = 0
      BY <3>1, <3>2, <3>3 DEF Repo
    <3> QED
      BY <2>1, <3>2, <3>4
  <2>2. CASE ~(served /\ r.requested <= sync[s].requested)
    <3>1. repo' = r
      BY <2>2 DEF Served, r
    <3>2. sync[s].requested \in Int /\ repo.requested \in Int
      BY <1>t DEF RTypeOK, Sync, Repo
    <3> QED
      BY <2>2, <3>1, <3>2, <1>3 DEF r
  <2> QED
    BY <2>1, <2>2
<1>5. RTypeOK'
  BY <1>1, <1>2, <1>4, <1>t, SyncIdle DEF RTypeOK
<1>6. BranchOK'
  BY <1>1 DEF BranchOK, RInv
<1>7. LockOK'
  BY <1>1, <1>4, RepositoryConstants DEF LockOK, RInv
<1>8. AnnouncedIsSynced'
  <2>1. CASE repo'.requested # 0 \/ status = "error"
    BY <1>4, <2>1 DEF AnnouncedIsSynced
  <2>2. CASE repo'.requested = 0 /\ status = "ready"
    <3>1. repo.requested # 0 /\ repo.requested = now
      BY DEF RInv, LockOK
    <3>2. now <= sync[s].requested /\ sync[s].requested \in 1..now
      BY <1>4, <1>t, <2>2, <3>1 DEF SyncOK
    <3>3. announced <= sync[s].fetched
      BY <1>t, <2>2, <3>2 DEF SyncOK, RTypeOK
    <3> QED
      BY <1>1, <2>2, <3>3 DEF AnnouncedIsSynced
  <2> QED
    BY <2>1, <2>2
<1>9. \A v \in Syncs : SyncOK(v)'
  BY <1>1, <1>2, <1>t, SyncIdle DEF RInv, SyncOK, RTypeOK
<1> QED
  BY <1>1, <1>4, <1>5, <1>6, <1>7, <1>8, <1>9, RepositoryMoves, SomeCommit, RepositoryConstants

LEMMA FinishSyncKeeps ==
  ASSUME RInv, NEW s \in Syncs, FinishSync(s) PROVE RInv'
<1>1. CASE repo.owner = Core
  <2>1. sync[s].fetched \in 0..MaxCommits
    BY DEF RInv, RTypeOK, Sync
  <2>2. head' = sync[s].fetched /\ repo' = Served(Unlocked("ready"), sync[s].requested)
        /\ UNCHANGED <<remote, request, syncVars, result, writer>>
    BY <1>1 DEF FinishSync, CompleteSync
  <2>3. SyncGoto(s, SyncResting) /\ sync[s].phase = "complete"
    BY DEF FinishSync
  <2> QED
    BY <1>1, <2>1, <2>2, <2>3, ReleaseKeeps
<1>2. CASE repo.owner # Core
  BY <1>2, SyncEnds DEF FinishSync
<1> QED
  BY <1>1, <1>2

LEMMA SyncFailsKeeps ==
  ASSUME RInv, NEW s \in Syncs, NEW retryable \in BOOLEAN, SyncFails(s, retryable) PROVE RInv'
<1>1. CASE repo.owner = Core
  <2>1. head \in 0..MaxCommits
    BY DEF RInv, RTypeOK
  <2>2. /\ repo' = IF retryable THEN Unlocked("error")
                   ELSE Served(Unlocked("error"), sync[s].requested)
        /\ head' = head
        /\ UNCHANGED <<remote, request, syncVars, result, writer>>
    BY <1>1 DEF SyncFails, FailSync
  <2>3. SyncGoto(s, SyncResting)
    BY DEF SyncFails
  <2>4. CASE retryable
    BY <1>1, <2>1, <2>2, <2>3, <2>4, ReleaseKeeps
  <2>5. CASE ~retryable
    BY <1>1, <2>1, <2>2, <2>3, <2>5, ReleaseKeeps
  <2> QED
    BY <2>4, <2>5
<1>2. CASE repo.owner # Core
  BY <1>2, SyncEnds DEF SyncFails
<1> QED
  BY <1>1, <1>2

-----------------------------------------------------------------------------
(* Commits.                                                                *)

\* A writer changes its request, the lock or the branch.  No request loses its
\* commit or the head it was made for, no commit leaves the branch, and no
\* other writer gets the lock or keeps it over a new head.
LEMMA WriterActs ==
  ASSUME RInv, RTypeOK', BranchOK', LockOK', AnnouncedIsSynced',
         NEW w \in Writers, WriterOK(w, writer[w])',
         \A v \in Writers \ {w} : writer'[v] = writer[v],
         \A k \in Keys : RequestOK(k)',
         \A k \in Keys : /\ request[k].commit # NoCommit => request'[k].commit = request[k].commit
                         /\ request[k].status # "absent" =>
                              /\ request'[k].status # "absent"
                              /\ request'[k].expected = request[k].expected,
         NEW d \in Commit, remote' \in {remote, Append(remote, d)},
         \A v \in Writers \ {w} : repo'.owner = v => repo.owner = v /\ head' = head,
         UNCHANGED <<now, announced, result, sync>>
  PROVE  RInv'
<1>t. RTypeOK
  BY DEF RInv
<1>p. ASSUME NEW c, Pushed(c) PROVE Pushed(c)'
  BY <1>t, <1>p, PushedStays
<1>1. \A v \in Writers : WriterOK(v, writer[v])'
  <2> SUFFICES ASSUME NEW v \in Writers PROVE WriterOK(v, writer[v])'
    OBVIOUS
  <2>1. CASE v = w
    BY <2>1
  <2>2. CASE v # w
    <3>0. PICK r : r = writer[v]
      OBVIOUS
    <3>1. writer'[v] = r /\ r \in Writer
      BY <2>2, <3>0, <1>t DEF RTypeOK
    <3>2. WriterOK(v, r)
      BY <3>0 DEF RInv
    <3>3. Pushed(r.commit) => Pushed(r.commit)'
      BY <1>p
    <3>4. repo'.owner = v => repo.owner = v /\ head' = head
      BY <2>2
    <3>5. r.phase # "idle" => Key(r) \in Keys
      BY <3>1, <3>2 DEF WriterOK, Key, Keys, Writer
    <3>6. Writing = {"prepare", "save", "push", "fetch", "complete"}
      BY DEF Writing
    <3>7. r.phase # "idle" =>
            /\ request[Key(r)].commit # NoCommit =>
                 request'[Key(r)].commit = request[Key(r)].commit
            /\ request[Key(r)].status # "absent" =>
                 /\ request'[Key(r)].status # "absent"
                 /\ request'[Key(r)].expected = request[Key(r)].expected
      BY <3>5
    <3>8. WriterOK(v, r)'
      <4> DEFINE k == Key(r)
      <4> HIDE DEF k
      <4> QED
        BY <3>1, <3>2, <3>3, <3>4, <3>6, <3>7 DEF WriterOK, k
    <3> QED
      BY <3>1, <3>8 DEF WriterOK, Pushed, At, Key
  <2> QED
    BY <2>1, <2>2
<1>2. \A e \in Experiments : ResultOK(e)'
  <2> SUFFICES ASSUME NEW e \in Experiments PROVE ResultOK(e)'
    OBVIOUS
  <2>1. ResultOK(e)
    BY DEF RInv
  <2>2. Pushed(result[e].commit) => Pushed(result[e].commit)'
    BY <1>p
  <2>3. <<e, "archive">> \in Keys
    BY DEF Keys, Kinds
  <2> QED
    BY <2>1, <2>2, <2>3 DEF ResultOK, Pushed, At
<1>3. \A s \in Syncs : SyncOK(s)'
  BY DEF RInv, SyncOK
<1> QED
  BY <1>1, <1>2, <1>3 DEF RInv

\* While the branch stays and no request loses its commit, BranchOK stays.
LEMMA BranchStays ==
  ASSUME RInv, remote' = remote,
         \A k \in Keys : request[k].commit # NoCommit => request'[k].commit = request[k].commit
  PROVE  BranchOK'
<1>1. \A i \in 1..Len(remote) : remote[i] # NoCommit
  BY NoCommitIsNone DEF RInv, RTypeOK
<1> QED
  BY <1>1 DEF RInv, BranchOK

\* A writer at work has a key, and its request is one of the rows.
LEMMA Working ==
  ASSUME RInv, NEW w \in Writers, writer[w].phase # "idle"
  PROVE  /\ RTypeOK /\ writer[w] \in Writer /\ WriterOK(w, writer[w])
         /\ writer[w].exp \in Experiments /\ writer[w].kind \in Kinds
         /\ Key(writer[w]) = <<writer[w].exp, writer[w].kind>>
         /\ Key(writer[w]) \in Keys
         /\ request[Key(writer[w])] \in Request /\ RequestOK(Key(writer[w]))
         /\ w # NoOwner /\ w # Core
<1>1. RTypeOK /\ writer[w] \in Writer /\ WriterOK(w, writer[w])
  BY DEF RInv, RTypeOK
<1>2. writer[w].exp \in Experiments /\ writer[w].kind \in Kinds
  BY <1>1 DEF WriterOK, Writer
<1>3. Key(writer[w]) = <<writer[w].exp, writer[w].kind>> /\ Key(writer[w]) \in Keys
  BY <1>2 DEF Key, Keys
<1>4. request[Key(writer[w])] \in Request /\ RequestOK(Key(writer[w]))
  BY <1>1, <1>3 DEF RInv, RTypeOK
<1> QED
  BY <1>1, <1>2, <1>3, <1>4, RepositoryConstants

\* Commits below a position of the branch count up to it.
LEMMA AtBase ==
  ASSUME RInv, NEW c, NEW n, At(c, n)
  PROVE  c \in Commit /\ c # NoCommit /\ c.base = n - 1 /\ Pushed(c) /\ n \in 1..Len(remote)
<1>1. c \in Commit /\ n \in 1..Len(remote) /\ remote[n] = c
  BY DEF At, RInv, RTypeOK
<1>2. c.base = n - 1 /\ c # NoCommit
  BY <1>1, NoCommitIsNone DEF RInv, BranchOK
<1>3. c.base + 1 = n
  BY <1>1, <1>2 DEF RInv, RTypeOK
<1> QED
  BY <1>1, <1>2, <1>3 DEF Pushed, At

LEMMA RefusalNone ==
  ASSUME NEW k, NEW n, Refusal(k, n) = "none"
  PROVE  /\ request[k].status # "absent" => request[k].expected = n
         /\ request[k].status # "succeeded" /\ repo.status = "ready"
         /\ head = n \/ At(request[k].commit, head)
BY DEF Refusal

LEMMA RefusalDone ==
  ASSUME NEW k, NEW n, Refusal(k, n) = "done" PROVE request[k].status = "succeeded"
BY DEF Refusal

\* An archive goes on to the experiment, a revert to its record.
LEMMA CommittedOK ==
  ASSUME NEW p \in Writer, NEW c \in Commit, 0 \in 0..MaxCommits
  PROVE  /\ Committed(p, c) \in Writer /\ Committed(p, c).exp = p.exp
         /\ Committed(p, c).phase \in {"stage", "record"}
         /\ Committed(p, c).phase = "stage" =>
              Committed(p, c).kind = "archive" /\ p.kind = "archive" /\ Committed(p, c).commit = c
<1>1. CASE p.kind = "archive"
  BY <1>1 DEF Committed, Writer, Phases
<1>2. CASE p.kind # "archive"
  BY <1>2 DEF Committed, Writer, Phases
<1> QED
  BY <1>1, <1>2

LEMMA BeginKeeps ==
  ASSUME RInv, NEW w \in Writers, Begin(w) PROVE RInv'
<1> DEFINE p == writer[w]
           k == Key(p)
           q == request[k]
<1>0. p.phase = "begin" /\ UNCHANGED <<result, sync>>
  BY DEF Begin
<1>1. /\ RTypeOK /\ p \in Writer /\ WriterOK(w, p) /\ p.exp \in Experiments
      /\ k \in Keys /\ k = <<p.exp, p.kind>> /\ q \in Request /\ RequestOK(k) /\ w # NoOwner /\ w # Core
  BY <1>0, Working
<1>2. CASE BeginCommit(w, k, p.seen) /\ Goto(w, [p EXCEPT
             !.phase = IF q.commit = NoCommit THEN "prepare" ELSE "push",
             !.seen = head, !.commit = q.commit])
  <2> DEFINE r == [p EXCEPT !.phase = IF q.commit = NoCommit THEN "prepare" ELSE "push",
                            !.seen = head, !.commit = q.commit]
             n == [q EXCEPT !.status = "pending", !.expected = p.seen, !.owner = w]
  <2>1. Refusal(k, p.seen) = "none" /\ request' = [request EXCEPT ![k] = n]
        /\ repo' = [repo EXCEPT !.owner = w, !.lease = "live"]
        /\ UNCHANGED <<remote, head, now, announced, result, sync>>
    BY <1>0, <1>2 DEF BeginCommit, syncVars
  <2>2. head \in 0..MaxCommits /\ p.seen \in 0..MaxCommits /\ q.commit \in Commit \cup {NoCommit}
    BY <1>1 DEF RTypeOK, Writer, Request
  <2>3. /\ r \in Writer /\ r.exp = p.exp /\ r.kind = p.kind /\ Key(r) = k /\ r.seen = head
        /\ r.commit = q.commit
        /\ r.phase = IF q.commit = NoCommit THEN "prepare" ELSE "push"
    BY <1>1, <2>2 DEF Writer, Phases, Key
  <2>4. /\ n \in Request /\ n.status = "pending" /\ n.expected = p.seen /\ n.owner = w
        /\ n.commit = q.commit
    BY <1>1, <2>2 DEF Request
  <2>5. Goto(w, r)
    BY <1>2
  <2>6. /\ q.status # "absent" => q.expected = p.seen
        /\ q.status # "succeeded" /\ repo.status = "ready"
        /\ head = p.seen \/ At(q.commit, head)
    BY <2>1, RefusalNone
  <2> HIDE DEF r, n, p, k, q
  <2>7. repo' \in Repo /\ repo'.owner = w /\ repo'.requested = repo.requested
        /\ repo'.status = repo.status
    BY <1>1, <2>1 DEF RTypeOK, Repo
  <2>8. \A j \in Keys : request'[j] = IF j = k THEN n ELSE request[j]
    BY <1>1, <2>1 DEF RTypeOK
  <2>9. RTypeOK'
    <3>1. request' \in [Keys -> Request]
      BY <1>1, <2>1, <2>4 DEF RTypeOK
    <3>2. writer' \in [Writers -> Writer]
      BY <1>1, <2>3, <2>5 DEF RTypeOK, Goto
    <3>3. \A j \in Keys : /\ request'[j].owner # NoOwner <=> request'[j].status = "pending"
                          /\ request'[j].status = "succeeded" => request'[j].commit # NoCommit
      BY <1>1, <2>4, <2>8 DEF RTypeOK
    <3> QED
      BY <1>1, <2>1, <2>7, <3>1, <3>2, <3>3 DEF RTypeOK
  <2>10. \A j \in Keys : /\ request[j].commit # NoCommit => request'[j].commit = request[j].commit
                         /\ request[j].status # "absent" =>
                              /\ request'[j].status # "absent"
                              /\ request'[j].expected = request[j].expected
    BY <2>4, <2>6, <2>8 DEF q
  <2>11. BranchOK'
    BY <2>1, <2>10, BranchStays
  <2>12. LockOK' /\ AnnouncedIsSynced'
    BY <1>1, <2>1, <2>6, <2>7 DEF RInv, LockOK, AnnouncedIsSynced
  <2>13. \A j \in Keys : RequestOK(j)'
    <3> SUFFICES ASSUME NEW j \in Keys PROVE RequestOK(j)'
      OBVIOUS
    <3>1. RequestOK(j)
      BY DEF RInv
    <3>2. CASE j = k
      BY <1>1, <2>4, <2>6, <2>8, <3>2 DEF RequestOK, q
    <3>3. CASE j # k
      BY <2>1, <2>8, <3>1, <3>3 DEF RequestOK, Pushed, At
    <3> QED
      BY <3>2, <3>3
  <2>15. writer'[w] = r /\ \A v \in Writers \ {w} : writer'[v] = writer[v]
    BY <1>1, <2>5 DEF RTypeOK, Goto
  <2>14. WriterOK(w, writer[w])'
    <3>1. request'[k] = n
      BY <1>1, <2>8
    <3>2. At(q.commit, head) => q.commit # NoCommit /\ q.commit.base = head - 1
      BY AtBase
    <3>3. q.commit # NoCommit => q.status # "absent" /\ q.commit.base = q.expected
      BY <1>1 DEF RequestOK, q
    <3>4. At(q.commit, head) => head = p.seen + 1
      BY <2>2, <2>6, <3>2, <3>3
    <3>5. head <= p.seen + 1
      BY <2>2, <2>6, <3>4
    <3>6. q.commit = NoCommit => head = p.seen
      BY <2>6, <3>2
    <3> QED
      BY <1>1, <2>1, <2>3, <2>4, <2>15, <3>1, <3>5, <3>6 DEF WriterOK, Writing, Key
  <2> QED
    BY <1>0, <2>1, <2>15, <2>7, <2>9, <2>10, <2>11, <2>12, <2>13, <2>14, WriterActs, SomeCommit
<1>3. CASE Refusal(k, p.seen) = "done" /\ Goto(w, Committed(p, q.commit)) /\ UNCHANGED repoVars
  <2>1. q.status = "succeeded"
    BY <1>3, RefusalDone
  <2>2. Pushed(q.commit) /\ q.commit # NoCommit /\ q.commit \in Commit
    BY <1>1, <2>1 DEF RequestOK, Pushed, Request
  <2>3. 0 \in 0..MaxCommits
    BY RepositoryConstants
  <2> DEFINE r == Committed(p, q.commit)
  <2>4. /\ r \in Writer /\ r.exp = p.exp /\ r.phase \in {"stage", "record"}
        /\ r.phase = "stage" => r.kind = "archive" /\ p.kind = "archive" /\ r.commit = q.commit
    BY <1>1, <2>2, <2>3, CommittedOK
  <2> HIDE DEF r
  <2>5. r.phase = "stage" => Key(r) = k
    BY <2>4 DEF Key
  <2>6. WriterOK(w, r)
    BY <1>1, <2>2, <2>4, <2>5 DEF WriterOK, Writing
  <2> QED
    BY <1>0, <1>3, <2>4, <2>6, WriterMoves DEF r
<1>4. CASE Goto(w, Resting) /\ UNCHANGED repoVars
  BY <1>0, <1>4, WriterRests
<1> QED
  BY <1>2, <1>3, <1>4 DEF Begin

LEMMA SaveKeeps ==
  ASSUME RInv, NEW w \in Writers, Save(w) PROVE RInv'
<1> DEFINE p == writer[w]
           k == Key(p)
           q == request[k]
           c == p.commit
<1>0. p.phase = "save" /\ UNCHANGED <<result, sync>>
  BY DEF Save
<1>1. /\ RTypeOK /\ p \in Writer /\ WriterOK(w, p) /\ p.exp \in Experiments
      /\ k \in Keys /\ k = <<p.exp, p.kind>> /\ q \in Request /\ RequestOK(k)
      /\ w # NoOwner /\ w # Core
  BY <1>0, Working
<1>2. CASE ~Savable(w, k, c) /\ Failing(w) /\ UNCHANGED repoVars
  BY <1>0, <1>2, WriterFails DEF Writing
<1>3. CASE SavePreparedCommit(w, k, c) /\ Phase(w, "push")
  <2> DEFINE r == [p EXCEPT !.phase = "push"]
             n == [q EXCEPT !.commit = c]
  <2>1. q.status = "pending" /\ q.commit \in {NoCommit, c}
        /\ request' = [request EXCEPT ![k].commit = c]
        /\ UNCHANGED <<remote, head, repo, now, announced, result, sync>>
    BY <1>0, <1>3 DEF SavePreparedCommit, Savable, Mine, syncVars
  <2>2. c \in Commit /\ c # NoCommit /\ c.exp = p.exp /\ c.kind = p.kind /\ c.base = q.expected
    BY <1>0, <1>1 DEF WriterOK, Writer
  <2>3. /\ r \in Writer /\ r.exp = p.exp /\ r.kind = p.kind /\ Key(r) = k
        /\ r.commit = c /\ r.phase = "push"
    BY <1>1 DEF Writer, Phases, Key
  <2>4. /\ n \in Request /\ n.status = q.status /\ n.expected = q.expected /\ n.owner = q.owner
        /\ n.commit = c
    BY <1>1, <2>2 DEF Request
  <2>5. Goto(w, r)
    BY <1>3 DEF Phase
  <2>6. request' = [request EXCEPT ![k] = n]
    BY <2>1
  <2> HIDE DEF r, n, p, k, q, c
  <2>8. \A j \in Keys : request'[j] = IF j = k THEN n ELSE request[j]
    BY <1>1, <2>6 DEF RTypeOK
  <2>9. RTypeOK'
    <3>1. request' \in [Keys -> Request]
      BY <1>1, <2>6, <2>4 DEF RTypeOK
    <3>2. writer' \in [Writers -> Writer]
      BY <1>1, <2>3, <2>5 DEF RTypeOK, Goto
    <3>3. \A j \in Keys : /\ request'[j].owner # NoOwner <=> request'[j].status = "pending"
                          /\ request'[j].status = "succeeded" => request'[j].commit # NoCommit
      BY <1>1, <2>2, <2>4, <2>8 DEF RTypeOK, q
    <3> QED
      BY <1>1, <2>1, <3>1, <3>2, <3>3 DEF RTypeOK
  <2>10. \A j \in Keys : /\ request[j].commit # NoCommit => request'[j].commit = request[j].commit
                         /\ request[j].status # "absent" =>
                              /\ request'[j].status # "absent"
                              /\ request'[j].expected = request[j].expected
    BY <2>1, <2>4, <2>8 DEF q
  <2>11. BranchOK'
    BY <2>1, <2>10, BranchStays
  <2>12. LockOK' /\ AnnouncedIsSynced'
    BY <2>1 DEF RInv, LockOK, AnnouncedIsSynced
  <2>13. \A j \in Keys : RequestOK(j)'
    <3> SUFFICES ASSUME NEW j \in Keys PROVE RequestOK(j)'
      OBVIOUS
    <3>1. RequestOK(j)
      BY DEF RInv
    <3>2. CASE j = k
      <4>1. request'[j] = n /\ c.exp = k[1] /\ c.kind = k[2]
        BY <1>1, <2>2, <2>8, <3>2
      <4>2. n.status # "succeeded" /\ n.commit = c /\ n.expected = c.base
            /\ n.status # "absent"
        BY <2>1, <2>2, <2>4
      <4>3. PICK x : x = n
        OBVIOUS
      <4> QED
        BY <2>2, <3>2, <4>1, <4>2, <4>3 DEF RequestOK
    <3>3. CASE j # k
      BY <2>1, <2>8, <3>1, <3>3 DEF RequestOK, Pushed, At
    <3> QED
      BY <3>2, <3>3
  <2>15. writer'[w] = r /\ \A v \in Writers \ {w} : writer'[v] = writer[v]
    BY <1>1, <2>5 DEF RTypeOK, Goto
  <2>14. WriterOK(w, writer[w])'
    <3>1. request'[k] = n
      BY <1>1, <2>8
    <3>2. repo.owner = w => head <= q.expected + 1
      BY <1>0, <1>1 DEF WriterOK, Writing, q, k
    <3> QED
      BY <1>1, <2>1, <2>2, <2>3, <2>4, <2>15, <3>1, <3>2 DEF WriterOK, Writing, Key
  <2> QED
    BY <1>0, <2>1, <2>15, <2>9, <2>10, <2>11, <2>12, <2>13, <2>14, WriterActs, SomeCommit
<1> QED
  BY <1>2, <1>3 DEF Save

LEMMA PushKeeps ==
  ASSUME RInv, NEW w \in Writers, PushPrepared(w) PROVE RInv'
<1> DEFINE p == writer[w]
           k == Key(p)
           q == request[k]
           c == p.commit
<1>0. p.phase = "push" /\ UNCHANGED <<result, sync>>
  BY DEF PushPrepared
<1>1. /\ RTypeOK /\ p \in Writer /\ WriterOK(w, p) /\ p.exp \in Experiments
      /\ k \in Keys /\ k = <<p.exp, p.kind>> /\ q \in Request /\ RequestOK(k)
      /\ w # NoOwner /\ w # Core /\ p.kind \in Kinds
  BY <1>0, Working
<1>2. /\ c = q.commit /\ c # NoCommit /\ c \in Commit
      /\ c.exp = p.exp /\ c.kind = p.kind /\ c.base = q.expected /\ q.status # "absent"
      /\ repo.owner = w => head <= q.expected + 1
  BY <1>0, <1>1 DEF WriterOK, RequestOK, Writer, Writing
<1>3. 0 \in 0..MaxCommits
  BY RepositoryConstants
<1>4. ASSUME NEW phase \in {"complete", "fetch"}, Past(w, phase),
             phase = "complete" => Pushed(c), UNCHANGED repoVars
      PROVE  RInv'
  <2> DEFINE r == [p EXCEPT !.phase = phase, !.seen = 0]
  <2>1. /\ r \in Writer /\ r.exp = p.exp /\ Key(r) = k /\ r.commit = c /\ r.phase = phase
    BY <1>1, <1>3 DEF Writer, Phases, Key
  <2>2. Goto(w, r)
    BY <1>4 DEF Past
  <2> HIDE DEF r, p, k, q, c
  <2>3. WriterOK(w, r)
    BY <1>1, <1>2, <1>4, <2>1 DEF WriterOK, q
  <2> QED
    BY <1>0, <1>4, <2>1, <2>2, <2>3, WriterMoves
<1>5. CASE At(c, p.seen)
  <2>1. Pushed(c)
    BY <1>5, AtBase
  <2> QED
    BY <1>4, <1>5, <2>1 DEF PushPrepared
<1>6. CASE ~At(c, p.seen) /\ UNCHANGED repoVars
  BY <1>4, <1>6 DEF PushPrepared
<1>7. CASE ~At(c, p.seen) /\ Len(remote) = c.base /\ Push(c)
           /\ UNCHANGED <<head, repo, request, syncVars>>
  <2> DEFINE r == [p EXCEPT !.phase = "fetch", !.seen = 0]
  <2>1. /\ r \in Writer /\ r.exp = p.exp /\ r.kind = p.kind /\ r.commit = c /\ r.phase = "fetch"
    BY <1>1, <1>3 DEF Writer, Phases
  <2>2. Goto(w, r)
    BY <1>7 DEF PushPrepared, Past
  <2>3. remote' = Append(remote, c) /\ Len(remote) < MaxCommits /\ Len(remote) = c.base
        /\ UNCHANGED <<head, repo, request, now, announced, result, sync>>
    BY <1>0, <1>7 DEF Push, syncVars
  <2> HIDE DEF r, p, k, q, c
  <2>4. writer'[w] = r /\ \A v \in Writers \ {w} : writer'[v] = writer[v]
    BY <1>1, <2>2 DEF RTypeOK, Goto
  <2>5. remote' \in Seq(Commit) /\ Len(remote') = Len(remote) + 1
        /\ remote'[Len(remote) + 1] = c /\ \A i \in 1..Len(remote) : remote'[i] = remote[i]
    BY <1>1, <1>2, <2>3 DEF RTypeOK
  <2>6. RTypeOK'
    <3>1. writer' \in [Writers -> Writer]
      BY <1>1, <2>1, <2>2 DEF RTypeOK, Goto
    <3>2. Len(remote') <= MaxCommits
      BY <1>1, <2>3, <2>5, RepositoryConstants DEF RTypeOK
    <3> QED
      BY <1>1, <2>3, <2>5, <3>1, <3>2 DEF RTypeOK
  <2>7. BranchOK'
    <3> SUFFICES ASSUME NEW i \in 1..Len(remote')
                 PROVE  /\ remote'[i].base = i - 1
                        /\ remote'[i].kind \in Kinds =>
                             /\ <<remote'[i].exp, remote'[i].kind>> \in Keys
                             /\ request'[<<remote'[i].exp, remote'[i].kind>>].commit = remote'[i]
      BY DEF BranchOK
    <3>1. CASE i \in 1..Len(remote)
      BY <2>3, <2>5, <3>1 DEF RInv, BranchOK
    <3>2. CASE i = Len(remote) + 1
      <4>1. remote'[i] = c /\ i - 1 = c.base
        BY <1>1, <2>3, <2>5, <3>2 DEF RTypeOK
      <4>2. <<c.exp, c.kind>> = k /\ request'[k].commit = c
        BY <1>1, <1>2, <2>3 DEF q
      <4> QED
        BY <1>1, <4>1, <4>2
    <3> QED
      BY <1>1, <2>5, <3>1, <3>2 DEF RTypeOK
  <2>8. LockOK' /\ AnnouncedIsSynced'
    BY <1>1, <2>3, <2>5 DEF RInv, LockOK, AnnouncedIsSynced, RTypeOK
  <2>9. \A j \in Keys : RequestOK(j)'
    <3> SUFFICES ASSUME NEW j \in Keys PROVE RequestOK(j)'
      OBVIOUS
    <3>1. RequestOK(j)
      BY DEF RInv
    <3>2. Pushed(request[j].commit) => Pushed(request[j].commit)'
      <4>1. PICK x : x = request[j].commit
        OBVIOUS
      <4>2. Pushed(x) => Pushed(x)'
        BY <1>1, <1>2, <2>3, PushedStays
      <4> QED
        BY <2>3, <4>1, <4>2 DEF Pushed, At
    <3> QED
      BY <2>3, <3>1, <3>2 DEF RequestOK, Pushed, At
  <2>10. WriterOK(w, writer[w])'
    BY <1>1, <1>2, <2>1, <2>3, <2>4 DEF WriterOK, Key, q
  <2> QED
    BY <1>2, <2>3, <2>4, <2>6, <2>7, <2>8, <2>9, <2>10, WriterActs
<1> QED
  BY <1>5, <1>6, <1>7 DEF PushPrepared

LEMMA CompleteKeeps ==
  ASSUME RInv, NEW w \in Writers, Complete(w) PROVE RInv'
<1> DEFINE p == writer[w]
           k == Key(p)
           q == request[k]
           c == p.commit
<1>0. p.phase = "complete" /\ UNCHANGED <<result, sync>>
  BY DEF Complete
<1>1. /\ RTypeOK /\ p \in Writer /\ WriterOK(w, p) /\ p.exp \in Experiments
      /\ k \in Keys /\ k = <<p.exp, p.kind>> /\ q \in Request /\ RequestOK(k)
      /\ w # NoOwner /\ w # Core /\ p.kind \in Kinds
  BY <1>0, Working
<1>2. CASE ~Completable(w, k) /\ Failing(w) /\ UNCHANGED repoVars
  BY <1>0, <1>2, WriterFails DEF Writing
<1>3. CASE CompleteCommit(w, k, c) /\ Goto(w, Committed(p, c))
  <2> DEFINE r == Committed(p, c)
             n == [q EXCEPT !.status = "succeeded", !.commit = c, !.owner = NoOwner]
  <2>1. /\ repo.owner = w /\ q.owner = w /\ head' = c.base + 1
        /\ request' = [request EXCEPT ![k].status = "succeeded", ![k].commit = c,
                                      ![k].owner = NoOwner]
        /\ repo' = Unlocked("ready")
        /\ UNCHANGED <<remote, now, announced, result, sync>>
    BY <1>0, <1>3 DEF CompleteCommit, Completable, syncVars
  <2>2. /\ c = q.commit /\ c # NoCommit /\ c \in Commit /\ Pushed(c)
        /\ c.base = q.expected /\ head <= q.expected + 1
    BY <1>0, <1>1, <2>1 DEF WriterOK, RequestOK, Writer, Writing
  <2>3. 0 \in 0..MaxCommits
    BY RepositoryConstants
  <2>4. /\ r \in Writer /\ r.exp = p.exp /\ r.phase \in {"stage", "record"}
        /\ r.phase = "stage" => r.kind = "archive" /\ p.kind = "archive" /\ r.commit = c
    BY <1>1, <2>2, <2>3, CommittedOK
  <2>5. /\ n \in Request /\ n.status = "succeeded" /\ n.expected = q.expected
        /\ n.owner = NoOwner /\ n.commit = c
    BY <1>1, <2>2 DEF Request
  <2>6. Goto(w, r) /\ request' = [request EXCEPT ![k] = n]
    BY <1>3, <2>1
  <2> HIDE DEF r, n, p, k, q, c
  <2>7. repo' \in Repo /\ repo'.owner = NoOwner /\ repo'.requested = repo.requested
        /\ repo'.status = "ready"
    BY <1>1, <2>1 DEF RTypeOK, Repo, Unlocked
  <2>8. \A j \in Keys : request'[j] = IF j = k THEN n ELSE request[j]
    BY <1>1, <2>6 DEF RTypeOK
  <2>9. writer'[w] = r /\ \A v \in Writers \ {w} : writer'[v] = writer[v]
    BY <1>1, <2>6 DEF RTypeOK, Goto
  <2>10. head' \in 0..MaxCommits /\ head <= head'
    <3>1. c.base + 1 \in 1..Len(remote)
      BY <2>2 DEF Pushed, At
    <3>2. head' \in 0..MaxCommits
      BY <1>1, <2>1, <3>1, RepositoryConstants DEF RTypeOK
    <3> QED
      BY <2>1, <2>2, <3>2
  <2>11. RTypeOK'
    <3>1. request' \in [Keys -> Request]
      BY <1>1, <2>6, <2>5 DEF RTypeOK
    <3>2. writer' \in [Writers -> Writer]
      BY <1>1, <2>4, <2>6 DEF RTypeOK, Goto
    <3>3. \A j \in Keys : /\ request'[j].owner # NoOwner <=> request'[j].status = "pending"
                          /\ request'[j].status = "succeeded" => request'[j].commit # NoCommit
      BY <1>1, <2>2, <2>5, <2>8 DEF RTypeOK
    <3> QED
      BY <1>1, <2>1, <2>7, <2>10, <3>1, <3>2, <3>3 DEF RTypeOK
  <2>12. \A j \in Keys : /\ request[j].commit # NoCommit => request'[j].commit = request[j].commit
                         /\ request[j].status # "absent" =>
                              /\ request'[j].status # "absent"
                              /\ request'[j].expected = request[j].expected
    BY <2>2, <2>5, <2>8 DEF q
  <2>13. BranchOK'
    BY <2>1, <2>12, BranchStays
  <2>14. LockOK' /\ AnnouncedIsSynced'
    <3>1. repo.status = "ready"
      BY <2>1 DEF RInv, LockOK
    <3>2. announced <= head \/ repo.requested # 0
      BY <3>1 DEF RInv, AnnouncedIsSynced
    <3>3. announced <= head' \/ repo.requested # 0
      BY <1>1, <2>10, <3>2 DEF RTypeOK
    <3> QED
      BY <2>1, <2>7, <3>3, RepositoryConstants DEF RInv, LockOK, AnnouncedIsSynced
  <2>15. \A j \in Keys : RequestOK(j)'
    <3> SUFFICES ASSUME NEW j \in Keys PROVE RequestOK(j)'
      OBVIOUS
    <3>1. RequestOK(j)
      BY DEF RInv
    <3>2. CASE j = k
      <4>0. PICK x : x = c
        OBVIOUS
      <4>1. request'[j] = n /\ Pushed(x)'
        BY <2>1, <2>2, <2>8, <3>2, <4>0 DEF Pushed, At
      <4>2. x.exp = k[1] /\ x.kind = k[2]
        BY <1>1, <2>2, <4>0 DEF RequestOK, q
      <4> QED
        BY <2>2, <2>5, <3>2, <4>0, <4>1, <4>2 DEF RequestOK, Pushed, At
    <3>3. CASE j # k
      BY <2>1, <2>8, <3>1, <3>3 DEF RequestOK, Pushed, At
    <3> QED
      BY <3>2, <3>3
  <2>16. WriterOK(w, writer[w])'
    <3>1. request'[k] = n
      BY <1>1, <2>8
    <3>2. PICK x : x = r
      OBVIOUS
    <3>3. PICK y : y = c
      OBVIOUS
    <3>4. Pushed(y)'
      BY <2>1, <2>2, <3>3 DEF Pushed, At
    <3>5. x.exp \in Experiments /\ x.phase \notin Writing \cup {"complete", "bind", "idle"}
      BY <1>1, <2>4, <3>2 DEF Writing
    <3>6. x.phase = "stage" => /\ x.kind = "archive" /\ x.commit = y
                               /\ request'[Key(x)].commit = y
      BY <1>1, <2>4, <2>5, <3>1, <3>2, <3>3 DEF Key
    <3>7. WriterOK(w, x)'
      BY <2>2, <2>4, <3>2, <3>3, <3>4, <3>5, <3>6 DEF WriterOK, Writing, Key
    <3> QED
      BY <2>9, <3>2, <3>7 DEF WriterOK, Pushed, At, Key
  <2>17. \A v \in Writers \ {w} : repo'.owner # v
    BY <2>7, RepositoryConstants
  <2> QED
    BY <2>1, <2>9, <2>11, <2>12, <2>13, <2>14, <2>15, <2>16, <2>17, WriterActs, SomeCommit
<1> QED
  BY <1>2, <1>3 DEF Complete

LEMMA FailKeeps ==
  ASSUME RInv, NEW w \in Writers, Fail(w) PROVE RInv'
<1> DEFINE p == writer[w]
           k == Key(p)
           q == request[k]
           n == IF q.owner = w THEN Failed(q) ELSE q
<1>0. p.phase = "fail" /\ FailCommit(w, k) /\ Goto(w, Resting) /\ UNCHANGED <<result, sync>>
  BY DEF Fail
<1>1. /\ RTypeOK /\ k \in Keys /\ q \in Request /\ RequestOK(k) /\ w # NoOwner /\ w # Core
  BY <1>0, Working
<1>2. /\ n \in Request /\ n.commit = q.commit /\ n.expected = q.expected
      /\ q.owner = w => q.status = "pending" /\ n.status = "failed" /\ n.owner = NoOwner
      /\ q.owner # w => n = q
  BY <1>1 DEF Request, Failed, RTypeOK
<1>3. /\ request' = [request EXCEPT ![k] = n]
      /\ repo' = IF repo.owner = w THEN Unlocked("ready") ELSE repo
      /\ UNCHANGED <<remote, head, now, announced, result, sync>>
  <2>1. request' = IF q.owner = w THEN [request EXCEPT ![k] = Failed(@)] ELSE request
    BY <1>0 DEF FailCommit
  <2>2. request' = [request EXCEPT ![k] = n]
    BY <1>1, <2>1 DEF RTypeOK
  <2> QED
    BY <1>0, <2>2 DEF FailCommit, syncVars
<1> HIDE DEF n, p, k, q
<1>4. /\ repo' \in Repo /\ repo'.requested = repo.requested
      /\ repo.owner = w => repo'.owner = NoOwner /\ repo'.status = "ready"
      /\ repo.owner # w => repo' = repo
  BY <1>1, <1>3 DEF RTypeOK, Repo, Unlocked
<1>5. \A j \in Keys : request'[j] = IF j = k THEN n ELSE request[j]
  BY <1>1, <1>3 DEF RTypeOK
<1>6. writer'[w] = Resting /\ Resting \in Writer /\ \A v \in Writers \ {w} : writer'[v] = writer[v]
  <2>1. Resting \in Writer
    BY RepositoryConstants DEF Resting, Writer, Phases, Kinds
  <2> QED
    BY <1>0, <1>1, <2>1 DEF RTypeOK, Goto
<1>7. RTypeOK'
  <2>1. request' \in [Keys -> Request]
    BY <1>1, <1>2, <1>3 DEF RTypeOK
  <2>2. writer' \in [Writers -> Writer]
    BY <1>0, <1>1, <1>6 DEF RTypeOK, Goto
  <2>3. \A j \in Keys : /\ request'[j].owner # NoOwner <=> request'[j].status = "pending"
                        /\ request'[j].status = "succeeded" => request'[j].commit # NoCommit
    BY <1>1, <1>2, <1>5 DEF RTypeOK, q
  <2> QED
    BY <1>1, <1>3, <1>4, <2>1, <2>2, <2>3 DEF RTypeOK
<1>8. \A j \in Keys : /\ request[j].commit # NoCommit => request'[j].commit = request[j].commit
                      /\ request[j].status # "absent" =>
                           /\ request'[j].status # "absent"
                           /\ request'[j].expected = request[j].expected
  BY <1>2, <1>5 DEF q
<1>9. BranchOK'
  BY <1>3, <1>8, BranchStays
<1>10. LockOK' /\ AnnouncedIsSynced'
  <2>1. repo.owner = w => repo.status = "ready"
    BY DEF RInv, LockOK
  <2> QED
    BY <1>3, <1>4, <2>1, RepositoryConstants DEF RInv, LockOK, AnnouncedIsSynced
<1>11. \A j \in Keys : RequestOK(j)'
  <2> SUFFICES ASSUME NEW j \in Keys PROVE RequestOK(j)'
    OBVIOUS
  <2>1. RequestOK(j)
    BY DEF RInv
  <2>2. CASE j = k
    BY <1>1, <1>2, <1>3, <1>5, <2>2 DEF RequestOK, Pushed, At, q
  <2>3. CASE j # k
    BY <1>3, <1>5, <2>1, <2>3 DEF RequestOK, Pushed, At
  <2> QED
    BY <2>2, <2>3
<1>12. WriterOK(w, writer[w])'
  BY <1>6 DEF WriterOK, Resting, Writing
<1>13. \A v \in Writers \ {w} : repo'.owner = v => repo.owner = v /\ head' = head
  BY <1>3, <1>4, RepositoryConstants
<1> QED
  BY <1>3, <1>6, <1>7, <1>8, <1>9, <1>10, <1>11, <1>12, <1>13, WriterActs, SomeCommit

-----------------------------------------------------------------------------
(* Results.                                                                *)

\* A result changes while the repository stays.
LEMMA ResultMoves ==
  ASSUME RInv, result' \in [Experiments -> Result], \A e \in Experiments : ResultOK(e)',
         writer' \in [Writers -> Writer], \A v \in Writers : WriterOK(v, writer'[v]),
         UNCHANGED <<repoVars, sync>>
  PROVE  RInv'
<1> USE DEF repoVars, syncVars
<1>1. RTypeOK'
  BY DEF RInv, RTypeOK
<1>2. BranchOK'
  BY DEF RInv, BranchOK
<1>3. \A k \in Keys : RequestOK(k)'
  BY DEF RInv, RequestOK, Pushed, At
<1>4. \A v \in Writers : WriterOK(v, writer[v])'
  <2> SUFFICES ASSUME NEW v \in Writers PROVE WriterOK(v, writer[v])'
    OBVIOUS
  <2>1. WriterOK(v, writer'[v])
    OBVIOUS
  <2> QED
    BY <2>1 DEF WriterOK, Pushed, At, Key
<1>6. \A s \in Syncs : SyncOK(s)'
  BY DEF RInv, SyncOK
<1>7. LockOK' /\ AnnouncedIsSynced'
  BY DEF RInv, LockOK, AnnouncedIsSynced
<1> QED
  BY <1>1, <1>2, <1>3, <1>4, <1>6, <1>7 DEF RInv

\* The experiment is bound to the commit that its writer has pushed.
LEMMA BindOK ==
  ASSUME RInv, NEW w \in Writers, writer[w].phase = "bind",
         result' \in {result, [result EXCEPT ![writer[w].exp] =
                                [status |-> "succeeded", commit |-> writer[w].commit]]},
         UNCHANGED repoVars
  PROVE  result' \in [Experiments -> Result] /\ \A e \in Experiments : ResultOK(e)'
<1> DEFINE p == writer[w]
           k == Key(p)
<1>1. /\ RTypeOK /\ p \in Writer /\ WriterOK(w, p) /\ p.exp \in Experiments
      /\ k \in Keys /\ k = <<p.exp, p.kind>>
  BY Working
<1>2. /\ p.commit # NoCommit /\ p.commit = request[<<p.exp, "archive">>].commit
      /\ Pushed(p.commit) /\ p.commit \in Commit
  BY <1>1 DEF WriterOK, Writer
<1> DEFINE x == [status |-> "succeeded", commit |-> p.commit]
<1>3. x \in Result /\ x.commit = p.commit
  BY <1>2 DEF Result
<1> HIDE DEF x, p, k
<1>4. CASE result' = result
  BY <1>1, <1>4 DEF RInv, RTypeOK, ResultOK, Pushed, At, repoVars
<1>5. CASE result' = [result EXCEPT ![p.exp] = x]
  <2>1. result' \in [Experiments -> Result]
    BY <1>1, <1>3, <1>5 DEF RTypeOK
  <2>2. ASSUME NEW e \in Experiments PROVE ResultOK(e)'
    <3>1. result'[e] = IF e = p.exp THEN x ELSE result[e]
      BY <1>1, <1>5 DEF RTypeOK
    <3>2. CASE e = p.exp
      BY <1>2, <1>3, <3>1, <3>2 DEF ResultOK, Pushed, At, repoVars
    <3>3. CASE e # p.exp
      BY <3>1, <3>3 DEF RInv, ResultOK, Pushed, At, repoVars
    <3> QED
      BY <3>2, <3>3
  <2> QED
    BY <2>1, <2>2
<1> QED
  BY <1>4, <1>5 DEF x, p

LEMMA BindingKeeps ==
  ASSUME RInv, NEW w \in Writers, writer[w].phase = "bind",
         result' \in {result, [result EXCEPT ![writer[w].exp] =
                                [status |-> "succeeded", commit |-> writer[w].commit]]},
         Goto(w, Compensating(writer[w])) \/ Goto(w, Resting), UNCHANGED <<repoVars, sync>>
  PROVE  RInv'
<1>1. result' \in [Experiments -> Result] /\ \A e \in Experiments : ResultOK(e)'
  BY BindOK
<1>2. Resting \in Writer /\ WriterOK(w, Resting)
  BY RepositoryConstants DEF Resting, Writer, Phases, Kinds, WriterOK, Writing
<1>3. Compensating(writer[w]) \in Writer /\ WriterOK(w, Compensating(writer[w]))
  BY CompensatingOK
<1>4. PICK p \in Writer : Goto(w, p) /\ WriterOK(w, p)
  BY <1>2, <1>3
<1>5. writer' \in [Writers -> Writer]
  BY <1>4 DEF RInv, RTypeOK, Goto
<1>6. \A v \in Writers : WriterOK(v, writer'[v])
  <2> SUFFICES ASSUME NEW v \in Writers PROVE WriterOK(v, writer'[v])
    OBVIOUS
  <2>1. writer'[v] = IF v = w THEN p ELSE writer[v]
    BY <1>4 DEF RInv, RTypeOK, Goto
  <2>2. WriterOK(v, writer[v])
    BY DEF RInv
  <2> QED
    BY <1>4, <2>1, <2>2
<1> QED
  BY <1>1, <1>5, <1>6, ResultMoves

LEMMA CompleteResultKeeps ==
  ASSUME RInv, NEW w \in Writers, CompleteResult(w) \/ CompleteResultFails(w) PROVE RInv'
<1>1. writer[w].phase = "bind" /\ UNCHANGED <<repoVars, sync>>
  BY DEF CompleteResult, CompleteResultFails
<1>2. result' \in {result, [result EXCEPT ![writer[w].exp] =
                             [status |-> "succeeded", commit |-> writer[w].commit]]}
  BY DEF CompleteResult, CompleteResultFails
<1>3. Goto(w, Compensating(writer[w])) \/ Goto(w, Resting)
  BY DEF CompleteResult, CompleteResultFails
<1> QED
  BY <1>1, <1>2, <1>3, BindingKeeps

LEMMA EndResultKeeps ==
  ASSUME RInv, NEW e \in Experiments, EndResult(e) PROVE RInv'
<1>t. RTypeOK
  BY DEF RInv
<1> DEFINE x == [result[e] EXCEPT !.status = "failed"]
<1>1. result' = [result EXCEPT ![e] = x] /\ UNCHANGED <<repoVars, writer, sync>>
  BY DEF EndResult
<1>2. x \in Result /\ x.status = "failed"
  BY <1>t DEF RTypeOK, Result
<1> HIDE DEF x
<1>3. result' \in [Experiments -> Result]
  BY <1>t, <1>1, <1>2 DEF RTypeOK
<1>4. \A f \in Experiments : ResultOK(f)'
  BY <1>t, <1>1, <1>2 DEF RInv, RTypeOK, ResultOK, Pushed, At, repoVars
<1>5. writer' \in [Writers -> Writer] /\ \A v \in Writers : WriterOK(v, writer'[v])
  BY <1>t, <1>1 DEF RInv, RTypeOK
<1> QED
  BY <1>1, <1>3, <1>4, <1>5, ResultMoves

-----------------------------------------------------------------------------
(* The invariant.                                                          *)

LEMMA WriterStepKeeps ==
  ASSUME RInv, NEW w \in Writers, CommitStep(w) \/ FinalizeStep(w) PROVE RInv'
<1>1. CASE ResolveHead(w)
  BY <1>1, ResolveHeadKeeps
<1>2. CASE Begin(w)
  BY <1>2, BeginKeeps
<1>3. CASE Prepare(w)
  BY <1>3, PrepareKeeps
<1>4. CASE Save(w)
  BY <1>4, SaveKeeps
<1>5. CASE PushPrepared(w)
  BY <1>5, PushKeeps
<1>6. CASE Fetch(w)
  BY <1>6, FetchKeeps
<1>7. CASE Complete(w)
  BY <1>7, CompleteKeeps
<1>8. CASE Interrupt(w)
  BY <1>8, WriterFails DEF Interrupt, Writing
<1>9. CASE Fail(w)
  BY <1>9, FailKeeps
<1>10. CASE Renew(w)
  BY <1>10, LeaseKeeps DEF Renew, RenewLease, other
<1>11. CASE \E e \in Experiments : Finalize(w, e)
  BY <1>11, FinalizeKeeps
<1>12. CASE RecordManagedStaging(w)
  BY <1>12, StagingKeeps
<1>13. CASE CompleteResult(w) \/ CompleteResultFails(w)
  BY <1>13, CompleteResultKeeps
<1>14. CASE Record(w) \/ Crash(w)
  BY <1>14, WriterRests DEF Record, Crash
<1> QED
  BY <1>1, <1>2, <1>3, <1>4, <1>5, <1>6, <1>7, <1>8, <1>9, <1>10, <1>11, <1>12, <1>13, <1>14
  DEF CommitStep, FinalizeStep

LEMMA SyncStepKeeps ==
  ASSUME RInv, NEW s \in Syncs, SyncStep(s) PROVE RInv'
<1>1. CASE StartSync(s)
  BY <1>1, StartSyncKeeps
<1>2. CASE Synchronize(s)
  BY <1>2, SynchronizeKeeps
<1>3. CASE FinishSync(s)
  BY <1>3, FinishSyncKeeps
<1>4. CASE RenewSync(s)
  BY <1>4, LeaseKeeps DEF RenewSync, RenewLease, other
<1>5. CASE SyncCrash(s)
  BY <1>5, SyncEnds DEF SyncCrash
<1>6. CASE \E retryable \in BOOLEAN : SyncFails(s, retryable)
  BY <1>6, SyncFailsKeeps
<1> QED
  BY <1>1, <1>2, <1>3, <1>4, <1>5, <1>6 DEF SyncStep

LEMMA Stutters == ASSUME RInv, UNCHANGED vars PROVE RInv'
<1> USE DEF vars
<1>1. RTypeOK' /\ BranchOK' /\ LockOK' /\ AnnouncedIsSynced'
  BY DEF RInv, RTypeOK, BranchOK, LockOK, AnnouncedIsSynced
<1>2. (\A k \in Keys : RequestOK(k)') /\ (\A s \in Syncs : SyncOK(s)')
  BY DEF RInv, RequestOK, SyncOK, Pushed, At
<1>3. \A w \in Writers : WriterOK(w, writer[w])'
  BY DEF RInv, WriterOK, Pushed, At, Key
<1>4. \A e \in Experiments : ResultOK(e)'
  BY DEF RInv, ResultOK, Pushed, At
<1> QED
  BY <1>1, <1>2, <1>3, <1>4 DEF RInv

LEMMA RStep == RInv /\ [Next]_vars => RInv'
<1> SUFFICES ASSUME RInv, [Next]_vars PROVE RInv'
  OBVIOUS
<1>1. CASE \E w \in Writers : CommitStep(w) \/ FinalizeStep(w)
  BY <1>1, WriterStepKeeps
<1>2. CASE \E s \in Syncs : SyncStep(s)
  BY <1>2, SyncStepKeeps
<1>3. CASE \E e \in Experiments : EndResult(e)
  BY <1>3, EndResultKeeps
<1>4. CASE (ExternalPush \/ RequestSync \/ LeaseExpires) /\ UNCHANGED <<result, writer, sync>>
  <2>1. CASE ExternalPush
    BY <1>4, <2>1, ExternalPushKeeps DEF other
  <2>2. CASE RequestSync
    BY <1>4, <2>2, RequestSyncKeeps DEF other
  <2>3. CASE LeaseExpires
    BY <1>4, <2>3, LeaseKeeps DEF LeaseExpires, other
  <2> QED
    BY <1>4, <2>1, <2>2, <2>3
<1>5. CASE UNCHANGED vars
  BY <1>5, Stutters
<1> QED
  BY <1>1, <1>2, <1>3, <1>4, <1>5 DEF Next

\* The invariant holds in every reachable state, for every value of the constants.
THEOREM RInvariant == Spec => []RInv
<1>1. Init => RInv
  BY RInit
<1>2. RInv /\ [Next]_vars => RInv'
  BY RStep
<1> QED
  BY <1>1, <1>2, PTL DEF Spec

\* Type correctness: owners, leases, requests, commits and control states.
THEOREM RTypeCorrect == Spec => []RTypeOK
<1>1. RInv => RTypeOK
  BY DEF RInv
<1> QED
  BY <1>1, RInvariant, PTL

\* An archive in the branch is the one its request names, at its position.
LEMMA ArchivesAreOne ==
  ASSUME RInv, NEW e \in Experiments
  PROVE  \A i, j \in Archives(e) : i = j
<1> SUFFICES ASSUME NEW i \in Archives(e), NEW j \in Archives(e) PROVE i = j
  OBVIOUS
<1>1. i \in 1..Len(remote) /\ j \in 1..Len(remote) /\ remote[i].kind = "archive"
      /\ remote[j].kind = "archive" /\ remote[i].exp = e /\ remote[j].exp = e
  BY DEF Archives
<1>2. remote[i] = request[<<e, "archive">>].commit /\ remote[j] = request[<<e, "archive">>].commit
  BY <1>1 DEF RInv, BranchOK, Kinds
<1>3. remote[i].base = i - 1 /\ remote[j].base = j - 1
  BY <1>1 DEF RInv, BranchOK
<1> QED
  BY <1>1, <1>2, <1>3

\* However many writers, retries, crashes and lost leases there are, the branch
\* gets one archive of a result, and a success names it (FinalizeWorkerResult
\* over BeginCommit, SavePreparedCommit and PushPrepared).
THEOREM ArchivedOnce == Spec => []ResultIsArchivedOnce
<1>1. RInv => ResultIsArchivedOnce
  <2> SUFFICES ASSUME RInv, NEW e \in Experiments
               PROVE  /\ Cardinality(Archives(e)) <= 1
                      /\ result[e].status = "succeeded" =>
                           /\ Pushed(result[e].commit)
                           /\ Archives(e) = {result[e].commit.base + 1}
    BY DEF ResultIsArchivedOnce
  <2>1. \A i, j \in Archives(e) : i = j
    BY ArchivesAreOne
  <2>2. Cardinality(Archives(e)) <= 1
    <3>1. CASE Archives(e) = {}
      <4>1. Cardinality({}) = 0
        BY FS_EmptySet
      <4> QED
        BY <3>1, <4>1
    <3>2. CASE Archives(e) # {}
      <4>1. PICK i : i \in Archives(e)
        BY <3>2
      <4>2. Archives(e) = {i}
        BY <2>1, <4>1
      <4>3. Cardinality({i}) = 1
        BY FS_Singleton
      <4> QED
        BY <4>2, <4>3
    <3> QED
      BY <3>1, <3>2
  <2>3. ASSUME result[e].status = "succeeded"
        PROVE  Pushed(result[e].commit) /\ Archives(e) = {result[e].commit.base + 1}
    <3> DEFINE c == result[e].commit
    <3>1. c # NoCommit /\ c = request[<<e, "archive">>].commit /\ Pushed(c)
      BY <2>3 DEF RInv, ResultOK
    <3>2. <<e, "archive">> \in Keys
      BY DEF Keys, Kinds
    <3>3. c.exp = e /\ c.kind = "archive"
      BY <3>1, <3>2 DEF RInv, RequestOK
    <3>4. c.base + 1 \in Archives(e)
      BY <3>1, <3>3 DEF Pushed, At, Archives
    <3> QED
      BY <2>1, <3>1, <3>4
  <2> QED
    BY <2>2, <2>3
<1> QED
  BY <1>1, RInvariant, PTL

\* No announced commit is forgotten: CompleteSync clears the request of a
\* synchronisation only when none has come since the claim, and CompleteCommit
\* does not move the head back.
THEOREM Synced == Spec => []AnnouncedIsSynced
<1>1. RInv => AnnouncedIsSynced
  BY DEF RInv
<1> QED
  BY <1>1, RInvariant, PTL

-----------------------------------------------------------------------------
(* A revert follows its archive.                                           *)

\* Who prepares a revert has seen the archive in the branch, which stays there.
RevertsFollow ==
  /\ \A e \in Experiments : request[<<e, "revert">>].commit # NoCommit => Archives(e) # {}
  /\ \A w \in Writers : writer[w].phase = "save" /\ writer[w].kind = "revert" =>
       Archives(writer[w].exp) # {}

\* What a step does to the branch and to the results: nothing, a commit of
\* another client, a push, a success or another end.
External == [kind |-> "other", exp |-> NoExp, base |-> Len(remote)]
Pushing(w) ==
  /\ writer[w].phase = "push" /\ Len(remote) = writer[w].commit.base
  /\ remote' = Append(remote, writer[w].commit)
  /\ UNCHANGED result
Binding(w) ==
  LET p == writer[w] IN
  /\ p.phase = "bind" /\ Processing(p.exp)
  /\ result' = [result EXCEPT ![p.exp] = [status |-> "succeeded", commit |-> p.commit]]
  /\ UNCHANGED remote

LedgerStep ==
  \/ UNCHANGED <<remote, result>>
  \/ remote' = Append(remote, External) /\ Len(remote) < MaxCommits /\ UNCHANGED result
  \/ \E w \in Writers : Pushing(w) \/ Binding(w)
  \/ \E e \in Experiments : EndResult(e)

LEMMA StepsOfLedger == ASSUME [Next]_vars PROVE LedgerStep
<1>1. ASSUME NEW w \in Writers, CommitStep(w) \/ FinalizeStep(w) PROVE LedgerStep
  <2>1. CASE PushPrepared(w)
    <3>1. UNCHANGED <<remote, result>> \/ Pushing(w)
      BY <2>1 DEF PushPrepared, Pushing, Push, repoVars
    <3> QED
      BY <3>1 DEF LedgerStep
  <2>2. CASE CompleteResult(w) \/ CompleteResultFails(w)
    <3>1. UNCHANGED <<remote, result>> \/ Binding(w)
      BY <2>2 DEF CompleteResult, CompleteResultFails, Binding, repoVars
    <3> QED
      BY <3>1 DEF LedgerStep
  <2>3. CASE Begin(w) \/ Save(w) \/ Complete(w) \/ Fail(w) \/ Renew(w)
    <3>1. UNCHANGED <<remote, result>>
      BY <2>3 DEF Begin, BeginCommit, Save, SavePreparedCommit, Complete, CompleteCommit, Fail,
                  FailCommit, Renew, RenewLease, repoVars
    <3> QED
      BY <3>1 DEF LedgerStep
  <2>4. CASE \/ ResolveHead(w) \/ Prepare(w) \/ Fetch(w) \/ Interrupt(w)
             \/ \E e \in Experiments : Finalize(w, e)
             \/ RecordManagedStaging(w) \/ Record(w) \/ Crash(w)
    <3>1. UNCHANGED <<remote, result>>
      BY <2>4 DEF ResolveHead, Prepare, Fetch, Interrupt, Finalize, RecordManagedStaging, Record,
                  Crash, repoVars
    <3> QED
      BY <3>1 DEF LedgerStep
  <2> QED
    BY <1>1, <2>1, <2>2, <2>3, <2>4 DEF CommitStep, FinalizeStep
<1>2. ASSUME NEW s \in Syncs, SyncStep(s) PROVE LedgerStep
  <2>1. UNCHANGED <<remote, result>>
    BY <1>2 DEF SyncStep, StartSync, ClaimSync, Synchronize, FinishSync, CompleteSync, SyncFails,
                FailSync, RenewSync, RenewLease, SyncCrash, repoVars
  <2> QED
    BY <2>1 DEF LedgerStep
<1>3. CASE (ExternalPush \/ RequestSync \/ LeaseExpires) /\ UNCHANGED <<result, writer, sync>>
  BY <1>3 DEF LedgerStep, ExternalPush, External, Push, RequestSync, LeaseExpires
<1>4. CASE UNCHANGED vars
  BY <1>4 DEF LedgerStep, vars
<1>5. CASE \E e \in Experiments : EndResult(e)
  BY <1>5 DEF LedgerStep
<1> QED
  BY <1>1, <1>2, <1>3, <1>4, <1>5 DEF Next

\* What a commit adds to the archives and reverts of an experiment.
LEMMA Appended ==
  ASSUME RTypeOK, NEW d \in Commit, remote' = Append(remote, d), NEW e
  PROVE  /\ Archives(e)' = IF d.kind = "archive" /\ d.exp = e THEN Archives(e) \cup {Len(remote) + 1}
                                                              ELSE Archives(e)
         /\ Reverts(e)' = IF d.kind = "revert" /\ d.exp = e THEN Reverts(e) \cup {Len(remote) + 1}
                                                            ELSE Reverts(e)
<1>1. /\ Len(remote') = Len(remote) + 1 /\ Len(remote) \in Nat
      /\ remote'[Len(remote) + 1] = d /\ \A i \in 1..Len(remote) : remote'[i] = remote[i]
  BY DEF RTypeOK
<1>2. 1..Len(remote') = (1..Len(remote)) \cup {Len(remote) + 1}
  BY <1>1
<1>3. Archives(e)' = {i \in (1..Len(remote)) \cup {Len(remote) + 1} :
                        remote'[i].kind = "archive" /\ remote'[i].exp = e}
  BY <1>2 DEF Archives
<1>4. Reverts(e)' = {i \in (1..Len(remote)) \cup {Len(remote) + 1} :
                       remote'[i].kind = "revert" /\ remote'[i].exp = e}
  BY <1>2 DEF Reverts
<1> QED
  BY <1>1, <1>3, <1>4 DEF Archives, Reverts

LEMMA PushedCommit ==
  ASSUME RInv, NEW w \in Writers, writer[w].phase = "push"
  PROVE  LET c == writer[w].commit IN
         /\ c \in Commit /\ c # NoCommit /\ c.exp \in Experiments /\ c.kind \in Kinds
         /\ request[<<c.exp, c.kind>>].commit = c
BY Working DEF WriterOK, RequestOK, Writer

LEMMA ExternalIsCommit ==
  ASSUME RTypeOK, Len(remote) < MaxCommits
  PROVE  External \in Commit /\ External.kind = "other"
BY RepositoryConstants DEF RTypeOK, External, Commit

LEMMA ArchivesStay ==
  ASSUME RInv, LedgerStep, NEW e PROVE Archives(e) \subseteq Archives(e)'
<1>1. CASE remote' = remote
  BY <1>1 DEF Archives
<1>2. ASSUME NEW d \in Commit, remote' = Append(remote, d)
      PROVE  Archives(e) \subseteq Archives(e)'
  BY <1>2, Appended DEF RInv
<1>3. remote' = remote \/ \E d \in Commit : remote' = Append(remote, d)
  BY PushedCommit, ExternalIsCommit DEF LedgerStep, Pushing, Binding, EndResult, repoVars, RInv
<1> QED
  BY <1>1, <1>2, <1>3

LEMMA GotoOne ==
  ASSUME RTypeOK, NEW w \in Writers, NEW p, Goto(w, p)
  PROVE  writer'[w] = p /\ \A v \in Writers \ {w} : writer'[v] = writer[v]
BY DEF RTypeOK, Goto

\* A writer that saves a commit has just prepared it.
LEMMA SavingIsPrepared ==
  ASSUME RInv, [Next]_vars, NEW v \in Writers, writer'[v].phase = "save"
  PROVE  writer'[v] = writer[v] \/ Prepare(v)
<1>t. RTypeOK
  BY DEF RInv
<1>g. ASSUME NEW w \in Writers, NEW p, Goto(w, p), p.phase # "save"
      PROVE  writer'[v] = writer[v]
  BY <1>t, <1>g, GotoOne
<1>1. ASSUME NEW w \in Writers, CommitStep(w) \/ FinalizeStep(w)
      PROVE  writer'[v] = writer[v] \/ Prepare(v)
  <2> DEFINE p == writer[w]
  <2>t. p \in Writer
    BY <1>t DEF RTypeOK
  <2>r. Resting.phase = "idle" /\ \A e : [Resting EXCEPT !.phase = "resolve", !.exp = e].phase = "resolve"
    BY DEF Resting
  <2>c. Compensating(p).phase = "resolve" /\ \A c : Committed(p, c).phase \in {"stage", "record"}
    BY <2>t DEF Compensating, Committed, Writer
  <2> HIDE DEF p
  <2>m. ASSUME NEW phase \in Phases \ {"save"}, Phase(w, phase) \/ Past(w, phase)
        PROVE  writer'[v] = writer[v]
    <3> DEFINE r == [p EXCEPT !.phase = phase]
               n == [p EXCEPT !.phase = phase, !.seen = 0]
    <3>1. r.phase = phase /\ n.phase = phase
      BY <2>t DEF Writer
    <3>2. Goto(w, r) \/ Goto(w, n)
      BY <2>m DEF Phase, Past, p
    <3> HIDE DEF r, n
    <3> QED
      BY <1>g, <3>1, <3>2
  <2>f. ASSUME Failing(w) PROVE writer'[v] = writer[v]
    <3> DEFINE r == [p EXCEPT !.phase = "fail", !.seen = 0, !.commit = NoCommit]
    <3>1. r.phase = "fail"
      BY <2>t DEF Writer
    <3>2. Goto(w, r)
      BY <2>f DEF Failing, p
    <3> HIDE DEF r
    <3> QED
      BY <1>g, <3>1, <3>2
  <2>1. CASE ResolveHead(w)
    <3> DEFINE r == [p EXCEPT !.phase = "begin", !.seen = head]
    <3>1. r.phase = "begin"
      BY <2>t DEF Writer
    <3>2. Goto(w, r)
      BY <2>1 DEF ResolveHead, p
    <3> HIDE DEF r
    <3> QED
      BY <1>g, <3>1, <3>2
  <2>2. CASE Begin(w)
    <3> DEFINE q == request[Key(p)]
               r == [p EXCEPT !.phase = IF q.commit = NoCommit THEN "prepare" ELSE "push",
                              !.seen = head, !.commit = q.commit]
               d == Committed(p, q.commit)
    <3>1. r.phase \in {"prepare", "push"} /\ d.phase \in {"stage", "record"}
      BY <2>t, <2>c DEF Writer
    <3>2. Goto(w, r) \/ Goto(w, d) \/ Goto(w, Resting)
      BY <2>2 DEF Begin, p
    <3> HIDE DEF r, d, q
    <3> QED
      BY <1>g, <2>r, <3>1, <3>2
  <2>3. CASE Prepare(w)
    <3>1. w = v \/ writer'[v] = writer[v]
      <4>1. Failing(w) \/ \E r : Goto(w, r)
        BY <2>3 DEF Prepare
      <4> QED
        BY <1>t, <2>f, <4>1, GotoOne
    <3> QED
      BY <2>3, <3>1
  <2>4. CASE Save(w)
    <3>1. Phase(w, "push") \/ Failing(w)
      BY <2>4 DEF Save
    <3> QED
      BY <2>f, <2>m, <3>1 DEF Phases
  <2>5. CASE PushPrepared(w)
    <3>1. Past(w, "complete") \/ Past(w, "fetch")
      BY <2>5 DEF PushPrepared
    <3> QED
      BY <2>m, <3>1 DEF Phases
  <2>6. CASE Fetch(w)
    <3>1. Phase(w, "complete") \/ Failing(w)
      BY <2>6 DEF Fetch
    <3> QED
      BY <2>f, <2>m, <3>1 DEF Phases
  <2>7. CASE Complete(w)
    BY <1>g, <2>7, <2>f, <2>c DEF Complete, p
  <2>8. CASE Interrupt(w) \/ Fail(w) \/ Record(w) \/ Crash(w)
    BY <1>g, <2>8, <2>f, <2>r DEF Interrupt, Fail, Record, Crash
  <2>9. CASE \E e \in Experiments : Finalize(w, e)
    BY <1>g, <2>9, <2>r DEF Finalize
  <2>10. CASE RecordManagedStaging(w)
    <3>1. Phase(w, "bind") \/ Goto(w, Compensating(p))
      BY <2>10 DEF RecordManagedStaging, p
    <3> QED
      BY <1>g, <2>c, <2>m, <3>1 DEF Phases
  <2>11. CASE CompleteResult(w) \/ CompleteResultFails(w)
    BY <1>g, <2>11, <2>c, <2>r DEF CompleteResult, CompleteResultFails, p
  <2>12. CASE Renew(w)
    BY <2>12 DEF Renew
  <2> QED
    BY <1>1, <2>1, <2>2, <2>3, <2>4, <2>5, <2>6, <2>7, <2>8, <2>9, <2>10, <2>11, <2>12
       DEF CommitStep, FinalizeStep
<1>2. CASE \E s \in Syncs : SyncStep(s)
  BY <1>2 DEF SyncStep, StartSync, Synchronize, FinishSync, SyncFails, RenewSync, SyncCrash
<1>3. CASE \E e \in Experiments : EndResult(e)
  BY <1>3 DEF EndResult
<1> QED
  BY <1>1, <1>2, <1>3 DEF Next, vars

\* A request gets a commit from the writer that saves or completes it.
LEMMA CommitsAreSaved ==
  ASSUME RInv, [Next]_vars, NEW k \in Keys, request'[k].commit # NoCommit
  PROVE  \/ request[k].commit # NoCommit
         \/ \E w \in Writers : writer[w].phase = "save" /\ Key(writer[w]) = k
<1>t. request \in [Keys -> Request] /\ request[k] \in Request
  BY DEF RInv, RTypeOK
<1>1. ASSUME NEW w \in Writers, CommitStep(w) \/ FinalizeStep(w)
      PROVE  \/ request'[k].commit = request[k].commit
             \/ writer[w].phase \in {"save", "complete"} /\ Key(writer[w]) = k
  <2>1. CASE Begin(w)
    <3> DEFINE n == [request[Key(writer[w])] EXCEPT
                       !.status = "pending", !.expected = writer[w].seen, !.owner = w]
    <3>1. request' = request \/ request' = [request EXCEPT ![Key(writer[w])] = n]
      BY <2>1 DEF Begin, BeginCommit, repoVars
    <3>2. Key(writer[w]) = k => n.commit = request[k].commit
      BY <1>t DEF Request
    <3> HIDE DEF n
    <3> QED
      BY <1>t, <3>1, <3>2
  <2>2. CASE Fail(w)
    <3>1. request' = request \/ request' = [request EXCEPT ![Key(writer[w])] = Failed(@)]
      BY <2>2 DEF Fail, FailCommit
    <3>2. Failed(request[k]).commit = request[k].commit
      BY <1>t DEF Failed, Request
    <3> QED
      BY <1>t, <3>1, <3>2
  <2>3. CASE Save(w)
    BY <1>t, <2>3 DEF Save, SavePreparedCommit, repoVars
  <2>4. CASE Complete(w)
    BY <1>t, <2>4 DEF Complete, CompleteCommit, repoVars
  <2>5. CASE \/ ResolveHead(w) \/ Prepare(w) \/ PushPrepared(w) \/ Fetch(w) \/ Interrupt(w)
             \/ Renew(w) \/ FinalizeStep(w)
    <3>1. request' = request
      BY <2>5 DEF ResolveHead, Prepare, PushPrepared, Push, Fetch, Interrupt, Renew, RenewLease,
                  FinalizeStep, Finalize, RecordManagedStaging, CompleteResult,
                  CompleteResultFails, Record, Crash, repoVars
    <3> QED
      BY <3>1
  <2> QED
    BY <1>1, <2>1, <2>2, <2>3, <2>4, <2>5 DEF CommitStep
<1>2. CASE \E w \in Writers : CommitStep(w) \/ FinalizeStep(w)
  <2>1. PICK w \in Writers : CommitStep(w) \/ FinalizeStep(w)
    BY <1>2
  <2>2. CASE writer[w].phase = "complete" /\ Key(writer[w]) = k
    BY <2>2, Working DEF WriterOK
  <2> QED
    BY <1>1, <2>1, <2>2
<1>3. CASE request' = request
  BY <1>3
<1>4. CASE (\E s \in Syncs : SyncStep(s)) \/ (\E e \in Experiments : EndResult(e))
  <2>1. request' = request
    BY <1>4 DEF SyncStep, StartSync, ClaimSync, Synchronize, FinishSync, CompleteSync, SyncFails,
                FailSync, RenewSync, RenewLease, SyncCrash, EndResult, repoVars
  <2> QED
    BY <2>1
<1>5. CASE ExternalPush \/ RequestSync \/ LeaseExpires \/ UNCHANGED vars
  <2>1. request' = request
    BY <1>5 DEF ExternalPush, RequestSync, LeaseExpires, vars
  <2> QED
    BY <2>1
<1> QED
  BY <1>2, <1>4, <1>5 DEF Next

LEMMA PreparedIsThere ==
  ASSUME RInv, NEW w \in Writers, Prepare(w), writer'[w].phase = "save", writer'[w].kind = "revert"
  PROVE  Archives(writer'[w].exp) # {}
<1> DEFINE p == writer[w]
           r == [p EXCEPT !.phase = "save",
                          !.commit = [kind |-> p.kind, exp |-> p.exp, base |-> p.seen]]
<1>t. RTypeOK /\ p \in Writer
  BY DEF RInv, RTypeOK
<1>1. Preparable(p) /\ writer'[w] = r
  <2> DEFINE f == [p EXCEPT !.phase = "fail", !.seen = 0, !.commit = NoCommit]
  <2>1. f.phase = "fail"
    BY <1>t DEF Writer
  <2>2. (Preparable(p) /\ Goto(w, r)) \/ Goto(w, f)
    BY DEF Prepare, Failing
  <2> HIDE DEF f, r
  <2> QED
    BY <1>t, <2>1, <2>2, GotoOne
<1>2. r.kind = p.kind /\ r.exp = p.exp
  BY <1>t DEF Writer
<1>3. Directory(p.exp)
  BY <1>1, <1>2 DEF Preparable
<1> QED
  BY <1>1, <1>2, <1>3 DEF Directory, Archives

LEMMA RevertsStep == RInv /\ RevertsFollow /\ [Next]_vars => RevertsFollow'
<1> SUFFICES ASSUME RInv, RevertsFollow, [Next]_vars PROVE RevertsFollow'
  OBVIOUS
<1>1. \A e : Archives(e) \subseteq Archives(e)'
  BY StepsOfLedger, ArchivesStay
<1>2. ASSUME NEW e \in Experiments, request'[<<e, "revert">>].commit # NoCommit
      PROVE  Archives(e)' # {}
  <2> DEFINE k == <<e, "revert">>
  <2>1. k \in Keys
    BY DEF Keys, Kinds
  <2>2. CASE request[k].commit # NoCommit
    BY <1>1, <2>2 DEF RevertsFollow
  <2>3. ASSUME NEW w \in Writers, writer[w].phase = "save", Key(writer[w]) = k
        PROVE  Archives(e)' # {}
    BY <1>1, <2>3 DEF RevertsFollow, Key
  <2> QED
    BY <1>2, <2>1, <2>2, <2>3, CommitsAreSaved
<1>3. ASSUME NEW w \in Writers, writer'[w].phase = "save", writer'[w].kind = "revert"
      PROVE  Archives(writer[w].exp)' # {}
  <2>1. Archives(writer'[w].exp) # {}
    BY <1>3, SavingIsPrepared, PreparedIsThere DEF RevertsFollow
  <2>2. PICK x : x = writer'[w].exp
    OBVIOUS
  <2>3. Archives(x)' # {}
    BY <1>1, <2>1, <2>2
  <2> QED
    BY <2>2, <2>3 DEF Archives
<1> QED
  BY <1>2, <1>3 DEF RevertsFollow

-----------------------------------------------------------------------------
(* Every step is a step of the ledger of results.                          *)

OnLedger == [Ledger!LedgerNext]_Ledger!ledgerVars

LEMMA SameOutcomes ==
  ASSUME UNCHANGED result PROVE UNCHANGED <<Outcomes, Evidence>>
BY DEF Outcomes, Evidence, Processing

LEMMA SameBranch ==
  ASSUME UNCHANGED remote PROVE UNCHANGED <<Len(remote), ArchivesOf, RevertsOf>>
BY DEF ArchivesOf, RevertsOf, Archives, Reverts

LEMMA ExternalOnLedger ==
  ASSUME RInv, remote' = Append(remote, External), Len(remote) < MaxCommits, UNCHANGED result
  PROVE  OnLedger
<1>t. RTypeOK
  BY DEF RInv
<1>1. External \in Commit /\ External.kind = "other"
  BY <1>t, ExternalIsCommit
<1>2. \A e : Archives(e)' = Archives(e) /\ Reverts(e)' = Reverts(e)
  BY <1>t, <1>1, Appended
<1>3. UNCHANGED <<ArchivesOf, RevertsOf>>
  BY <1>2 DEF ArchivesOf, RevertsOf
<1>4. Len(remote)' = Len(remote) + 1
  BY <1>t, <1>1 DEF RTypeOK
<1>5. Ledger!OtherCommit
  BY <1>3, <1>4, SameOutcomes DEF Ledger!OtherCommit, Ledger!Grow
<1> QED
  BY <1>5 DEF OnLedger, Ledger!LedgerNext

\* What is pushed is the commit of its request; one that is in the branch
\* already would be below its own position.
LEMMA PushingOnLedger ==
  ASSUME RInv, RevertsFollow, NEW w \in Writers, Pushing(w) PROVE OnLedger
<1> DEFINE c == writer[w].commit
           e == c.exp
           n == Len(remote) + 1
<1>t. RTypeOK
  BY DEF RInv
<1>1. /\ c \in Commit /\ c # NoCommit /\ e \in Experiments /\ c.kind \in Kinds
      /\ request[<<e, c.kind>>].commit = c
  BY PushedCommit DEF Pushing
<1>2. remote' = Append(remote, c) /\ Len(remote) = c.base /\ UNCHANGED result
  BY DEF Pushing
<1> HIDE DEF c
<1>3. ASSUME NEW i \in 1..Len(remote) PROVE remote[i].exp # e \/ remote[i].kind # c.kind
  <2> SUFFICES ASSUME remote[i].exp = e, remote[i].kind = c.kind PROVE FALSE
    OBVIOUS
  <2>1. remote[i].base = i - 1 /\ remote[i] = c
    BY <1>1 DEF RInv, BranchOK
  <2> QED
    BY <1>t, <1>2, <2>1 DEF RTypeOK
<1>4. Len(remote)' = n
  BY <1>t, <1>1, <1>2 DEF RTypeOK
<1>5. \A f : /\ Archives(f)' = IF c.kind = "archive" /\ c.exp = f THEN Archives(f) \cup {n}
                                                                ELSE Archives(f)
             /\ Reverts(f)' = IF c.kind = "revert" /\ c.exp = f THEN Reverts(f) \cup {n}
                                                              ELSE Reverts(f)
  BY <1>t, <1>1, <1>2, Appended
<1>6. Ledger!Grow
  BY <1>2, <1>4, SameOutcomes DEF Ledger!Grow
<1>7. CASE c.kind = "archive"
  <2>1. Archives(e) = {}
    BY <1>3, <1>7 DEF Archives
  <2>2. \A f \in Experiments : Archives(f)' = IF f = e THEN {n} ELSE Archives(f)
    BY <1>5, <1>7, <2>1
  <2>3. ArchivesOf' = [ArchivesOf EXCEPT ![e] = {n}]
    BY <2>2 DEF ArchivesOf
  <2>4. UNCHANGED RevertsOf
    BY <1>5, <1>7 DEF RevertsOf
  <2>5. Ledger!Archive(e)
    BY <1>1, <1>6, <2>1, <2>3, <2>4 DEF Ledger!Archive, ArchivesOf
  <2> QED
    BY <1>1, <2>5 DEF OnLedger, Ledger!LedgerNext
<1>8. CASE c.kind = "revert"
  <2>1. Reverts(e) = {} /\ Archives(e) # {}
    BY <1>1, <1>3, <1>8 DEF Reverts, RevertsFollow
  <2>2. \A f \in Experiments : Reverts(f)' = IF f = e THEN {n} ELSE Reverts(f)
    BY <1>5, <1>8, <2>1
  <2>3. RevertsOf' = [RevertsOf EXCEPT ![e] = {n}]
    BY <2>2 DEF RevertsOf
  <2>4. UNCHANGED ArchivesOf
    BY <1>5, <1>8 DEF ArchivesOf
  <2>5. ArchivesOf[e] # {} /\ RevertsOf[e] = {}
    BY <1>1, <2>1 DEF ArchivesOf, RevertsOf
  <2>6. Ledger!Revert(e)
    BY <1>6, <2>3, <2>4, <2>5 DEF Ledger!Revert
  <2> QED
    BY <1>1, <2>6 DEF OnLedger, Ledger!LedgerNext
<1> QED
  BY <1>1, <1>7, <1>8 DEF Kinds

LEMMA BindingOnLedger ==
  ASSUME RInv, NEW w \in Writers, Binding(w) PROVE OnLedger
<1> DEFINE p == writer[w]
           e == p.exp
           c == p.commit
           x == [status |-> "succeeded", commit |-> c]
<1>t. RTypeOK /\ p \in Writer /\ WriterOK(w, p) /\ e \in Experiments
      /\ Key(p) = <<p.exp, p.kind>> /\ RequestOK(Key(p))
  BY Working DEF Binding
<1>1. /\ c # NoCommit /\ Pushed(c) /\ c.kind = "archive" /\ c.exp = e
  BY <1>t DEF Binding, WriterOK, RequestOK
<1>2. Processing(e) /\ result' = [result EXCEPT ![e] = x] /\ UNCHANGED remote
  BY DEF Binding
<1>3. x.status = "succeeded" /\ x.commit = c
  OBVIOUS
<1> HIDE DEF p, e, c, x
<1>4. c.base + 1 \in Archives(e)
  BY <1>1 DEF Pushed, At, Archives
<1>5. Archives(e) = {c.base + 1}
  BY <1>t, <1>4, ArchivesAreOne
<1>6. \A f \in Experiments : result'[f] = IF f = e THEN x ELSE result[f]
  BY <1>t, <1>2 DEF RTypeOK
<1>7. Outcomes' = [Outcomes EXCEPT ![e] = "succeeded"]
  <2>1. ASSUME NEW f \in Experiments
        PROVE  (IF result'[f].status = "processing_result" THEN "open" ELSE result'[f].status)
               = IF f = e THEN "succeeded" ELSE Outcomes[f]
    BY <1>3, <1>6 DEF Outcomes, Processing
  <2> QED
    BY <2>1 DEF Outcomes, Processing
<1>8. Evidence' = [Evidence EXCEPT ![e] = ArchivesOf[e]]
  <2>1. ASSUME NEW f \in Experiments
        PROVE  (IF result'[f].status = "succeeded" THEN {result'[f].commit.base + 1} ELSE {})
               = IF f = e THEN ArchivesOf[e] ELSE Evidence[f]
    BY <1>t, <1>3, <1>5, <1>6 DEF Evidence, ArchivesOf
  <2> QED
    BY <2>1 DEF Evidence
<1>9. Outcomes[e] = "open" /\ ArchivesOf[e] # {}
  BY <1>t, <1>2, <1>4 DEF Outcomes, ArchivesOf
<1>10. Ledger!Succeed(e)
  BY <1>2, <1>7, <1>8, <1>9, SameBranch DEF Ledger!Succeed
<1> QED
  BY <1>t, <1>10 DEF OnLedger, Ledger!LedgerNext

LEMMA EndingOnLedger ==
  ASSUME RInv, NEW e \in Experiments, EndResult(e) PROVE OnLedger
<1> DEFINE x == [result[e] EXCEPT !.status = "failed"]
<1>t. result \in [Experiments -> Result] /\ result[e] \in Result
  BY DEF RInv, RTypeOK
<1>1. x.status = "failed" /\ Processing(e) /\ UNCHANGED remote
  BY <1>t DEF Result, EndResult, repoVars
<1>2. result' = [result EXCEPT ![e] = x]
  BY DEF EndResult
<1> HIDE DEF x
<1>3. \A f \in Experiments : result'[f] = IF f = e THEN x ELSE result[f]
  BY <1>t, <1>2
<1>4. Outcomes' = [Outcomes EXCEPT ![e] = "failed"]
  <2>1. ASSUME NEW f \in Experiments
        PROVE  (IF result'[f].status = "processing_result" THEN "open" ELSE result'[f].status)
               = IF f = e THEN "failed" ELSE Outcomes[f]
    BY <1>1, <1>3 DEF Outcomes, Processing
  <2> QED
    BY <2>1 DEF Outcomes, Processing
<1>5. UNCHANGED Evidence
  <2>1. ASSUME NEW f \in Experiments
        PROVE  (IF result'[f].status = "succeeded" THEN {result'[f].commit.base + 1} ELSE {})
               = Evidence[f]
    BY <1>1, <1>3 DEF Evidence, Processing
  <2> QED
    BY <2>1 DEF Evidence
<1>6. Outcomes[e] = "open"
  BY <1>1 DEF Outcomes
<1>7. Ledger!GiveUp(e)
  BY <1>1, <1>4, <1>5, <1>6, SameBranch DEF Ledger!GiveUp
<1> QED
  BY <1>7 DEF OnLedger, Ledger!LedgerNext

\* Results keep the promise made about the branch (docs/development/experiment.md):
\* whoever crashes, loses the lease or finalizes a result again, there is one
\* archive, a revert comes after it and only once, and a success is final.
THEOREM ResultsAreLedgered == Spec => LedgerIsKept
<1>1. Init => Ledger!LedgerInit
  <2> SUFFICES ASSUME Init PROVE Ledger!LedgerInit
    OBVIOUS
  <2>1. Len(remote) = 0 /\ \A e : Archives(e) = {} /\ Reverts(e) = {}
    BY DEF Init, RepoInit, Archives, Reverts
  <2>2. \A e \in Experiments : result[e].status = "processing_result"
    BY DEF Init
  <2>3. /\ ArchivesOf = [e \in Experiments |-> {}] /\ RevertsOf = [e \in Experiments |-> {}]
        /\ Outcomes = [e \in Experiments |-> "open"] /\ Evidence = [e \in Experiments |-> {}]
    BY <2>1, <2>2 DEF ArchivesOf, RevertsOf, Outcomes, Evidence, Processing
  <2> QED
    BY <2>1, <2>3 DEF Ledger!LedgerInit
<1>2. Init => RevertsFollow
  BY DEF Init, RepoInit, RevertsFollow, Keys, Kinds, Resting
<1>3. RInv /\ RevertsFollow /\ [Next]_vars => [Ledger!LedgerNext]_Ledger!ledgerVars
  <2> SUFFICES ASSUME RInv, RevertsFollow, [Next]_vars PROVE OnLedger
    BY DEF OnLedger
  <2>1. CASE UNCHANGED <<remote, result>>
    BY <2>1, SameBranch, SameOutcomes DEF OnLedger, Ledger!ledgerVars
  <2> QED
    BY <2>1, StepsOfLedger, ExternalOnLedger, PushingOnLedger, BindingOnLedger, EndingOnLedger
       DEF LedgerStep
<1> QED
  BY <1>1, <1>2, <1>3, RevertsStep, RInvariant, PTL DEF Spec, LedgerIsKept, Ledger!LedgerSpec
=============================================================================
