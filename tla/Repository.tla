----------------------------- MODULE Repository -----------------------------
(***************************************************************************)
(* One repository and its result workspace (backend/internal/repo): the    *)
(* branch on the remote, the rows repo_repositories, repo_workspaces and   *)
(* repo_commit_requests, and the store transactions that change them.      *)
(* The branch only grows: every push of mmdash is a fast-forward, and so   *)
(* are those of other clients here.  A commit is therefore named by its    *)
(* position, and the head of a workspace is the number of commits below it.*)
(***************************************************************************)
EXTENDS Integers, Sequences, FiniteSets

CONSTANTS
  Experiments,
  NoExp,
  Writers,      \* goroutines that write a commit; each attempt has its own owner
  Core,         \* the owner of every synchronisation of the Core process
  NoOwner,      \* sync_locked_by IS NULL
  NoCommit,     \* commit_sha IS NULL
  MaxCommits,   \* bound: length of the branch
  MaxRequests   \* bound: requests for a synchronisation

ASSUME RepositoryConstants ==
  /\ NoExp \notin Experiments
  /\ Core \notin Writers \cup {NoOwner} /\ NoOwner \notin Writers
  /\ MaxCommits \in Nat /\ MaxRequests \in Nat

VARIABLES
  remote,    \* the result branch on the remote
  head,      \* head_commit_sha of the result workspace
  repo,      \* repo_repositories
  request,   \* repo_commit_requests, named by experiment and kind (the idempotency key)
  now,       \* number of synchronisations requested, the time of the last
  announced  \* history: length of the branch when the last one was requested

repoVars == <<remote, head, repo, request, now, announced>>
syncVars == <<now, announced>>

-----------------------------------------------------------------------------
Kinds == {"archive", "revert"}
Keys == Experiments \X Kinds

Commit == [kind : Kinds \cup {"other"}, exp : Experiments \cup {NoExp}, base : 0..MaxCommits]
ASSUME NoCommitIsNone == NoCommit \notin Commit

Repo == [status : {"ready", "syncing", "error"}, owner : Writers \cup {Core, NoOwner},
         lease : {"live", "over"}, requested : 0..MaxRequests]     \* 0: NULL
Request == [status : {"absent", "pending", "failed", "succeeded"}, expected : 0..MaxCommits,
            commit : Commit \cup {NoCommit}, owner : Writers \cup {NoOwner}]

RepoInit ==
  /\ remote = <<>> /\ head = 0
  /\ repo = [status |-> "ready", owner |-> NoOwner, lease |-> "over", requested |-> 0]
  /\ request = [k \in Keys |-> [status |-> "absent", expected |-> 0,
                                commit |-> NoCommit, owner |-> NoOwner]]
  /\ now = 0 /\ announced = 0

\* The commit is the one at this position of the branch.
At(c, n) == n \in 1..Len(remote) /\ remote[n] = c

Pushed(c) == c # NoCommit /\ At(c, c.base + 1)

Locked == repo.owner # NoOwner /\ repo.lease = "live"
Unlocked(status) == [repo EXCEPT !.status = status, !.owner = NoOwner, !.lease = "over"]

-----------------------------------------------------------------------------
(* Other clients, requests for a synchronisation, leases.                  *)

Push(c) == Len(remote) < MaxCommits /\ remote' = Append(remote, c)

ExternalPush ==
  /\ Push([kind |-> "other", exp |-> NoExp, base |-> Len(remote)])
  /\ UNCHANGED <<head, repo, request, syncVars>>

\* A webhook, the periodic poll, a user or a module.
RequestSync ==
  /\ now < MaxRequests
  /\ now' = now + 1
  /\ repo' = [repo EXCEPT !.requested = now + 1]
  /\ announced' = Len(remote)
  /\ UNCHANGED <<remote, head, request>>

LeaseExpires ==
  /\ Locked
  /\ repo' = [repo EXCEPT !.lease = "over"]
  /\ UNCHANGED <<remote, head, request, syncVars>>

RenewLease(owner) ==
  /\ repo.owner = owner
  /\ repo' = [repo EXCEPT !.lease = "live"]
  /\ UNCHANGED <<remote, head, request, syncVars>>

-----------------------------------------------------------------------------
(* Synchronisation.  r is the time of the request that a claim has read.   *)

ClaimSync ==
  /\ repo.requested # 0 /\ ~Locked
  /\ repo' = [repo EXCEPT !.status = "syncing", !.owner = Core, !.lease = "live"]
  /\ UNCHANGED <<remote, head, request, syncVars>>

\* Mutant of Served: whatever was requested meanwhile counts as served.
ServedAll(row, r) == [row EXCEPT !.requested = 0]

Served(row, r) == IF row.requested <= r THEN [row EXCEPT !.requested = 0] ELSE row

CompleteSync(fetched, r) ==
  /\ repo.owner = Core
  /\ head' = fetched
  /\ repo' = Served(Unlocked("ready"), r)
  /\ UNCHANGED <<remote, request, syncVars>>

FailSync(retryable, r) ==
  /\ repo.owner = Core
  /\ repo' = IF retryable THEN Unlocked("error") ELSE Served(Unlocked("error"), r)
  /\ UNCHANGED <<remote, head, request, syncVars>>

-----------------------------------------------------------------------------
(* Writes.                                                                 *)

\* What BeginCommit answers when it does not begin.
Refusal(k, expected) ==
  LET q == request[k] IN
  CASE q.status # "absent" /\ q.expected # expected -> "conflict"
    [] q.status = "succeeded" -> "done"
    [] repo.status # "ready" -> "not ready"
    [] head # expected /\ ~At(q.commit, head) -> "head changed"
    [] Locked -> "locked"
    [] OTHER -> "none"

BeginCommit(w, k, expected) ==
  /\ Refusal(k, expected) = "none"
  /\ request' = [request EXCEPT ![k] =
       [@ EXCEPT !.status = "pending", !.expected = expected, !.owner = w]]
  /\ repo' = [repo EXCEPT !.owner = w, !.lease = "live"]
  /\ UNCHANGED <<remote, head, syncVars>>

Mine(w, k) == request[k].status = "pending" /\ request[k].owner = w

Savable(w, k, c) == Mine(w, k) /\ request[k].commit \in {NoCommit, c}

SavePreparedCommit(w, k, c) ==
  /\ Savable(w, k, c)
  /\ request' = [request EXCEPT ![k].commit = c]
  /\ UNCHANGED <<remote, head, repo, syncVars>>

Completable(w, k) == repo.owner = w /\ request[k].owner = w

CompleteCommit(w, k, c) ==
  /\ Completable(w, k)
  /\ head' = c.base + 1
  /\ request' = [request EXCEPT ![k].status = "succeeded", ![k].commit = c, ![k].owner = NoOwner]
  /\ repo' = Unlocked("ready")
  /\ UNCHANGED <<remote, syncVars>>

Failed(q) == [q EXCEPT !.status = "failed", !.owner = NoOwner]

FailCommit(w, k) ==
  /\ request' = IF request[k].owner = w THEN [request EXCEPT ![k] = Failed(@)] ELSE request
  /\ repo' = IF repo.owner = w THEN Unlocked("ready") ELSE repo
  /\ UNCHANGED <<remote, head, syncVars>>
=============================================================================
