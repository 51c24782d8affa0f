# mmdash: verification project

mmdash is a workspace for mathematical-modelling teams. Its Core is one Go program
(`src/backend`) over PostgreSQL; Python workers (`src/workers/mmdash-worker`), Box gateways
(`src/box`), an MCP gateway, a web BFF, a web application and a CLI talk to it over HTTP. Several
Core processes may run at once over the same database, and several workers may poll the same queue.

This directory holds TLA+ specifications translated from that source, TLC configurations that
check them on small instances, and theorems that TLAPS proves for every value of the constants.
`PROJECT.json` names the lines each definition stands for (`map`), the runs, a mutant for every
property, the hazards of the code, and the divergences found between the code and its documents.

## 1. Inventory

### 1.1 Components that are modelled

| Component | Code | State | Operations |
|---|---|---|---|
| Job queue | `backend/internal/jobs` | rows of `jobs`, `job_logs`, state events in `system_outbox` | create (idempotency key), claim, renew, append log, complete, fail, cancel, get; lease recovery before each of them |
| Worker runtime | `workers/mmdash-worker/.../jobs/runtime.py`, `client.py` | the one job in hand, the renewal loop beside the handler | poll, back off, run the handler, renew, submit the result or a failure, stop, restart |
| Outbox and event bus | `backend/internal/platform/outbox`, `eventbus` | `system_outbox`, `system_event_deliveries`, `system_event_consumptions`, `system_event_failures`; the processor of each process | write, claim an event, publish, fail, claim a delivery, run the consumer, complete, fail, replay |
| Progress tracking | `backend/internal/progress/tracking*.go` | evaluation requests with triggers, evaluations, tracker state; the tracking processor | schedule (event, manual, cron, retry), claim, assemble, finalize, release; job hooks; reconciliation |
| Box control | `backend/internal/boxcontrol` | boxes, their assignment to the project, tasks | heartbeat, offline detection and timeout, assign, unassign, drain, revoke, claim, resume, report, submit a result |
| Experiments | `backend/internal/experiment` | the execution status of experiments, their results | create, run, cancel, archive; what the observer makes of a task's row; finalize a result, compensate |
| Box gateway | `box/gateway` | the state file of a gateway, one goroutine per task, the sync pass | claim, launch, report, submit, resume, stop and clean up, crash, restart |
| Repository coordination | `backend/internal/repo` (writes and synchronisation of one workspace) | the branch on the remote, the repository's lock, commit requests, the synchronised head | begin, prepare, save, push, complete, fail a commit; request, claim, complete, fail a synchronisation |
| Artifact uploads | `backend/internal/artifact` (uploads, versions, trash), S3 storage | uploads, versions, artifacts, blobs in Postgres; multipart uploads, staging and content objects in storage; the reaper | initialise, sign and put parts, confirm, abort, expire, archive, restore a version, trash, restore, purge |
| Agent runs | `backend/internal/agent` (runs, approvals, event streams), the Hermes runtime | the rows of a Run and of its tool approvals; the requests, polls and streams under way | start, poll, stop, approve, stream; the poll loop of a progress evaluation |
| Article builds | `backend/internal/article` (builds, publications, releases, templates), article handler of the worker | builds, template status, publications, releases, build events | register a template, create and retry builds, publish, worker progress, job hooks, repair |

How they interact: every domain module creates jobs **inside its own transaction**
(`CreateInTransaction`) and is called back **inside the transaction of the job** when the job is
claimed, completed or failed by a worker. Jobs that end otherwise (cancelled while queued, timed
out, lease lost with no attempts left) call nobody, and each module has to notice by itself.
Modules learn of each other's changes through the outbox: an event is written in the transaction
of the change, published later to the registered consumers, and delivered at least once.
Box control calls the experiments through an observer, in a transaction **after** its own; a call of
a gateway to Core is therefore several transactions, and may stop between any two. The end of a
result job makes the experiment's module write to the repository, outside any transaction. An agent's
Run is executed by Hermes: Core learns what happens to it from a stream that is delivered once, from polls
and from the replies to its own requests, in no common order.

### 1.2 Components that are not modelled yet

| Component | State | What is hard | Properties that would make it correct |
|---|---|---|---|
| Artifact previews, folders, artifacts in Git | previews with jobs, folders | a preview job that ends without its hook | a preview belongs to the version it shows |
| Model and Notion synchronisation | sync runs, snapshots, OAuth state | results of cancelled jobs; scheduled claims; token refresh | snapshots only move forward |
| Article drafts, patches, commits | draft revisions, patches, commit operations | stale revisions; an operation that crosses Core and the repository | no edit is lost silently |
| Progress tasks, milestones, reminders | versioned tasks, reminder leases | duplicate reminders after a lost lease | one reminder per due date |
| Agent instances, grants, sessions, tool calls | encrypted tokens, forks of sessions | a token replaced while it is used | a session belongs to one grant |
| Notifications | deliveries with leases and retries | a crash between sending and recording | every notification is sent or given up |
| Projects, membership | invitations, trash, purge | restore against purge; accept against expiry | nothing is purged that was restored in time |
| Authentication | sessions, device authorizations | a device code redeemed twice; rotation | a code yields one session |
| Data hub, settings, audit, event administration | projections, versioned records | order of events applied | a projection does not go back |
| Platform, gateways, user interfaces, contracts | configuration, connections | none with state of its own | - |

### 1.3 What is hard to test

`PROJECT.json` lists each hazard at its line with the property that would catch it. The recurring
ones: a lease that runs out while its holder goes on working; a cancellation or timeout that lands
between the worker's last renewal and its result; a request that reaches Core after its client has
given up; the same event delivered twice; a job that ends without its hook; a worker restarted
under its old name; a NULL timestamp that silently puts a row out of reach of a comparison; a call
of which Core has done one transaction when the caller gives up, and which is sent again; a box that
comes back while its tasks are timed out or taken away; a push whose answer is lost; a request for
a synchronisation that arrives while one is running; a row in Postgres and an object in storage that
are changed one after the other by several requests at once; a status that was read from a remote runtime and
is stored after a later one.

## 2. Modules

```
EventDelivery  <-- implemented by --  Outbox
JobQueue  <-- extended by --  JobWorker, ProgressTracking, ArticleBuild
JobQueue  <-- implemented by --  JobWorker, ProgressTracking, ArticleBuild
              (theorems WorkersUseTheQueue, TrackingUsesTheQueue, BuildsUseTheQueue)
BoxControl  <-- extended by --  Experiments  <-- extended by --  BoxGateway
Repository  <-- extended by --  ResultCommits
ResultLedger  <-- implemented by --  ResultCommits
VersionShelf  <-- implemented by --  ArtifactUploads
ApprovalQueue  <-- implemented by --  AgentRuns
M         <-- proved about in --  MProofs, for M = JobQueue, JobWorker, Outbox, BoxGateway,
              ResultCommits, ArtifactUploads, AgentRuns
ProgressTracking, ArticleBuild  <-- proved about in --  JobOwnersProofs
              (which extends JobQueueProofs, as JobWorkerProofs does)
```

Each `MC*` module only gives a component small constants and symmetry.

### 2.1 Conventions

- *A store transaction is one step.* Row locks (`FOR UPDATE`) serialise transactions on one row;
  a service call that uses two transactions is two steps, with everything else in between.
- *Time.* A timestamp is represented by the time that is left until it: 0 once it is `<= now()`,
  `Off` where the column is NULL (then neither `<=` nor `>` holds in SQL). `Tick` lets one unit
  pass for all rows. All timestamps of a row come from clocks of Core that are taken to advance
  monotonically together; a worker only measures intervals.
- *SKIP LOCKED.* A claim may pass over any row that another transaction has locked, so any eligible
  row may be the one it returns, and it may return none although rows are eligible.
- *Rollback.* A refused operation whose transaction rolls back is a stuttering step. That includes
  the recovery it had begun: only `Get`, which commits, keeps the recovery.
- *History variables* (`produced`, `unanswered`, `tardy`, `handled`, `lost`, the field `skipped`,
  `announced`) record what has happened; no action reads them in a guard.
- *Mutants.* Operators introduced by "Mutant of X" are plausible mistakes in `X`. They are used by
  no action; substituted for `X`, each makes the property it is paired with in `PROJECT.json` fail.

### 2.2 JobQueue

`job[j]` is the row of a job. `Recovered` is `recoverExpired`: the three UPDATEs in the order of the
code, over one row (`Get`) or all rows (the sweep that begins a claim). `Claimed`, `Completed`,
`Failed`, `CancelRequested` are the SET clauses with their CASE expressions; the actions `Create`,
`ClaimJob`, `ClaimNone`, `Renew`, `AppendLog`, `Complete`, `Fail`, `Cancel`, `Get` are the store's
transactions with their WHERE clauses. `Complete` and `Fail` do not recover first: the service does,
with a `Get` of its own (`authorizeWorkerJob`), and whatever happens between the two is possible.
Each of the three UPDATEs of `recoverExpired` sees what has been committed before that statement, so a
cancellation may commit after the first, which looks for it, and before the third, which does not.
`CancelDuringRecovery` is this cancellation together with the rest of the recovery (`Overtaken`). The two
are one step because nothing but another recovery can write the row in between: renewals, results and failures
ask for a live lease, claims for a queued row, and another recovery, which sees the cancellation, ends
the job as `Get` does after `Cancel`. Where the recovery belongs to a claim, the claim is the next step.
Workers are not restricted: any worker may send any request at any time, which covers every worker
runtime. `logs` keeps who logged under which attempt number, `announced` which events were written.
`CanClaim` stands for the filters of a claim on types and projects.

Left out: `worker_heartbeats` (no other operation reads it), priorities (they order what a claim
could return anyway), payloads, list queries, the answers given to callers.

### 2.3 JobWorker

A worker is `polling`, in `backoff`, `handling`, `completing`, `failing` or `down`. The renewal loop
is `RenewLease`, enabled beside the handler whenever its interval has passed. Each request is
answered, or times out at the client: then it stays in `late` and arrives at any later time, or
never. `Crash` may strike in any phase; `Restart` keeps the worker id. The two bounds are `MaxLate`,
the requests outstanding at one time, and `MaxCrashes`. A completion may also be refused by a hook
although the lease is live (third disjunct of `SubmitResult`). The term of a lease is longer than
one unit, as the interval of renewal must be shorter than it (the runtime asks for at least ten
seconds and renews after half the term). The failure report is sent once; its
outcome is ignored, as in `_submit_failure`.

### 2.4 EventDelivery and Outbox

`EventDelivery` is what the outbox promises: an event committed with its change is owed to every
registered consumer; it is delivered only after the consumer has run; nothing but a delivery or the
last failed attempt settles it. `Outbox` is the code: rows of both tables with leases and attempts,
`RunOnce` of each process as the sequence claim, publish, claim, handle, report, with the
transaction of each step apart, and a crash possible between any two. `Fate` is the refinement
mapping. Replays write deliveries of their own and do not touch the live ones.

### 2.5 ProgressTracking

The semantic input of an evaluation is abstracted to the number of changes made so far, so two
inputs are equal exactly when nothing has changed. `Schedule*` and `Recalculate` are the ways a
request comes about; `MergeOrOpen` is the statement that adds a trigger to the open request or opens
one. A processor claims a request (`ClaimRequest`), reads the project (`Assemble`, outside any
transaction), and finalizes (`FinalizeRequest`): merged into an evaluation of the same input, or
turned into an evaluation with a job. `force` of a process is the copy made at the claim. `assembled` of a
request is history: the triggers it had when the input was read that closed it (`seen` of the process until
then). Triggers that join the request later are not in it. The hooks
are conjoined with the action of the queue that calls them; an action whose hook refuses is disabled,
as its transaction rolls back. `Prompt` says that processors finish an assembly within its lease;
only the run for liveness assumes it.
Left out: cron claims and reminders, risks, stage overrides, suggestions, minimum-interval
arithmetic (`Postponements` and `MinInterval` are the values it may yield).

### 2.6 ArticleBuild

A build is named by its job. `NewBuild` is `createBuildInTransaction`, which supersedes active
previews; `RegisterTemplate`, `CreateBuild`, `RetryBuild`, `CreatePublicationBuild` and
`RetryPublicationBuild` are its callers; `RepeatPreview` is the request for a preview that exists, which
supersedes all the same and creates nothing. `CompleteBuild` and `FailBuilds` are the hooks with the
template, the publication and the release they cause. They read the build without a lock before they update
it: for a preview the read is a step of its own (`EnterHook`, handler `completing` or `failing`), between
which and the rest of the transaction (`SubmitResult`, `SubmitFailure`) a new preview may supersede the build.
A hook that finds the build superseded leaves it alone (`FindsSuperseded`). Of a running job of another kind
nobody else writes the build, so reading and writing it are one step there. `handler` keeps what the Python handler has
done (`none` to `failing`): it reports progress before and after its work (`WorkerProgress`), and Core refuses progress
for a build that has ended; this order is what keeps a failed build from being completed. Note that
the check of a worker's request (`ClaimedWorkerJob`) asks for a live lease, not for the caller's.
`ReconcileBuildStates` ends the builds whose jobs ended without a hook.
Left out: manual releases, uploads of outputs, conflicts over tags, edits of publications.

### 2.7 BoxControl, Experiments, BoxGateway

`BoxControl` holds the rows of Box control and one operator for each transaction of its store;
`Experiments` adds the status of the experiments and what the observer makes of a task
(`ApplyTaskStatus`, `ApplyResult`). `BoxGateway` composes both with the gateways. A task is claimed at
most once, so it bears the name of its experiment. Each box has two clocks, the time since its last
heartbeat and the time since `offline_since`, both capped where nothing tells larger values apart.

A call to Core is a record in `calls`, which exists from the end of the store's transaction on; its
`stage` says what comes next: the observer, the count of active tasks in `FinalizeDrained`, or the
revocation that follows a count of zero. `CallFails` may end it at any stage, with an error that the
caller sees. `asked` says whether a gateway still waits for the answer: it may give up (`GiveUp`) or end
(`End`) while Core goes on. Calls of the maintenance loop and of users (`TimeOut`, `TakeAway`, `Drain`) go
through the same stages.

`local[b][e]` is the entry of a task in the gateway's state file, `exec` the progress of the goroutine
that executes it, which is lost when the process ends, `sync` the task of the current sync pass. The
goroutine writes the file before it goes on (`Advance`, `Return`); the sync pass sends the head of
`pend`, takes it off when the answer came, and submits the bundle last. It does not block the
goroutine, so their steps interleave more freely than the mutex of the code allows.

Left out: reruns, settings, self-bound experiments, registration, renaming, `CancelTask` of Box control
(no route calls it), logs and artifacts, limits of batches, the runtimes themselves. `Assign` reads the
box outside its transaction; it is one step here. `Unassign` counts the box's tasks and ends the binding
without a lock on either: a claim may come between the two, after which the box has a task and no binding.
`ClaimTask` has that outcome as a choice. `ForceUnassign` does not count and needs none.

### 2.8 Repository, ResultCommits, ResultLedger

`Repository` is one repository and its result workspace. Every push is a fast-forward, so the branch is
a sequence that grows, a commit is named by its position, and the head of a workspace is a number.
`repo` is the lock with its owner and lease; `request` the idempotent commit requests, one per
experiment and kind (archive or revert). `ResultCommits` adds `FinalizeWorkerResult` as a writer with
one phase per transaction or git operation: resolve the head, begin, prepare, save, push, fetch,
complete, then record the staging and bind the experiment, or revert. A push may be lost, its answer
too (`PushPrepared` goes on to `Fetch` in either case, as the code does); `Interrupt` is any error in
between, `Crash` the end of the process, `LeaseExpires` the end of a lease whose owner may go on.
Synchronisations (`StartSync` to `FinishSync`) share the owner of their process, `core-<id>`, so a stale
one can finish another's claim; other clients push to the same branch (`ExternalPush`).

Left out: force pushes and rewritten histories, connecting and disconnecting, mappings, checkouts, the
code and article workspaces, comparison of request hashes and actors, races in the shared work tree. The clock
of a request for a synchronisation is read before its UPDATE (`repo/postgres.go:440`), so a request that is held up
in between may store a time older than the one it overwrites. In the model the times of requests only grow:
`AnnouncedIsSynced` assumes that no request overtakes another (section 4).

`ResultLedger` is what readers of results are promised (`docs/development/experiment.md`): a branch that only
grows, one archive of an experiment and at most one revert, which comes after it, and one outcome of an
experiment, which names the archive when it is a success. The refinement mapping forgets requests, locks,
writers and synchronisations: `ArchivesOf` and `RevertsOf` are the positions of the commits in `remote`,
`Outcomes` and `Evidence` are read off `result`.

### 2.9 ArtifactUploads, VersionShelf

An upload is named by its idempotency key; its version and, if it is the first, its artifact come with
it. `rows` are the four tables, `storage` is what the S3 backend holds: per upload the parts of a
multipart upload and the staging object, per digest the content object. Bytes are only `good` (those
declared) or `bad`. A request, an archive or the reaper is a record in `call` with one phase per
transaction or storage operation; `Abandon` ends it anywhere, as an error, a client that gives up, or a
crash would. `Confirm` to `Finalize` follow the service's `Confirm`: acquire the confirmation
(`BeginConfirm`, also from another whose lease has ended), list and compare the parts, complete, mark
verifying, verify, promote, finalize. `List` and `Verify` contain what a confirmation does that finds the
work of an earlier one. `SetUploadStatus` is the store's statement with the guards that the table's CHECK
adds: a row that has `aborted_at` can only be aborted or expired. Archives put the parts themselves and
run the same steps without confirmation or recovery. `Purge` removes rows and objects in one step,
`PurgeFails` is the same transaction rolled back after some objects have been deleted. Parts that are
listed and then put again make the completion fail (`Complete`), as S3 compares their tags. `Trash` looks for
uploads under way without locking them (`artifact/postgres.go:851`), so a failed one may be confirmed again at the
same time; as `BeginConfirm` does not look at the artifact, that is a `Trash` followed by the retry. `Promote`
looks for the object and copies it in one step: two that both find nothing copy the same verified bytes.

Left out: the local backend (the deployments of the repository configure MinIO), downloads, previews,
whose blobs are caches, folders and other metadata, artifacts in Git, inputs of agent runs.

`VersionShelf` is what users of artifacts are promised (`docs/adr/0002-artifact-multipart-storage.md`,
`docs/development/artifact.md`): what was confirmed is kept until its artifact is purged from the trash, what
was aborted or has expired never comes back, one gets the version that was confirmed last, and no artifact goes to
the trash while a version of it is on its way. The refinement mapping forgets storage and requests: `Fates` and
`Places` are the statuses of uploads and artifacts in fewer words, `Currents` is the current version of an
artifact that has one.

### 2.10 ApprovalQueue, AgentRuns

One Run, as Runs share nothing. `run` and `approval` are Core's rows, `remote` is Hermes: its status, how
many approvals it has asked for and how many of them were answered (in one order), and the events it has
not delivered yet. `UpdateRun`, `RecordApproval`, `Resolve`, `ApplyResponse` and `ApplyNextResponse` are the
transactions of the store; the actions are their callers. `starter` is `startRun`, or `EvaluateProgress`
until the Run is active; the loop of an evaluation then acts through a `caller`, like `GetRun` and `StopRun`:
what it has read from Hermes is stored by a later step (`StoreCall`). An `approver` is one `ApproveRun` with a
claim of its own: claim, post, then complete or release; `ApproverDies` leaves the claim to
`LeaseRunsOut`. A claim is not taken over while its request is under way: a request to Hermes is given up
after at most five minutes (`hermes/config.go:118`), the lease is ten. `stream` is the connection of one
follower: it numbers the events and remembers the requests it has seen (`correlateApproval`), so both are
lost with it. Taking an event and handling it are one step, as an event that waits for its handler is like
one in the queue; two followers of one Run, who would share its events, are left out with instances,
sessions, messages and tool calls. Error codes are not kept, but a poll that reads another one stores the same
status again (`FetchRun`). `ActivateRun` stores the status of the reply to the start; Hermes answers `started`,
which `normalizeRunStatus` makes `running`.

`ApprovalQueue` is what `docs/development/agent.md` promises of approvals: they keep their order, only the
oldest open one is claimed, by one person at a time, and what is closed stays closed. `ApprovalFate`,
`EarlierApprovals` and `AnswersOnTheirWay` are the refinement mapping: the status of a row without its lease,
the rows with a smaller `approval_order`, and the requests of `ApproveRun` that are posting.

## 3. Runs

| Run | Shows | Bounds, and why they are enough |
|---|---|---|
| `queue` | attempts stay in budget; once recorded, a cancellation wins, also one that overtakes a recovery under way; one worker per attempt number; finished rows never change | 2 jobs (sweeps touch a second row, two jobs compete for a key), 2 workers (hand-over), 2 attempts (one retry, then the budget), lease 2 < timeout 3, so either may run out first |
| `worker` | an attempt is worked on by one worker; a lease belongs to the attempt in hand and outlives the handler while renewals are on time; every job ends | 1 job, 2 workers, 1 late request, 1 crash, 2 attempts: one lost claim, one restart under the old name and one retry can all happen in one behaviour |
| `outbox` | publication is atomic; `Outbox` implements `EventDelivery`; everything is settled | 1 event, 2 consumers of which 1 is registered, 2 processes, 2 attempts, 1 replay; the tables have no constraint that relates two events |
| `tracking` | a trigger belongs to one request, and the evaluation that closes the request has an input with every change the request knew when the input was read; no input is evaluated twice at a time | 2 requests (one closed, one open), 2 evaluations, 2 processors that lose their leases and crash, 1 change: inputs before and after it |
| `tracking_jobs` | a waiting job can be claimed; reconciliation never fails what a retry may still finish; requests are settled | 1 request, 1 evaluation with 2 attempts, 2 processors. Liveness needs as many identifiers of jobs as of requests: otherwise the model runs out of names where the code does not |
| `article` | publications follow their builds; a build reported completed has succeeded, or is a preview that was superseded meanwhile; no build is left behind | 3 builds (a template test must precede the others, so a publication can be retried once, or a preview superseded by another), 1 worker, 1 publication. A worker that dies and claims its job again under its id takes the part of a second one, but for requests of one worker during the lease of another: with 2 workers (2.4 million states) the run needs all of its five minutes, in which it holds too, and the theorems of section 5 are about any number |
| `box` | the experiment follows its task, no work is forgotten, reports are accepted, a timeout means silence, nothing goes back, the tasks of an abandoned box end | 1 box, 1 experiment, 2 calls in Core at once, so a call that was given up runs beside its repetition or a timeout; clocks of 1 unit each, capacity 1, 1 unacknowledged status before a relaunch. Rows of two experiments meet only in the capacity; the theorems of section 5 are about any number |
| `results` | one archive in the branch per experiment, success means it is there; no announced commit is missed | 1 experiment, 2 writers that finalize it, 1 synchronisation, a branch of 3 commits (archive, revert and a foreign one, in any order), 2 requests to synchronise (one during the other). With 2 synchronisations and 2 commits it holds too |
| `uploads` | the tables agree; only declared bytes are found at a content key; what was aborted or has expired stays so; what is confirmed stays until its artifact is purged; a purge leaves what others share | 1 client upload, 1 archive of another artifact and 1 restored version, all of one content, so promotion, deduplication and purge meet; 2 requests (a confirmation and the one that takes over, or a confirmation and a purge) and the reaper |
| `agent_runs` | an open approval is visible; answers are sent one at a time and in Core's order; what is closed stays closed | 1 Run, 2 approvals (an order; the second under the number of the first after a reconnect), 2 people, who can also stand for one who tries again, 1 poll, stop or evaluation loop beside them, 1 connection that may break at any time. People are interchangeable (symmetry; no liveness is checked) |
| `article_cancel`, `uploads_purge` | the divergences of section 4 | the smallest instance that shows each |

Type invariants that are theorems (section 5) are repeated by a run only where it has room for them.
Deadlock is checked in every run but `agent_runs`, where a Run that was never started or has ended stays as
it is, and `results`, `uploads` and `uploads_purge`, where the bounds on
commits, requests and uploads stop the system although the code would go on: an upload that has ended is
not made again.

### Fairness

- `WFairness`: time passes; workers poll, handlers end, requests are sent, a stopped process is
  started again (the deployment restarts workers). Answers of polls are strongly fair: a poll that
  is repeated for ever is answered at some time (`run_forever` retries after every error).
  Nothing is assumed about crashes or late requests beyond their bounds.
- `Outbox!Fairness`: `Run` calls `RunOnce` in a loop, consumers return, one process survives
  (`Crash` leaves one). Claims are strongly fair: the processor polls for ever, and rows locked by
  another transaction at each poll for ever are excluded. Failing is not assumed to stop: a delivery
  may fail at every attempt and is then abandoned.
- `PFairness`: processors poll; an assembly that is retried for ever succeeds at some time. Nothing
  is assumed about workers, people or events.
- `BoxGateway!Fairness`: time passes, the maintenance loop of Core runs (`MarkOffline`, `TimeOut`), and
  Core comes to the end of each call, be it with an error. No gateway is obliged to start, to send
  heartbeats, to claim or to report: `AbandonedWorkEnds` is about gateways that do none of this.
- `ResultCommits` states no fairness: a retry of a result need not succeed (section 4). `ArtifactUploads`
  states none either: an archive that was interrupted never ends. Nor does `AgentRuns`: nobody has to look at
  a Run, and a Run whose Core process ended before its activation stays `queued`.

## 4. Where the code and its documents differ

1. `article_cancel`: `CompleteInTransaction` of article builds does not look at the status of the
   job. A job cancelled after the last renewal ends as cancelled, and its build succeeds.
   `docs/api/jobs.md:105` gives cancellation and timeout precedence. Progress evaluations behave in
   the same way.
2. `uploads_purge`: `Purge` deletes objects inside its transaction (`artifact/postgres.go:1119`). When the
   transaction is rolled back afterwards, the artifact can be restored without its bytes; and a
   confirmation of the same content that found the object before the purge finalizes after it.
   `docs/adr/0002-artifact-multipart-storage.md:22` says that versions are retained indefinitely.

Seen while modelling, without a run: a cancellation that commits between the first and the third UPDATE of
`recoverExpired` (`jobs/postgres.go:532` and `552`) does not stop the recovery, which puts the cancelled job back into
the queue, where it waits for its next worker with the cancellation recorded, or ends it as `failed` with
`LEASE_EXPIRED` (`docs/api/jobs.md:105` gives cancellation precedence). `CancellationWins` therefore speaks of the
steps after the cancellation was recorded: it stays recorded, and the requeued job can still end only as
cancelled or timed out. `CancelDuringRecovery` is the one step in which it is recorded with that effect.

A change that arrives while a request for an evaluation is being
assembled joins that request, whose input has been read already, and the request may be merged into an
evaluation of the older input (`docs/development/progress.md:95` calls this a no-change short-circuit, and
line 90 has requests merge triggers only inside the debounce window); its trigger is recorded and nothing will
evaluate its change before the next request. So no property says that no trigger is lost; `TriggersAnswered`
says what becomes of those that came before the input was read.

A preview that is superseded between the read of the completion hook and its update stays superseded, but the hook
goes on and writes `article.build.completed` (`article/postgres.go:812`, `821`, `841`) with the status `succeeded` that
`docs/events/catalog.md:46` and `contracts/events/article.build.completed.schema.json` require; in the same way
`article.build.failed` is written. Asking again for a preview that is under way supersedes it and creates no
other (`article/postgres.go:592`, `600`), so it ends without a result. Two different previews requested at the same
moment may both stay active, as neither UPDATE sees the other's row; the model orders them.

The hook of article builds fails the build at every failure, also one that returns the job to the queue,
so the retry is refused (`docs/api/jobs.md:101`); ends reached by lease recovery write no event although
`docs/api/jobs.md:134` lists terminal states among the events; a forced request that joins an
assembling one may be merged into a finished evaluation (`docs/development/progress.md:98`); `Fail`
and `Cancel` of the job store shadow their result variable and answer with an empty job.

In Box control and the gateways: nobody calls `FinalizeDrained` when the result of the last task of a
draining box ends, so such a box is not revoked before its next report; a draining box gets no
heartbeat through, its gateway ends, and since only boxes seen offline time out, tasks it still held
stay; after a user's cancellation of a running task the gateway is told to stop, cleans up and never
reports, so task and experiment keep their status; a gateway that ends between recording the start of
the runtime and queueing `running` reports `uploading` next, which is refused for ever (`skipped`); a
claim whose answer is lost leaves a task `preparing` (`lost`); the observer's part of a timeout or a
forced revocation is not repeated when it fails.

When a box is taken away by force while a result is being processed, the observer lets the task's row
pass, but no transition leads out of `processing_result` (`experiment/postgres.go:596`): the call ends in a
conflict and the experiment may still succeed while its task has failed (`docs/development/experiment.md:206`
says it stays failed). The failure hook of a result job runs only on failures a worker reports, so a job
that ends otherwise leaves the experiment waiting (`experiment/result_processing.go:718`).

In result commits: `FinalizeWorkerResult` resolves the head anew, so after a crash between push and
`CompleteCommit` and a synchronisation the same request is refused for ever, and the pushed commit
is not reverted; an error after the transaction of `CompleteResult` has committed leads to the revert of
a result whose experiment has succeeded; a revert that finds the repository locked is not tried again. A
synchronisation clears the request if its time is not after the one claimed: if a request whose clock was read before
that of the claimed one is written only after a newer one, it takes the newer one's place and is cleared with the
claim, and the newer commit waits for the next request or poll (`repo/postgres.go:1030`).

In artifact uploads: an archive that is interrupted after its upload exists is refused ever after; the
reaper ends the sessions but leaves their versions and artifacts `pending_upload` or `verifying`, and an
artifact whose first upload was reaped can be neither trashed nor given a further version; an object that
was promoted for an upload which then ended stays in storage without a blob.

In agent runs: a response without an
id that arrives after the claim of its approval was completed, in a connection that has not seen the
request, resolves the next approval, which Hermes still waits for; and a request that bears the number of a
closed one after a reconnect is dropped. `UpdateRun` does not look at the status it overwrites, so a late
poll or event reopens a Run that has ended until the next poll. An error of the stream itself marks the Run
`failed`, although Hermes goes on.

## 5. Proofs

### The queue (`JobQueueProofs`)

The theorems hold for every set of jobs, workers and keys, every relation `CanClaim`, and all
attempt limits, timeouts, lease terms and delays that satisfy `JobQueueConstants`: nothing is
assumed beyond the types of the constants.

The inductive invariant says of each row alone (`RowInv`) that it is well-typed, `Consistent`, within
its budget, and that a row with a recorded cancellation has not succeeded (`CancelKept`). What a step may make of such
a row is `CancelStands`, shown for each SET clause. These must go
together: that a retry stays within the budget needs that a running row has been counted; that a
cancellation wins at a completion needs that the row is running, hence not finished. As almost every
step replaces one row by a SET clause of it, there is one lemma per SET clause (recovery in its
three parts, claim, completion, failure, cancellation, renewal, ageing), and `EveryRowSteps` states
what any step can do to a row; the invariants and the action properties follow from it. `LogInv`
relates the logs to the rows: no log carries a number larger than the attempts of its job, and the
logs of the current attempt come from the worker that holds the lease.

| Theorem | Property |
|---|---|
| `TypeCorrect` | `TypeOK` |
| `RowsConsistent` | `RowConsistency` |
| `BudgetKept` | `AttemptBudget` |
| `CancellationDecides` | `CancellationWins` |
| `CancelledNeverSucceeds` | a row with a recorded cancellation has not succeeded |
| `LogsAttributed` | `OneWorkerPerAttempt` |
| `KeysUnique`, `SuccessesAnnounced` | `UniqueKeys`, `SuccessAnnounced` |
| `FinishedForGood`, `LeasesExpireFirst`, `TimeoutNeverMoves` | `TerminalIsFinal`, `LeaseHandover`, `TimeoutIsAbsolute` |

### Workers (`JobWorkerProofs`)

These hold for any number of workers, jobs, crashes and late requests under `JobWorkerConstants`: the
lease term is one of those the queue knows and longer than one unit, and a retry may be immediate.
`KindOfStep` sorts the steps of `JobWorker` by what they mean to the queue: a worker takes a job, ends
it, a late claim or completion does so behind its back, or the step is one of the quiet steps of
the queue (`Quiet`: renewal, failure, cancellation, time, ...). `WorkerSteps` shows that there are
no others and that types are kept; that each kind is a step of `Next` gives `WSpec => Spec`, which
carries every theorem about the queue over to workers. Each of the other theorems adds one inductive
invariant and looks at the five kinds only, but for the last, which looks at the actions of the worker:

| Theorem | Property | Invariant added, and why |
|---|---|---|
| `WorkersTypeCorrect` | `WTypeOK` | `Typed`: a busy worker, and a late request other than a claim, has a job |
| `AttemptsHaveOneHandler` | `OneHandlerPerAttempt` | `Counted`: no worker is in an attempt the row has not reached, so the next claim yields a number that nobody has |
| `SuccessesHaveResults` | `SuccessHasResult` | `ResultsBehind`: behind a request to complete, also a late one, there is a result |
| `LeasesOfThisAttempt` | `LeaseIsOfThisAttempt` | `Attributed`: a row that the worker in hand of it has locked is in the worker's attempt, and no request is late, as long as none went unanswered |
| `LeasesOutliveHandlers` | `LeaseOutlivesHandler` | `RenewsInTime`, `Begun`: what is left of the lease exceeds what is left until the next renewal; others leave a live lease alone |

The last one rests on `LiveLeaseKept` (recovery leaves a row alone whose lease and timeout lie ahead)
and `LiveLeaseLeftAlone`: no step but the holder's own and the passing of time touches such a lease,
a cancellation only marks the row.

### Modules that have jobs (`JobOwnersProofs`)

Beside the types of their constants, both assume that a job may be available at once (`0 \in Delays`),
which is how these modules create theirs. `Stays` says what a step of the queue other than a creation
may do to a row as seen from the module that owns it: it does not vanish, and it does not come back
to life. What ties a row to its evaluation or build is inductive on top of it.

*Tracking.* `JobsLinked`: an evaluation exists with its job, and is active as long as its job is live.
`StepKinds` sorts the steps into three kinds (`KindOfStep`): evaluations and requests only progress,
a request is opened or extended, a request is finalized. The invariants look at the kinds.

*Builds.* The heart is `OwnedHasNotFailed`: a worker that owns a job and has reported its last
progress has a build that has not failed. It holds since that progress was accepted for an active
build, the build fails only with the loss of the job, and a new claim begins the work anew. With it
a completion never finds a failed build, which carries `CompletedHasEnded`,
`PublicationFollowsBuild` and `ReadyWasTested`. It stays true of a hook that has read its build
(`WorkDone` includes `completing`), and what may have happened to the build since is that it was superseded, which
happens to previews only (`OnlyPreviews`). That previews supersede no formal build (`FormalBuilds`) is needed
for publications.

| Theorem | Property | Invariant added |
|---|---|---|
| `TrackingTypeCorrect` | `PTypeOK` | a processor that is not idle has a request |
| `ClaimsAreAccepted`, `EndedEvaluationsHaveEndedJobs` | `ClaimIsAccepted`, `EndedEvaluationHasEndedJob` | `JobsLinked` |
| `WorkIsNotDuplicated` | `NoDuplicateWork` | none: inductive with the above |
| `TriggersAreAnswered` | `TriggersAnswered` | `TriggersInv`: a processor about to finalize read the input and the triggers of its request together (`ReadTogether`), and only open requests are extended, so what `Carried` and `Merged` say of a closed one stays true |
| `BuildsTypeCorrect` | `BTypeOK` | none |
| `PublicationsFollow` | `PublicationFollowsBuild` | `FormalBuilds`, `OwnedHasNotFailed` |
| `CompletedBuildsHaveEnded`, `ReadyTemplatesWereTested` | `CompletedHasEnded`, `ReadyWasTested` | `OwnedHasNotFailed`, `OnlyPreviews` |
| `StrandedBuildsAreFound` | `NoBuildIsStranded` | `EndedWithJob`: no active build has a succeeded job |

### The outbox (`OutboxProofs`)

For any events, consumers, registry, processes, replays, attempt limits, leases and delays that satisfy
`OutboxConstants`. `OInv` adds to the properties what a processor has in hand (`ProcOK`): while it
still owns the row of a delivery, the row is in the attempt it has claimed, and a processor that is about to
complete a delivery has run its consumer. A processor that lost its lease may come back at any time; it
then finds another owner or another status. `FailureOK` is `FailuresArePast` for every number.

That `Outbox` implements `EventDelivery` is a step simulation. A row's status may go only one way
without a publication or a delivery (`Drift`); a step in which all rows drift settles nothing or abandons
what was owed (`Drifting`), sweeps that end several rows at once included. The steps left are looked
at one by one: writing an event commits it, publishing changes no fate because there were no live
deliveries before and all of them after (`PublishedToAll`), a consumer runs, a completion delivers.

| Theorem | Property |
|---|---|
| `OutboxTypeCorrect` | `TypeOK` |
| `PublicationIsAtomic` | `PublishedToAll` |
| `FailuresAreOfThePast` | `FailuresArePast` |
| `PromiseIsKept` | `KeepsPromise` |

### Box gateways (`BoxGatewayProofs`)

For any number of boxes, experiments and calls in Core, any capacity, clocks and queue lengths, under
`BoxControlConstants` and `GatewayConstants`. None of the properties is inductive: that a report is
acceptable depends on what the goroutine queued before it and on what it will queue next, and that an
experiment follows its task depends on where in Core the call is that carries the report. `GInv` says:

- `TaskOK`, `BoxOK`: which statuses of a task and its experiment go together (the experiment is at most
  one phase behind), and `offline_since` is not older than the end of the time a box may be silent;
- `ChainOK`: starting from the row, each queued report is a transition Core accepts after the one before,
  and the last of them fits what the goroutine will report in its phase, unless `running` was skipped;
- `LagOK`: an experiment that is behind its task is behind by the head of the queue, which is not
  acknowledged yet (or the task has only just been claimed);
- `KeptOK`, `EndOK`: what a box holds is in its gateway's file, and a file that only waits for its
  queue to drain has the outcome of the task as the last report, so the entry is not deleted before;
- `TurnOK`: the task being synchronised is not one to be stopped;
- `CallOK`, `AskedOK`, `AskedOnce`: a call in Core is never ahead of the row; the one a gateway waits for
  is about the head of its queue, or its bundle, and after the observer's transaction the experiment is
  not behind any more.

Everybody but a gateway changes rows only as `Quiet` allows (a task is queued, cancelled in the queue, or
ends), and one argument (`QuietFiles`, `QuietCall`, `QuietAsked`) carries the rest of `GInv` over all of
these steps; a claim, a report and a result (`ClaimKeeps`, `TakesUpKeeps`) are the steps left. The
two action properties are shown with the invariant, for each step (`Kept`).

| Theorem | Property | Conjunct that carries it |
|---|---|---|
| `GTypeCorrect` | `GTypeOK` | the types |
| `FollowsTask` | `ExperimentFollowsTask` | `TaskOK`, from `LagOK` and `AskedOK` |
| `NotForgotten` | `WorkIsNotForgotten` | `KeptOK`, from `EndOK` and `TurnOK` |
| `Accepted` | `ReportsAreAccepted` | `ChainOK` |
| `TimeoutNeedsSilence` | `TimeoutMeansSilence` | `BoxOK` |
| `Monotone` | `ProgressIsMonotone` | `CallOK`, `TaskOK` |

### Result commits (`ResultCommitsProofs`)

For any number of experiments, writers and synchronisations, and any bounds. `RInv` is inductive:

- `BranchOK`: the commit at a position has that position's base, and an archive or a revert in the
  branch is the commit of its request;
- `RequestOK`: the commit of a request is built on the head it expected, and has been pushed when the
  request succeeded;
- `WriterOK`: what each phase of a writer knows of its request, and that the head of the workspace does
  not pass the commit of a writer that still has the lock;
- `ResultOK`: a result that succeeded has the commit of its archive's request, which is pushed;
- `SyncOK`, `LockOK`: a synchronisation that has read the last request fetched what it announced.

That an archive enters the branch only once then follows from the positions: a request has one commit,
a commit one position. The clause about the lock is for `AnnouncedIsSynced`: completing a commit sets
the head to just above it, which must not move the head back.

That `ResultCommits` implements `ResultLedger` looks only at what a step does to the branch and the results:
nothing, a commit of another client, the push of a writer, a success, another end (`LedgerStep`; `StepsOfLedger`
shows that there are no others). A push is a step of the ledger because the commit of a request is pushed in one
position (`RInv`), and because a revert is prepared by a writer that has seen the archive, or belongs to a
request that such a writer has made: `RevertsFollow`, inductive together with `RInv`.

| Theorem | Property |
|---|---|
| `RTypeCorrect` | `RTypeOK` |
| `ArchivedOnce` | `ResultIsArchivedOnce` |
| `Synced` | `AnnouncedIsSynced` |
| `ResultsAreLedgered` | `LedgerIsKept` |

### Artifact uploads (`ArtifactUploadsProofs`)

For any number of uploads, artifacts, contents and requests, under `UploadConstants`. Rows and storage are
treated apart. `StepsAreRowSteps` sorts what a step does to the tables into seven kinds (`RowStep`: a touch
that changes nothing others look at, a new upload, one made available at once, a status, a confirmation
finalized, an artifact in or out of the trash, a purge), and one lemma per kind shows that it keeps the
tables in agreement. For that `FirstIsPresent` (nothing of an artifact exists before its first upload) and
`CurrentIsOwn` (the current version is one of the artifact's) are needed beside `RowsAgree`; `EndIsFinal` and
`ConfirmedIsUntouched` are read off the kinds. `StepsKeepStorage` does the same for storage. The argument
for `ContentIsVerified`: a staging object is written once, by the step that ends its multipart upload
(`StagingIsWrittenOnce`), so what a request has verified is what it promotes (`CallOK`), whoever else
confirms the same upload.

That `ArtifactUploads` implements `VersionShelf` goes by the same seven kinds: a touch or a status fails, retries
or ends versions (`TouchesOnShelf`, `SettlingOnShelf`), a new upload begins one, a confirmation keeps it, and
so on, one lemma per kind. It needs `PurgedIsEmpty`, that every upload of a purged artifact is gone or was never
made: without it a version could be confirmed on top of a purge.

| Theorem | Property |
|---|---|
| `UTypeCorrect` | `UTypeOK` |
| `TablesAgree` | `RowsAgree` |
| `VerifiedContent` | `ContentIsVerified` |
| `EndsAreFinal` | `EndIsFinal` |
| `ConfirmedUntouched` | `ConfirmedIsUntouched` |
| `SharedBytesKept` | `SharedBytesAreKept` |
| `UploadsKeepVersions` | `VersionsAreKept` |

### Agent runs (`AgentRunsProofs`)

For any number of approvals, people and callers, under `AgentConstants`. None of the properties is
inductive; `AInv` adds what each of them leans on:

- `RowsOrdered`: no order is above the number of rows and none is used twice, so a new approval, whose order
  is that number plus one, comes after all others and the oldest open one is unique;
- `VoicesClaim`: who is sending an answer has the claim of the row, and not a stale one, unless the row was
  closed meanwhile. So nobody else can claim it, which gives `OneVoice`, and who gives up a claim does
  not give up that of another;
- `BegunIsKnown`: before `ActivateRun` there is no stream and no open approval, so that starting, activating and
  failing a Run may store a status without looking for approvals, as the code does;
- `AnswersFollow`: Hermes answers only what it asked, for the types.

Rows, Hermes, the starter, approvers, callers and the stream are moved by lemmas of their own (`FineStep` puts
them together); `Kept` says what a step other than a recording may do to a row as seen from the order.

That `AgentRuns` implements `ApprovalQueue` looks at a step through what it does to the statuses and orders of
the rows and to the answers on their way: nothing or the end of an answer, a closing of open rows, a recording,
a claim, a release (`KindOfStep`; `KindsOfSteps` shows that there are no others). Each kind is a step of the
queue. A claim is one because all earlier rows are closed (`RowsOrdered`, the row is the oldest) and nobody is
answering the row (`VoicesClaim`).

| Theorem | Property | Conjunct that carries it |
|---|---|---|
| `AgentsTypeCorrect` | `ATypeOK` | the types |
| `ApprovalsAreRemembered` | `NoApprovalIsForgotten` | itself, with `BegunIsKnown` |
| `ClaimsAreInOrder`, `OneClaimAtATime` | `OnlyTheOldestIsClaimed`; at most one row is claimed | `RowsOrdered` |
| `AnswersHaveOneVoice` | `OneVoice` | `VoicesClaim` |
| `ClosedForGood` | `ClosedIsFinal` | `KindsOfSteps` |
| `ApprovalsAreAQueue` | `AnswersInOrder` | `RowsOrdered`, `VoicesClaim` |

### Only proved

`RowConsistency`, `LeaseHandover`, `TimeoutIsAbsolute`, `UniqueKeys`, `SuccessAnnounced` (queue), that a cancelled
job never succeeds, `SuccessHasResult` (workers), `FailuresArePast` (outbox), `ReadyWasTested` (builds), that one
approval is claimed at a time, and the three refinements `AnswersInOrder` (agent runs), `LedgerIsKept` (results)
and `VersionsAreKept` (uploads) are theorems for every value of the constants; no run repeats them. The refinements
may be added to the properties of `MCAgentRuns.cfg`, `MCResultCommits.cfg` and `MCArtifactUploads.cfg`. The first
holds there at twice the time and the second in a few minutes; the third holds with one client in half a minute,
and with two clients when there are only two uploads of one artifact.

### Only model-checked

Liveness under fairness (`EveryJobEndsWithWorkers`, `EverythingIsSettled`, `RequestsAreSettled`,
`AbandonedWorkEnds`) is out of reach of the prover and stays with TLC.

## 6. Plan

Modelling, most important first: synchronisation of models; previews of artifacts; drafts
and commit operations; sessions of agents; notifications and reminders.

Proving: every safety property and every action property that the passing runs check is a theorem; what new
modules state comes with theirs. Abstract specifications are still to be written for boxes (a task and what its
experiment shows of it) and for the requests of progress tracking.

## 7. Running

```
tlc -workers 2 -config MCJobQueue.cfg MCJobQueue
tlapm JobQueueProofs.tla
tlapm JobWorkerProofs.tla
tlapm JobOwnersProofs.tla
tlapm OutboxProofs.tla
tlapm BoxGatewayProofs.tla
tlapm ResultCommitsProofs.tla
tlapm ArtifactUploadsProofs.tla
tlapm AgentRunsProofs.tla
```

The other runs are listed in `PROJECT.json` with their module and configuration. Each ends within
five minutes.
