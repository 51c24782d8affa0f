---------------------------- MODULE ArticleBuild ----------------------------
(***************************************************************************)
(* Article builds of one project on top of the Job queue                   *)
(* (backend/internal/article): previews, formal builds for publications,   *)
(* and tests of one template.  A build and its job are created together;   *)
(* the job hooks carry the outcome of the job into the build, its template *)
(* and its publication, and ReconcileBuildStates repairs what no hook saw. *)
(* The build handler of the worker reports progress before it does         *)
(* anything else and after its last upload, and Core refuses progress for  *)
(* a build that has ended.                                                 *)
(***************************************************************************)
EXTENDS JobQueue

CONSTANTS
  Publications,
  NoBuild       \* the publication does not exist yet

ASSUME ArticleConstants ==
  /\ NoBuild \notin Jobs
  /\ 0 \in Delays        \* the job of a build is available at once

VARIABLES
  build,        \* article_builds, named by their job
  template,     \* article_templates.status
  publication,  \* article_publications
  released,     \* article_releases: <<publication, build>>
  reported,     \* the build events written to system_outbox
  handler       \* what the handler of each worker has done for each job

articleVars == <<build, template, publication, released, reported, handler>>
buildVars == <<job, logs, announced, build, template, publication, released, reported, handler>>

-----------------------------------------------------------------------------
Kinds == {"formal", "preview", "template_test"}
ActiveBuild == {"queued", "running"}

Build == [kind : Kinds, status : ActiveBuild \cup {"absent", "succeeded", "failed", "superseded"}]
Publication == [status : {"absent", "building", "released", "failed"}, build : Jobs \cup {NoBuild}]

BInit ==
  /\ Init
  /\ build = [j \in Jobs |-> [kind |-> "preview", status |-> "absent"]]
  /\ template = "validating"
  /\ publication = [p \in Publications |-> [status |-> "absent", build |-> NoBuild]]
  /\ released = {}
  /\ reported = [j \in Jobs |-> {}]
  /\ handler = [w \in Workers |-> [j \in Jobs |-> "none"]]

Report(j, event) == reported' = [reported EXCEPT ![j] = @ \cup {event}]

-----------------------------------------------------------------------------
(* createBuildInTransaction: a new preview supersedes the active ones.     *)

Superseding(kind) ==
  [j \in Jobs |->
     IF kind = "preview" /\ build[j].kind = "preview" /\ build[j].status \in ActiveBuild
     THEN [build[j] EXCEPT !.status = "superseded"] ELSE build[j]]

NewBuild(j, kind) ==
  /\ kind # "template_test" => template = "ready"
  /\ \E max \in AttemptLimits : Create(j, NoKey, max, 0)
  /\ build' = [Superseding(kind) EXCEPT ![j] = [kind |-> kind, status |-> "queued"]]
  /\ Report(j, "queued")
  /\ UNCHANGED <<template, released, handler>>

\* Registration tests the template once, under an idempotency key.
RegisterTemplate(j) ==
  /\ \A k \in Jobs : build[k].status # "absent" => build[k].kind # "template_test"
  /\ NewBuild(j, "template_test")
  /\ UNCHANGED publication

CreateBuild(j, kind) == NewBuild(j, kind) /\ UNCHANGED publication

\* The key of a preview is its draft revision, template and tools.  Asking for
\* it again creates nothing, but supersedes the preview under way all the same.
RepeatPreview ==
  /\ template = "ready"
  /\ \E j \in Jobs : build[j].kind = "preview" /\ build[j].status # "absent"
  /\ build' = Superseding("preview")
  /\ UNCHANGED <<vars, template, publication, released, reported, handler>>

RetryBuild(old, j) ==
  /\ build[old].status \in {"failed", "superseded"}
  /\ NewBuild(j, build[old].kind)
  /\ UNCHANGED publication

CreatePublicationBuild(p, j) ==
  /\ publication[p].status = "absent"
  /\ NewBuild(j, "formal")
  /\ publication' = [publication EXCEPT ![p] = [status |-> "building", build |-> j]]

RetryPublicationBuild(p, j) ==
  /\ publication[p].status = "failed"
  /\ NewBuild(j, "formal")
  /\ publication' = [publication EXCEPT ![p] = [status |-> "building", build |-> j]]

-----------------------------------------------------------------------------
(* The hooks, in the transaction of the job.  Those that end a build read  *)
(* it without a lock: a preview that was still active when it was read may *)
(* have been superseded when the transaction writes.                       *)

MarkBuildRunning(b) == IF b.status = "queued" THEN [b EXCEPT !.status = "running"] ELSE b

ClaimBuild(w, j, lease) ==
  /\ ClaimJob(w, j, lease)
  /\ build' = [build EXCEPT ![j] = MarkBuildRunning(@)]
  /\ handler' = [handler EXCEPT ![w] = [k \in Jobs |-> IF k = j THEN "working" ELSE "none"]]
  /\ UNCHANGED <<template, publication, released, reported>>

\* Where the worker is when it submits its answer through this hook.
Entering(hook) == IF hook = "completing" THEN {"returned"} ELSE {"working", "returned"}

\* GetBuildByJob: the hook finds a preview that has not been superseded.  The
\* build of a running job of another kind is not written by anyone else, so
\* there the read is one step with what follows.
EnterHook(w, j, hook) ==
  /\ handler[w][j] \in Entering(hook)
  /\ OwnsLease(w, job[j])
  /\ build[j].kind = "preview" /\ build[j].status # "superseded"
  /\ handler' = [handler EXCEPT ![w][j] = hook]
  /\ UNCHANGED <<vars, build, template, publication, released, reported>>

\* What follows once the build was read: the status of the job is not looked
\* at, and the event is written whether or not the update matched the build.
CompleteBuild(j) ==
  LET mine == {p \in Publications : publication[p].build = j} IN
  /\ build' = [build EXCEPT ![j].status = IF @ \in ActiveBuild THEN "succeeded" ELSE @]
  /\ template' = IF build[j].kind = "template_test" THEN "ready" ELSE template
  /\ publication' = [p \in Publications |->
       IF p \in mine THEN [publication[p] EXCEPT !.status = "released"] ELSE publication[p]]
  /\ released' = released \cup (mine \X {j})
  /\ Report(j, "completed")

\* Mutant of FailBuilds: the publication is not told.
FailBuildsOnly(ended) ==
  /\ build' = [j \in Jobs |-> IF j \in ended /\ build[j].status \in ActiveBuild
                              THEN [build[j] EXCEPT !.status = "failed"] ELSE build[j]]
  /\ template' = IF \E j \in ended : build[j].kind = "template_test" THEN "rejected" ELSE template
  /\ reported' = [j \in Jobs |-> IF j \in ended THEN reported[j] \cup {"failed"} ELSE reported[j]]
  /\ UNCHANGED <<released, publication>>

\* FailBuild for each of some builds.
FailBuilds(ended) ==
  /\ build' = [j \in Jobs |-> IF j \in ended /\ build[j].status \in ActiveBuild
                              THEN [build[j] EXCEPT !.status = "failed"] ELSE build[j]]
  /\ template' = IF \E j \in ended : build[j].kind = "template_test" THEN "rejected" ELSE template
  /\ publication' = [p \in Publications |->
       IF publication[p].build \in ended /\ publication[p].status = "building"
       THEN [publication[p] EXCEPT !.status = "failed"] ELSE publication[p]]
  /\ reported' = [j \in Jobs |-> IF j \in ended THEN reported[j] \cup {"failed"} ELSE reported[j]]
  /\ UNCHANGED released

Leave(w) == handler' = [handler EXCEPT ![w] = [j \in Jobs |-> "none"]]

HasRead(w, j, hook) ==
  \/ handler[w][j] = hook
  \/ handler[w][j] \in Entering(hook) /\ build[j].kind # "preview"

\* A hook that finds the build superseded leaves it alone.
FindsSuperseded(w, j, hook) ==
  /\ handler[w][j] \in Entering(hook) /\ build[j].status = "superseded"
  /\ UNCHANGED <<build, template, publication, released, reported>>

SubmitResult(w, j) ==
  /\ Complete(w, j)
  /\ \/ HasRead(w, j, "completing") /\ CompleteBuild(j)
     \/ FindsSuperseded(w, j, "completing")
  /\ Leave(w)

SubmitFailure(w, j, retryable, delay) ==
  /\ Fail(w, j, retryable, delay)
  /\ \/ HasRead(w, j, "failing") /\ FailBuilds({j})
     \/ FindsSuperseded(w, j, "failing")
  /\ Leave(w)

\* The worker dies, or gives up because its lease is lost.
Abandon(w) ==
  /\ \E j \in Jobs : handler[w][j] # "none"
  /\ Leave(w)
  /\ UNCHANGED <<vars, build, template, publication, released, reported>>

-----------------------------------------------------------------------------
(* The requests of the handler.  ClaimedWorkerJob asks for a live lease,   *)
(* but not for the lease of the worker that sends the request.             *)

ClaimedWorkerJob(j) ==
  /\ job[j].status = "running" /\ job[j].leaseIn > 0
  /\ ~job[j].cancelRequested /\ job[j].timeoutIn > 0

\* Mutant of WorkerProgress: progress is accepted for a build that has ended.
WorkerProgressAlways(w, j) ==
  /\ handler[w][j] = "working"
  /\ ClaimedWorkerJob(j)
  /\ handler' = [handler EXCEPT ![w][j] = "returned"]
  /\ UNCHANGED <<vars, build, template, publication, released, reported>>

WorkerProgress(w, j) ==
  /\ handler[w][j] = "working"
  /\ ClaimedWorkerJob(j)
  /\ build[j].status \in ActiveBuild
  /\ handler' = [handler EXCEPT ![w][j] = "returned"]
  /\ UNCHANGED <<vars, build, template, publication, released, reported>>

(* Aggregate: the project is presented to a user.                          *)

\* Mutant of Stranded: cancelled jobs are forgotten.
StrandedUncancelled ==
  {j \in Jobs : build[j].status \in ActiveBuild /\ job[j].status \in {"failed", "timed_out"}}

\* ActiveBuild builds whose job has ended without a hook.
Stranded ==
  {j \in Jobs : build[j].status \in ActiveBuild /\ job[j].status \in {"failed", "timed_out", "cancelled"}}

ReconcileBuildStates ==
  /\ FailBuilds(Stranded)
  /\ UNCHANGED <<vars, handler>>

BuildsIdle ==
  /\ \/ ClaimNone \/ Tick
     \/ \E j \in Jobs : Get(j) \/ Cancel(j) \/ CancelDuringRecovery(j)
     \/ \E w \in Workers, j \in Jobs, lease \in LeaseTerms : Renew(w, j, lease)
  /\ UNCHANGED articleVars

BNext ==
  \/ \E j \in Jobs : RegisterTemplate(j)
  \/ \E j \in Jobs, kind \in {"formal", "preview"} : CreateBuild(j, kind)
  \/ RepeatPreview
  \/ \E old, j \in Jobs : RetryBuild(old, j)
  \/ \E p \in Publications, j \in Jobs :
        CreatePublicationBuild(p, j) \/ RetryPublicationBuild(p, j)
  \/ \E w \in Workers, j \in Jobs, lease \in LeaseTerms : ClaimBuild(w, j, lease)
  \/ \E w \in Workers, j \in Jobs : WorkerProgress(w, j) \/ SubmitResult(w, j)
  \/ \E w \in Workers, j \in Jobs, hook \in {"completing", "failing"} : EnterHook(w, j, hook)
  \/ \E w \in Workers, j \in Jobs, retryable \in BOOLEAN, delay \in Delays :
        SubmitFailure(w, j, retryable, delay)
  \/ \E w \in Workers : Abandon(w)
  \/ ReconcileBuildStates
  \/ BuildsIdle

BSpec == BInit /\ [][BNext]_buildVars

-----------------------------------------------------------------------------
\* Every variable has its type.
BTypeOK ==
  /\ build \in [Jobs -> Build]
  /\ template \in {"validating", "ready", "rejected"}
  /\ publication \in [Publications -> Publication]
  /\ released \subseteq Publications \X Jobs
  /\ reported \in [Jobs -> SUBSET {"queued", "completed", "failed"}]
  /\ handler \in [Workers -> [Jobs -> {"none", "working", "returned", "completing", "failing"}]]

\* A publication follows its current build, over failures, retries of the
\* build and repairs: it waits while the build is under way, it is released
\* with a release of that very build, and it fails only with its build.
PublicationFollowsBuild ==
  \A p \in Publications :
    LET status == publication[p].status
        current == publication[p].build
    IN /\ status = "building" => build[current].status \in ActiveBuild
       /\ status = "released" => build[current].status = "succeeded" /\ <<p, current>> \in released
       /\ status = "failed" => build[current].status = "failed"

\* The other modules hear of the completion of a formal build or of a template
\* test only if it has succeeded: the hook writes the event even when its update
\* of the build matches no row, and only the order of the worker's requests
\* keeps that from happening.  A preview may be superseded while its completion
\* is written; it never has failed or been left active.
CompletedHasEnded ==
  \A j \in Jobs : "completed" \in reported[j] =>
    \/ build[j].status = "succeeded"
    \/ build[j].kind = "preview" /\ build[j].status = "superseded"

\* A template is offered only after a test of it has succeeded.
ReadyWasTested ==
  template = "ready" =>
    \E j \in Jobs : build[j].kind = "template_test" /\ build[j].status = "succeeded"

\* No build is left behind: a build whose job has ended without any hook, in
\* the queue, by its timeout or by its last lost lease, is one that the next
\* repair will end.  A hook that left the build of a succeeded job active
\* would leave it so for ever.
NoBuildIsStranded ==
  \A j \in Jobs :
    build[j].status \in ActiveBuild /\ job[j].status \in Terminal => j \in Stranded

\* Cancellation and timeout take precedence over a late handler result
\* (docs/api/jobs.md): a build has succeeded only if its job has.
BuildNeedsJob ==
  \A j \in Jobs : build[j].status = "succeeded" => job[j].status = "succeeded"
=============================================================================
