-------------------------- MODULE ArtifactUploads --------------------------
(***************************************************************************)
(* Uploads of artifacts (backend/internal/artifact).  The rows of an       *)
(* upload session, its version, its artifact and the blob live in          *)
(* Postgres; the parts, the staging object and the content live in object  *)
(* storage; a confirmation, an abort, an expiry or an archive crosses from *)
(* one to the other several times, without a lock that spans the two.      *)
(*                                                                         *)
(* An upload is named by its idempotency key, and its version with it.     *)
(* Storage holds at a key nothing, the declared bytes or other bytes.      *)
(* Storage is the S3 backend, the one both deployments configure.          *)
(***************************************************************************)
EXTENDS Naturals, FiniteSets

CONSTANTS
  Uploads,
  Archives,    \* those Core makes itself: build outputs, experiment results
  Restores,    \* new versions with the content of an earlier one
  Artifacts,
  Contents,    \* digests
  Of,          \* the artifact of an upload
  FirstOf,     \* the upload that creates an artifact
  ContentOf,   \* the declared digest
  Clients,     \* requests in progress
  Reaper,
  NoUpload

ASSUME UploadConstants ==
  /\ Archives \subseteq Uploads /\ Restores \subseteq Uploads \ Archives
  /\ Of \in [Uploads -> Artifacts] /\ FirstOf \in [Artifacts -> Uploads]
  /\ \A a \in Artifacts : Of[FirstOf[a]] = a /\ FirstOf[a] \notin Restores
  /\ ContentOf \in [Uploads -> Contents]
  /\ NoUpload \notin Uploads /\ Reaper \notin Clients

VARIABLES
  upload,     \* artifact_uploads
  version,    \* artifact_versions: status
  artifact,   \* artifact_artifacts
  blob,       \* artifact_blobs: the digests that have a row
  multipart,  \* provider uploads, with the parts they hold
  staging,    \* objects at staging keys
  object,     \* objects at content keys
  call        \* requests and the reaper, between two steps

rows == <<upload, version, artifact, blob>>
storage == <<multipart, staging, object>>
vars == <<rows, storage, call>>

-----------------------------------------------------------------------------
Active == {"initialized", "uploading", "completing", "verifying"}
Confirming == {"completing", "verifying"}
Ended == {"aborted", "expired"}
Gone == {"absent", "deleted"}

Upload == [status : Active \cup Ended \cup Gone \cup {"completed", "failed"},
           session : {"open", "over"},     \* expires_at
           lease : {"live", "over"},       \* updated_at, against the lease of a confirmation
           provider : {"live", "aborted", "synthetic"}]
VersionStatus == {"pending_upload", "verifying", "available", "failed"} \cup Gone
Artifact == [status : {"pending_upload", "verifying", "available", "failed", "trashed"} \cup Gone,
             current : Uploads \cup {NoUpload}]

Bytes == {"good", "bad"}
Processes == Clients \cup {Reaper}
Cleaning == {"abort_multipart", "delete_staging", "mark_aborted"}
Phases == Cleaning \cup
  {"idle", "create", "link", "put", "begin", "list", "reject", "complete", "verifying",
   "verify", "promote", "recheck", "finalize", "fail", "discard", "abort", "expire"}
Call == [pc : Phases,
         u : Uploads \cup {NoUpload},
         again : BOOLEAN,                  \* a confirmation that takes over another
         seen : {"missing"} \cup Bytes,    \* the parts it has listed
         todo : SUBSET Uploads]            \* the rest of the reaper's batch

Idle == [pc |-> "idle", u |-> NoUpload, again |-> FALSE, seen |-> "missing", todo |-> {}]

Init ==
  /\ upload = [u \in Uploads |-> [status |-> "absent", session |-> "open", lease |-> "live",
                                  provider |-> "live"]]
  /\ version = [u \in Uploads |-> "absent"]
  /\ artifact = [a \in Artifacts |-> [status |-> "absent", current |-> NoUpload]]
  /\ blob = {}
  /\ multipart = [u \in Uploads |-> "none"]
  /\ staging = [u \in Uploads |-> "none"]
  /\ object = [d \in Contents |-> "none"]
  /\ call = [c \in Processes |-> Idle]

-----------------------------------------------------------------------------
(* Rows.                                                                   *)

IsActive(u) == upload[u].status \in Active
IsExpired(u) == IsActive(u) /\ upload[u].session = "over"
References(d) == {u \in Uploads : version[u] = "available" /\ ContentOf[u] = d}

\* Mutants of Settable: without the CHECK on aborted_at, and without the
\* guard on completed uploads.
SettableUnchecked(u, status) == upload[u].status \notin Gone \cup {"completed"}
SettableAlways(u, status) ==
  upload[u].status \notin Gone /\ (upload[u].status \in Ended => status \in Ended)

\* A row that is completed does not match; one that has aborted_at cannot get
\* another status than aborted or expired.
Settable(u, status) ==
  /\ upload[u].status \notin Gone \cup {"completed"}
  /\ upload[u].status \in Ended => status \in Ended

StatusOfVersion(status) ==
  CASE status = "uploading" -> "pending_upload"
    [] status = "verifying" -> "verifying"
    [] OTHER -> "failed"

\* The version follows unless it is available, the artifact if this is its
\* current version.
SetUploadStatus(u, status) ==
  LET s == StatusOfVersion(status)
      a == Of[u] IN
  /\ Settable(u, status)
  /\ upload' = [upload EXCEPT ![u].status = status, ![u].lease = "live"]
  /\ version' = IF version[u] = "available" THEN version ELSE [version EXCEPT ![u] = s]
  /\ artifact' = IF artifact[a].current = u /\ artifact[a].status # "trashed"
                 THEN [artifact EXCEPT ![a].status = s] ELSE artifact
  /\ UNCHANGED blob

MarkUploading(u) ==
  upload' = [upload EXCEPT ![u].status = IF @ = "initialized" THEN "uploading" ELSE @]

Confirmable(u) ==
  \/ upload[u].status \in {"initialized", "uploading"}
  \/ upload[u].status \in Confirming /\ upload[u].lease = "over"

BeginConfirm(u) ==
  /\ Confirmable(u)
  /\ upload' = [upload EXCEPT ![u].status = "completing", ![u].lease = "live"]
  /\ UNCHANGED <<version, artifact, blob>>

Finalizable(u) ==
  /\ version[u] \in {"pending_upload", "verifying"}
  /\ artifact[Of[u]].status # "trashed"
  /\ upload[u].status \in Confirming

FinalizeUpload(u) ==
  /\ Finalizable(u)
  /\ blob' = blob \cup {ContentOf[u]}
  /\ version' = [version EXCEPT ![u] = "available"]
  /\ artifact' = [artifact EXCEPT ![Of[u]] = [status |-> "available", current |-> u]]
  /\ upload' = [upload EXCEPT ![u].status = "completed", ![u].lease = "live"]

-----------------------------------------------------------------------------
(* Steps of a request.                                                     *)

At(c, pc) == call[c].pc = pc
Goto(c, pc) == call' = [call EXCEPT ![c].pc = pc]
Start(c, pc, u, again) ==
  /\ At(c, "idle")
  /\ call' = [call EXCEPT ![c] = [Idle EXCEPT !.pc = pc, !.u = u, !.again = again]]
\* Mutant of Return.
ReturnKeeping(c) == Goto(c, "idle")
Return(c) == call' = [call EXCEPT ![c] = Idle]

\* An error, a client that gives up, or a crash of the process.
Abandon(c) ==
  /\ ~At(c, "idle")
  /\ Return(c) /\ UNCHANGED <<rows, storage>>

-----------------------------------------------------------------------------
(* Initialisation.                                                         *)

IsFirst(u) == FirstOf[Of[u]] = u

\* An upload that a key already names is returned as it is; an archive is
\* refused unless that upload is completed.  FindBlob, and Stat of its object:
\* a blob without its object is an error.
Prepare(c, u) ==
  /\ upload[u].status = "absent" /\ u \notin Restores
  /\ IF ContentOf[u] \in blob THEN object[ContentOf[u]] # "none" /\ Start(c, "link", u, FALSE)
                              ELSE Start(c, "create", u, FALSE)
  /\ UNCHANGED <<rows, storage>>

\* The key is unique, the artifact of a further version is available.
Creatable(u) ==
  /\ upload[u].status = "absent"
  /\ IsFirst(u) \/ artifact[Of[u]].status = "available"

Create(c) ==
  LET u == call[c].u
      a == Of[u] IN
  /\ At(c, "create") /\ Creatable(u)
  /\ upload' = [upload EXCEPT ![u].status = "initialized"]
  /\ version' = [version EXCEPT ![u] = "pending_upload"]
  /\ artifact' = IF IsFirst(u)
                 THEN [artifact EXCEPT ![a] = [status |-> "pending_upload", current |-> u]]
                 ELSE artifact
  /\ multipart' = [multipart EXCEPT ![u] = "missing"]
  /\ IF u \in Archives THEN Goto(c, "put") ELSE Return(c)
  /\ UNCHANGED <<blob, staging, object>>

MakeAvailable(u) ==
  /\ upload' = [upload EXCEPT ![u].status = "completed", ![u].provider = "synthetic"]
  /\ version' = [version EXCEPT ![u] = "available"]
  /\ artifact' = [artifact EXCEPT ![Of[u]] = [status |-> "available", current |-> u]]
  /\ UNCHANGED blob

\* Mutant of Linkable: no foreign key from versions to blobs.
LinkableUnchecked(u) == TRUE

\* The foreign key holds the row of the blob, or refuses the version.
Linkable(u) == ContentOf[u] \in blob

\* A deduplicated upload is completed from the start.
Link(c) ==
  LET u == call[c].u IN
  /\ At(c, "link") /\ Creatable(u) /\ Linkable(u)
  /\ MakeAvailable(u)
  /\ Return(c) /\ UNCHANGED storage

RestoreVersion(u, source) ==
  /\ upload[u].status = "absent" /\ u \in Restores
  /\ Of[source] = Of[u] /\ ContentOf[source] = ContentOf[u]
  /\ artifact[Of[u]].status = "available" /\ version[source] = "available"
  /\ MakeAvailable(u)
  /\ UNCHANGED <<storage, call>>

\* Parts are signed, and then put into storage.
SignParts(u) ==
  /\ upload[u].status = "initialized" /\ ~IsExpired(u) /\ u \notin Archives
  /\ MarkUploading(u)
  /\ UNCHANGED <<version, artifact, blob, storage, call>>

PutPart(u, bytes) ==
  /\ multipart[u] # "none" /\ upload[u].status # "initialized" /\ u \notin Archives
  /\ multipart' = [multipart EXCEPT ![u] = bytes]
  /\ UNCHANGED <<rows, staging, object, call>>

\* An archive has checked its input before; it neither confirms nor recovers.
ArchivePut(c) ==
  LET u == call[c].u IN
  /\ At(c, "put") /\ multipart[u] # "none"
  /\ multipart' = [multipart EXCEPT ![u] = "good"]
  /\ MarkUploading(u)
  /\ call' = [call EXCEPT ![c].pc = "complete", ![c].seen = "good"]
  /\ UNCHANGED <<version, artifact, blob, staging, object>>

-----------------------------------------------------------------------------
(* Confirm.                                                                *)

Confirm(c, u) ==
  /\ IsActive(u) /\ ~IsExpired(u) /\ u \notin Archives
  /\ Start(c, "begin", u, upload[u].status \in Confirming)
  /\ UNCHANGED <<rows, storage>>

Begin(c) ==
  LET u == call[c].u IN
  /\ At(c, "begin")
  /\ BeginConfirm(u)
  /\ Goto(c, "list")
  /\ UNCHANGED storage

\* confirmProviderParts and compareSubmittedParts; parts may differ from those
\* the client submits.  Without a provider upload, a confirmation that takes
\* over goes on with what the other has left.
List(c) ==
  LET u == call[c].u IN
  /\ At(c, "list")
  /\ \/ /\ multipart[u] # "none"
        /\ \/ /\ multipart[u] # "missing"
              /\ call' = [call EXCEPT ![c].pc = "complete", ![c].again = FALSE,
                                      ![c].seen = multipart[u]]
           \/ Goto(c, "reject")
     \/ /\ multipart[u] = "none" /\ call[c].again
        /\ staging[u] # "none" \/ object[ContentOf[u]] # "none"
        /\ Goto(c, "verifying")
  /\ UNCHANGED <<rows, storage>>

\* The client may send the right parts later.
Reject(c) ==
  /\ At(c, "reject")
  /\ SetUploadStatus(call[c].u, "uploading")
  /\ Return(c) /\ UNCHANGED storage

\* Storage refuses parts that were put again since they were listed.
Complete(c) ==
  LET u == call[c].u IN
  /\ At(c, "complete") /\ multipart[u] = call[c].seen
  /\ multipart' = [multipart EXCEPT ![u] = "none"]
  /\ staging' = [staging EXCEPT ![u] = call[c].seen]
  /\ Goto(c, "verifying")
  /\ UNCHANGED <<rows, object>>

Verifying(c) ==
  /\ At(c, "verifying")
  /\ SetUploadStatus(call[c].u, "verifying")
  /\ Goto(c, "verify")
  /\ UNCHANGED storage

\* Mutant of Accepted: what another confirmation completed is trusted.
AcceptedAgain(c, bytes) == bytes = "good" \/ call[c].again

\* verifyObject: size and SHA-256 of what is read.
Accepted(c, bytes) == bytes = "good"

\* failVerification only for a confirmation.
Refuse(c) == IF call[c].u \in Archives THEN Return(c) ELSE Goto(c, "fail")

\* What has been promoted already is verified at its content key.
Verify(c) ==
  LET u == call[c].u
      promoted == call[c].again /\ staging[u] = "none"
      bytes == IF promoted THEN object[ContentOf[u]] ELSE staging[u] IN
  /\ At(c, "verify") /\ bytes # "none"
  /\ IF Accepted(c, bytes) THEN Goto(c, IF promoted THEN "finalize" ELSE "promote")
                           ELSE Refuse(c)
  /\ UNCHANGED <<rows, storage>>

\* A copy, and then the removal of the source, which may fail.
Promote(c) ==
  LET u == call[c].u
      d == ContentOf[u] IN
  /\ At(c, "promote")
  /\ \/ /\ object[d] # "none"
        /\ Goto(c, "recheck") /\ UNCHANGED <<staging, object>>
     \/ /\ object[d] = "none" /\ staging[u] # "none"
        /\ object' = [object EXCEPT ![d] = staging[u]]
        /\ \/ staging' = [staging EXCEPT ![u] = "none"] /\ Goto(c, "finalize")
           \/ UNCHANGED staging /\ Return(c)
  /\ UNCHANGED <<rows, multipart>>

\* The content is there: it is verified in place of the staging object.
Recheck(c) ==
  LET u == call[c].u
      bytes == object[ContentOf[u]] IN
  /\ At(c, "recheck") /\ bytes # "none"
  /\ IF Accepted(c, bytes)
     THEN staging' = [staging EXCEPT ![u] = "none"] /\ Goto(c, "finalize")
     ELSE UNCHANGED staging /\ Refuse(c)
  /\ UNCHANGED <<rows, multipart, object>>

Finalize(c) ==
  /\ At(c, "finalize")
  /\ FinalizeUpload(call[c].u)
  /\ Return(c) /\ UNCHANGED storage

\* failVerification goes on to the object when the row does not match.
Fail(c) ==
  /\ At(c, "fail")
  /\ \/ SetUploadStatus(call[c].u, "failed")
     \/ ~Settable(call[c].u, "failed") /\ UNCHANGED rows
  /\ Goto(c, "discard")
  /\ UNCHANGED storage

Discard(c) ==
  /\ At(c, "discard")
  /\ staging' = [staging EXCEPT ![call[c].u] = "none"]
  /\ Return(c) /\ UNCHANGED <<rows, multipart, object>>

ConfirmStep(c) ==
  \/ \E u \in Uploads : Confirm(c, u)
  \/ Begin(c) \/ List(c) \/ Reject(c) \/ Complete(c) \/ Verifying(c)
  \/ Verify(c) \/ Promote(c) \/ Recheck(c) \/ Finalize(c) \/ Fail(c) \/ Discard(c)

-----------------------------------------------------------------------------
(* Abort and expiry.                                                       *)

\* An upload that has ended is cleaned again unless that is on record.
Abort(c, u) ==
  /\ u \notin Archives
  /\ \/ upload[u].status \in {"initialized", "uploading"} /\ Start(c, "abort", u, FALSE)
     \/ /\ upload[u].status \in Ended /\ upload[u].provider = "live"
        /\ Start(c, "abort_multipart", u, FALSE)
  /\ UNCHANGED <<rows, storage>>

\* Any request that reads a session after its end.
Expire(c, u) ==
  /\ IsExpired(u) /\ u \notin Archives
  /\ Start(c, "expire", u, FALSE)
  /\ UNCHANGED <<rows, storage>>

End(c) ==
  /\ \/ At(c, "abort") /\ SetUploadStatus(call[c].u, "aborted")
     \/ At(c, "expire") /\ SetUploadStatus(call[c].u, "expired")
  /\ Goto(c, "abort_multipart")
  /\ UNCHANGED storage

\* The reaper ends the sessions only; versions and artifacts stay as they are.
ExpireUploads(batch) ==
  /\ batch \subseteq {u \in Uploads : IsExpired(u)}
  /\ upload' = [u \in Uploads |-> IF u \in batch THEN [upload[u] EXCEPT !.status = "expired"]
                                                 ELSE upload[u]]
  /\ UNCHANGED <<version, artifact, blob>>

CleanNext(c, u, todo) ==
  call' = [call EXCEPT ![c] = [Idle EXCEPT !.pc = "abort_multipart", !.u = u, !.todo = todo \ {u}]]

Reap(u, batch) ==
  /\ At(Reaper, "idle") /\ u \in batch
  /\ ExpireUploads(batch)
  /\ CleanNext(Reaper, u, batch)
  /\ UNCHANGED storage

AbortMultipart(c) ==
  /\ At(c, "abort_multipart")
  /\ multipart' = [multipart EXCEPT ![call[c].u] = "none"]
  /\ Goto(c, "delete_staging")
  /\ UNCHANGED <<rows, staging, object>>

DeleteStaging(c) ==
  /\ At(c, "delete_staging")
  /\ staging' = [staging EXCEPT ![call[c].u] = "none"]
  /\ Goto(c, "mark_aborted")
  /\ UNCHANGED <<rows, multipart, object>>

\* The next upload of the batch, also after an error.
Proceed(c) ==
  IF call[c].todo = {} THEN Return(c) ELSE \E u \in call[c].todo : CleanNext(c, u, call[c].todo)

MarkProviderAborted(c) ==
  LET u == call[c].u IN
  /\ At(c, "mark_aborted")
  /\ upload' = IF upload[u].status \in Ended THEN [upload EXCEPT ![u].provider = "aborted"]
                                             ELSE upload
  /\ Proceed(c)
  /\ UNCHANGED <<version, artifact, blob, storage>>

CleanFails(c) ==
  /\ call[c].pc \in Cleaning
  /\ Proceed(c) /\ UNCHANGED <<rows, storage>>

CleanStep(c) ==
  End(c) \/ AbortMultipart(c) \/ DeleteStaging(c) \/ MarkProviderAborted(c) \/ CleanFails(c)

-----------------------------------------------------------------------------
(* The trash.                                                              *)

Trash(a) ==
  /\ artifact[a].status = "available"
  /\ \A u \in Uploads : Of[u] = a => ~IsActive(u)
  /\ artifact' = [artifact EXCEPT ![a].status = "trashed"]
  /\ UNCHANGED <<upload, version, blob, storage, call>>

Restore(a) ==
  /\ artifact[a].status = "trashed"
  /\ artifact' = [artifact EXCEPT ![a].status = "available"]
  /\ UNCHANGED <<upload, version, blob, storage, call>>

\* Mutant of Removable: the blobs of the versions, whoever refers to them.
RemovableAnyway(a) == {d \in Contents : \E u \in References(d) : Of[u] = a}

\* Blobs of the artifact that nothing refers to when its versions are gone.
Removable(a) == {d \in Contents : /\ References(d) # {}
                                  /\ \A u \in References(d) : Of[u] = a}

\* Objects are deleted inside the transaction.
Purge(a) ==
  /\ artifact[a].status = "trashed"
  /\ artifact' = [artifact EXCEPT ![a] = [status |-> "deleted", current |-> NoUpload]]
  /\ version' = [u \in Uploads |-> IF Of[u] = a /\ version[u] # "absent" THEN "deleted" ELSE version[u]]
  /\ upload' = [u \in Uploads |-> IF Of[u] = a /\ upload[u].status # "absent"
                                  THEN [upload[u] EXCEPT !.status = "deleted"] ELSE upload[u]]
  /\ blob' = blob \ Removable(a)
  /\ object' = [d \in Contents |-> IF d \in Removable(a) THEN "none" ELSE object[d]]
  /\ UNCHANGED <<multipart, staging, call>>

\* The transaction is rolled back, what it has deleted stays deleted.
PurgeFails(a, removed) ==
  /\ artifact[a].status = "trashed"
  /\ removed \subseteq Removable(a)
  /\ object' = [d \in Contents |-> IF d \in removed THEN "none" ELSE object[d]]
  /\ UNCHANGED <<rows, multipart, staging, call>>

-----------------------------------------------------------------------------
(* Clocks.                                                                 *)

SessionEnds(u) ==
  /\ IsActive(u) /\ upload[u].session = "open"
  /\ upload' = [upload EXCEPT ![u].session = "over"]
  /\ UNCHANGED <<version, artifact, blob, storage, call>>

LeaseEnds(u) ==
  /\ upload[u].status \in Confirming /\ upload[u].lease = "live"
  /\ upload' = [upload EXCEPT ![u].lease = "over"]
  /\ UNCHANGED <<version, artifact, blob, storage, call>>

-----------------------------------------------------------------------------
ClientStep(c) ==
  \/ \E u \in Uploads : Prepare(c, u) \/ Abort(c, u) \/ Expire(c, u)
  \/ Create(c) \/ Link(c) \/ ArchivePut(c) \/ ConfirmStep(c) \/ CleanStep(c) \/ Abandon(c)

ReaperStep ==
  \/ \E batch \in SUBSET Uploads : \E u \in batch : Reap(u, batch)
  \/ CleanStep(Reaper) \/ Abandon(Reaper)

Next ==
  \/ \E c \in Clients : ClientStep(c)
  \/ ReaperStep
  \/ \E u \in Uploads : \/ SignParts(u) \/ SessionEnds(u) \/ LeaseEnds(u)
                        \/ \E bytes \in Bytes : PutPart(u, bytes)
                        \/ \E source \in Uploads : RestoreVersion(u, source)
  \/ \E a \in Artifacts : \/ Trash(a) \/ Restore(a) \/ Purge(a)
                          \/ \E removed \in SUBSET Contents : PurgeFails(a, removed)

Spec == Init /\ [][Next]_vars

-----------------------------------------------------------------------------
(* Properties.                                                             *)

\* Every variable has its type; a request that is in progress names its upload.
UTypeOK ==
  /\ upload \in [Uploads -> Upload]
  /\ version \in [Uploads -> VersionStatus]
  /\ artifact \in [Artifacts -> Artifact]
  /\ blob \subseteq Contents
  /\ multipart \in [Uploads -> {"none", "missing"} \cup Bytes]
  /\ staging \in [Uploads -> {"none"} \cup Bytes]
  /\ object \in [Contents -> {"none"} \cup Bytes]
  /\ call \in [Processes -> Call]
  /\ \A c \in Processes : call[c].u = NoUpload <=> At(c, "idle")

\* The rows of the four tables agree, whatever requests, reaper and trash do to
\* them at once: a version is available exactly when its upload is completed; it
\* then has a blob, and a blob has a version; its artifact is available or in
\* the trash, and the current version of such an artifact is available.
RowsAgree ==
  /\ \A u \in Uploads :
       /\ upload[u].status = "completed" <=> version[u] = "available"
       /\ version[u] = "available" => artifact[Of[u]].status \in {"available", "trashed"}
  /\ blob = {d \in Contents : References(d) # {}}
  /\ \A a \in Artifacts : artifact[a].status \in {"available", "trashed"} =>
       artifact[a].current \in Uploads /\ version[artifact[a].current] = "available"

\* Nothing but the declared bytes is ever found at a content key, although
\* clients may put any bytes, confirmations take over from one another, and
\* uploads of the same content promote to the same key.
ContentIsVerified == \A d \in Contents : object[d] # "bad"

\* An upload that was aborted or has expired never comes back, although
\* confirmations that began before go on.
EndIsFinal ==
  [][\A u \in Uploads : upload[u].status \in Ended =>
       upload'[u].status \in Ended \cup {"deleted"}]_vars

\* A confirmed version stays until its artifact is purged from the trash: late
\* aborts, expiries and failed verifications do not touch it or its artifact.
ConfirmedIsUntouched ==
  [][\A u \in Uploads : version[u] = "available" =>
       LET before == artifact[Of[u]].status
           after == artifact'[Of[u]].status IN
       \/ version'[u] = "available" /\ after \in {"available", "trashed"}
       \/ version'[u] = "deleted" /\ before = "trashed" /\ after = "deleted"]_vars

\* Content is deleted only when every version that refers to it is in the
\* trash: a purge leaves what other artifacts share.
SharedBytesAreKept ==
  [][\A d \in Contents : object[d] # "none" /\ object'[d] = "none" =>
       \A u \in References(d) : artifact[Of[u]].status = "trashed"]_vars

\* What src/docs/adr/0002-artifact-multipart-storage.md says of versions: those
\* of an artifact that is not in the trash have their bytes.
VersionsAreRetained ==
  \A u \in Uploads :
    version[u] = "available" /\ artifact[Of[u]].status = "available" => object[ContentOf[u]] = "good"

-----------------------------------------------------------------------------
(* The promise to those who use artifacts.                                 *)

FateOf(status) ==
  CASE status = "absent"    -> "none"
    [] status \in Active    -> "open"
    [] status \in Ended     -> "ended"
    [] status = "completed" -> "kept"
    [] status = "deleted"   -> "purged"
    [] OTHER                -> "failed"

PlaceOf(status) ==
  CASE status = "available" -> "shown"
    [] status = "trashed"   -> "trashed"
    [] status = "deleted"   -> "purged"
    [] OTHER                -> "none"

Fates == [u \in Uploads |-> FateOf(upload[u].status)]
Places == [a \in Artifacts |-> PlaceOf(artifact[a].status)]
Currents == [a \in Artifacts |-> IF artifact[a].status \in {"available", "trashed"}
                                 THEN artifact[a].current ELSE NoUpload]

Shelf == INSTANCE VersionShelf
         WITH Versions <- Uploads, ArtifactOf <- Of, NoVersion <- NoUpload,
              fate <- Fates, shelf <- Places, current <- Currents

\* Every step of requests, reaper and trash is a step of the shelf of versions
\* or none at all: what is confirmed is kept and is what one sees, what has
\* ended stays so, and nothing is trashed while a version of it is on its way.
VersionsAreKept == Shelf!ShelfSpec
=============================================================================
