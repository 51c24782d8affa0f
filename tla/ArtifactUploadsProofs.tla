----------------------- MODULE ArtifactUploadsProofs -----------------------
(***************************************************************************)
(* Proofs about ArtifactUploads for any uploads, artifacts, contents and   *)
(* requests.  The argument: a few kinds of change are made to the rows,    *)
(* whichever request makes them, and each keeps the tables in agreement;   *)
(* a staging object is written once, by the step that ends its multipart   *)
(* upload, so what was verified is what is promoted.                       *)
(***************************************************************************)
EXTENDS ArtifactUploads, TLAPS

RowTypes ==
  /\ upload \in [Uploads -> Upload]
  /\ version \in [Uploads -> VersionStatus]
  /\ artifact \in [Artifacts -> Artifact]
  /\ blob \subseteq Contents

StorageTypes ==
  /\ multipart \in [Uploads -> {"none", "missing"} \cup Bytes]
  /\ staging \in [Uploads -> {"none"} \cup Bytes]
  /\ object \in [Contents -> {"none"} \cup Bytes]

CallTypes ==
  /\ call \in [Processes -> Call]
  /\ \A c \in Processes : call[c].u = NoUpload <=> At(c, "idle")

\* The first version of an artifact is there before the artifact and the others.
FirstIsPresent ==
  \A a \in Artifacts : upload[FirstOf[a]].status = "absent" =>
    /\ artifact[a].status = "absent" /\ artifact[a].current = NoUpload
    /\ \A u \in Uploads : Of[u] = a => upload[u].status = "absent"

CurrentIsOwn ==
  \A a \in Artifacts : artifact[a].current # NoUpload => Of[artifact[a].current] = a

\* Nothing is added to an artifact that was purged.
PurgedIsEmpty ==
  \A u \in Uploads : artifact[Of[u]].status = "deleted" => upload[u].status \in Gone

\* A staging object and an open multipart upload exclude one another.
StagingIsWrittenOnce ==
  \A u \in Uploads :
    /\ staging[u] # "none" => multipart[u] = "none" /\ upload[u].status # "absent"
    /\ upload[u].status = "absent" => multipart[u] = "none"

\* What a request knows of the storage when it writes to it.
CallOK(c) ==
  LET u == call[c].u IN
  /\ At(c, "complete") => call[c].seen \in Bytes
  /\ At(c, "promote") =>
       upload[u].status # "absent" /\ multipart[u] = "none" /\ staging[u] \in {"none", "good"}

UInv ==
  /\ RowTypes /\ StorageTypes /\ CallTypes
  /\ RowsAgree /\ FirstIsPresent /\ CurrentIsOwn /\ PurgedIsEmpty
  /\ StagingIsWrittenOnce /\ ContentIsVerified
  /\ \A c \in Processes : CallOK(c)

THEOREM UInit == Init => UInv
<1> SUFFICES ASSUME Init PROVE UInv
  OBVIOUS
<1> USE UploadConstants DEF Init, Idle, At
<1>1. RowTypes
  BY DEF RowTypes, Upload, VersionStatus, Artifact, Gone
<1>2. StorageTypes
  BY DEF StorageTypes
<1>3. CallTypes
  BY DEF CallTypes, Call, Phases
<1>4. RowsAgree /\ FirstIsPresent /\ CurrentIsOwn /\ PurgedIsEmpty
  BY DEF RowsAgree, FirstIsPresent, CurrentIsOwn, PurgedIsEmpty, References
<1>5. StagingIsWrittenOnce /\ ContentIsVerified
  BY DEF StagingIsWrittenOnce, ContentIsVerified
<1>6. \A c \in Processes : CallOK(c)
  BY DEF CallOK
<1> QED
  BY <1>1, <1>2, <1>3, <1>4, <1>5, <1>6 DEF UInv

-----------------------------------------------------------------------------
(* What a step does to the control state of a process.                     *)

LEMMA GotoKeepsTypes ==
  ASSUME CallTypes, NEW c \in Processes, NEW pc \in Phases \ {"idle"}, ~At(c, "idle"), Goto(c, pc)
  PROVE  /\ CallTypes'
         /\ call'[c].pc = pc /\ call'[c].u = call[c].u
         /\ \A b \in Processes \ {c} : call'[b] = call[b]
<1>1. call' = [call EXCEPT ![c].pc = pc]
  BY DEF Goto
<1>2. call' \in [Processes -> Call]
  BY <1>1 DEF CallTypes, Call
<1> QED
  BY <1>1, <1>2 DEF CallTypes, At, Call

LEMMA StartKeepsTypes ==
  ASSUME CallTypes, NEW c \in Processes, NEW pc \in Phases \ {"idle"}, NEW u \in Uploads,
         NEW again \in BOOLEAN, Start(c, pc, u, again)
  PROVE  /\ CallTypes'
         /\ call'[c].pc = pc /\ call'[c].u = u
         /\ \A b \in Processes \ {c} : call'[b] = call[b]
<1>1. call' = [call EXCEPT ![c] = [Idle EXCEPT !.pc = pc, !.u = u, !.again = again]]
  BY DEF Start
<1>2. [Idle EXCEPT !.pc = pc, !.u = u, !.again = again] \in Call
  BY DEF Idle, Call
<1>3. call' \in [Processes -> Call]
  BY <1>1, <1>2 DEF CallTypes
<1> QED
  BY <1>1, <1>3, UploadConstants DEF CallTypes, At, Idle

LEMMA ReturnKeepsTypes ==
  ASSUME CallTypes, NEW c \in Processes, Return(c)
  PROVE  /\ CallTypes'
         /\ call'[c] = Idle
         /\ \A b \in Processes \ {c} : call'[b] = call[b]
<1>1. call' = [call EXCEPT ![c] = Idle]
  BY DEF Return
<1>2. Idle \in Call
  BY DEF Idle, Call, Phases
<1>3. call' \in [Processes -> Call]
  BY <1>1, <1>2 DEF CallTypes
<1> QED
  BY <1>1, <1>3 DEF CallTypes, At, Idle

LEMMA CleanNextKeepsTypes ==
  ASSUME CallTypes, NEW c \in Processes, NEW u \in Uploads, NEW todo \in SUBSET Uploads,
         CleanNext(c, u, todo)
  PROVE  /\ CallTypes'
         /\ call'[c].pc = "abort_multipart"
         /\ \A b \in Processes \ {c} : call'[b] = call[b]
<1> DEFINE k == [Idle EXCEPT !.pc = "abort_multipart", !.u = u, !.todo = todo \ {u}]
<1>1. call' = [call EXCEPT ![c] = k]
  BY DEF CleanNext
<1>2. k \in Call
  BY DEF Idle, Call, Phases, Cleaning
<1>3. k.u = u /\ k.pc = "abort_multipart"
  BY DEF Idle
<1> HIDE DEF k
<1>4. call' \in [Processes -> Call]
  BY <1>1, <1>2 DEF CallTypes
<1> QED
  BY <1>1, <1>3, <1>4, UploadConstants DEF CallTypes, At

LEMMA ProceedKeepsTypes ==
  ASSUME CallTypes, NEW c \in Processes, Proceed(c)
  PROVE  /\ CallTypes'
         /\ call'[c].pc \in {"idle", "abort_multipart"}
         /\ \A b \in Processes \ {c} : call'[b] = call[b]
<1>1. call[c].todo \in SUBSET Uploads
  BY DEF CallTypes, Call
<1>2. CASE call[c].todo = {}
  <2>1. Return(c)
    BY <1>2 DEF Proceed
  <2> QED
    BY <2>1, ReturnKeepsTypes DEF Idle
<1>3. CASE call[c].todo # {}
  <2>1. PICK u \in call[c].todo : CleanNext(c, u, call[c].todo)
    BY <1>3 DEF Proceed
  <2> QED
    BY <1>1, <2>1, CleanNextKeepsTypes
<1> QED
  BY <1>2, <1>3

-----------------------------------------------------------------------------
(* What a step does to the rows: seven kinds of change.                    *)

\* Times, leases and the progress of a session.
Touches ==
  /\ upload' \in [Uploads -> Upload]
  /\ \A u \in Uploads :
       \/ upload'[u].status = upload[u].status
       \/ upload[u].status \in Active /\ upload'[u].status \in (Active \cup Ended) \ {"absent"}
  /\ UNCHANGED <<version, artifact, blob>>

CreatesRows(u) ==
  /\ Creatable(u)
  /\ upload' = [upload EXCEPT ![u].status = "initialized"]
  /\ version' = [version EXCEPT ![u] = "pending_upload"]
  /\ artifact' = IF IsFirst(u)
                 THEN [artifact EXCEPT ![Of[u]] = [status |-> "pending_upload", current |-> u]]
                 ELSE artifact
  /\ UNCHANGED blob

Toggles(a) ==
  /\ \/ /\ artifact[a].status = "available" /\ \A u \in Uploads : Of[u] = a => ~IsActive(u)
        /\ artifact' = [artifact EXCEPT ![a].status = "trashed"]
     \/ artifact[a].status = "trashed" /\ artifact' = [artifact EXCEPT ![a].status = "available"]
  /\ UNCHANGED <<upload, version, blob>>

Purges(a) ==
  /\ artifact[a].status = "trashed"
  /\ artifact' = [artifact EXCEPT ![a] = [status |-> "deleted", current |-> NoUpload]]
  /\ version' = [u \in Uploads |-> IF Of[u] = a /\ version[u] # "absent" THEN "deleted" ELSE version[u]]
  /\ upload' = [u \in Uploads |-> IF Of[u] = a /\ upload[u].status # "absent"
                                  THEN [upload[u] EXCEPT !.status = "deleted"] ELSE upload[u]]
  /\ blob' = blob \ Removable(a)

RowStep ==
  \/ Touches
  \/ \E u \in Uploads : \/ \E status \in {"uploading", "verifying", "failed"} \cup Ended :
                              SetUploadStatus(u, status)
                        \/ CreatesRows(u)
                        \/ Creatable(u) /\ Linkable(u) /\ MakeAvailable(u)
                        \/ FinalizeUpload(u)
  \/ \E a \in Artifacts : Toggles(a) \/ Purges(a)

RowsInv == RowTypes /\ RowsAgree /\ FirstIsPresent /\ CurrentIsOwn /\ PurgedIsEmpty

\* A row of an upload stays, at least as a deleted one.
RowsStay == \A u \in Uploads : upload[u].status # "absent" => upload'[u].status # "absent"

LEMMA TouchesKeepsRows ==
  ASSUME RowsInv, Touches
  PROVE  RowsInv' /\ RowsStay
<1> USE DEF RowsInv, Touches
<1>1. RowTypes'
  BY DEF RowTypes
<1>2. \A u \in Uploads : /\ upload'[u].status = "completed" <=> upload[u].status = "completed"
                         /\ upload'[u].status = "absent" <=> upload[u].status = "absent"
  BY DEF Active, Ended
<1>3. RowsAgree'
  <2>1. \A d : References(d)' = References(d)
    BY DEF References
  <2>2. version' = version /\ artifact' = artifact /\ blob' = blob
    OBVIOUS
  <2>3. blob' = {d \in Contents : References(d)' # {}}
    BY <2>1, <2>2 DEF RowsAgree
  <2>4. \A u \in Uploads : upload'[u].status = "completed" <=> version'[u] = "available"
    BY <1>2, <2>2 DEF RowsAgree
  <2> QED
    BY <2>2, <2>3, <2>4 DEF RowsAgree
<1>4. FirstIsPresent'
  BY <1>2, UploadConstants DEF FirstIsPresent
<1>5. CurrentIsOwn'
  BY DEF CurrentIsOwn
<1>6. PurgedIsEmpty'
  BY DEF PurgedIsEmpty, Active, Gone
<1> QED
  BY <1>1, <1>2, <1>3, <1>4, <1>5, <1>6 DEF RowsStay

LEMMA SettlingKeepsRows ==
  ASSUME RowsInv, NEW u \in Uploads,
         NEW status \in {"uploading", "verifying", "failed"} \cup Ended, SetUploadStatus(u, status)
  PROVE  RowsInv' /\ RowsStay
<1> USE UploadConstants DEF RowsInv
<1> DEFINE s == StatusOfVersion(status)
           a == Of[u]
<1>1. s \in {"pending_upload", "verifying", "failed"}
  BY DEF StatusOfVersion
<1>2. upload[u].status \notin {"absent", "completed"} /\ version[u] # "available"
  BY DEF SetUploadStatus, Settable, Gone, RowsAgree
<1>3. /\ upload' = [upload EXCEPT ![u].status = status, ![u].lease = "live"]
      /\ version' = [version EXCEPT ![u] = s]
      /\ artifact' = IF artifact[a].current = u /\ artifact[a].status # "trashed"
                     THEN [artifact EXCEPT ![a].status = s] ELSE artifact
      /\ blob' = blob
  BY <1>2 DEF SetUploadStatus
<1>4. artifact[a].current = u => artifact[a].status \notin {"available", "trashed"}
  BY <1>2 DEF RowsAgree
<1> HIDE DEF s
<1>5. upload'[u].status = status /\ \A v \in Uploads \ {u} : upload'[v] = upload[v]
  BY <1>3 DEF RowTypes, Upload
<1>6. RowTypes'
  <2>1. upload' \in [Uploads -> Upload]
    <3> DEFINE row == [upload[u] EXCEPT !.status = status, !.lease = "live"]
    <3>1. row \in Upload
      <4>1. upload[u] \in Upload
        BY DEF RowTypes
      <4> QED
        BY <4>1 DEF Upload, Active, Ended
    <3>2. upload' = [upload EXCEPT ![u] = row]
      BY <1>3 DEF RowTypes
    <3> QED
      BY <3>1, <3>2 DEF RowTypes
  <2>2. version' \in [Uploads -> VersionStatus]
    BY <1>1, <1>3 DEF RowTypes, VersionStatus
  <2>3. artifact' \in [Artifacts -> Artifact]
    BY <1>1, <1>3 DEF RowTypes, Artifact
  <2> QED
    BY <1>3, <2>1, <2>2, <2>3 DEF RowTypes
<1>7. status \notin {"absent", "completed"}
  BY DEF Ended
<1>8. \A v \in Uploads : version'[v] = "available" <=> version[v] = "available"
  BY <1>1, <1>2, <1>3 DEF RowTypes
<1>9. \A b \in Artifacts : /\ artifact'[b].current = artifact[b].current
                           /\ (artifact'[b].status \in {"available", "trashed"})
                                <=> (artifact[b].status \in {"available", "trashed"})
                           /\ artifact'[b].status = artifact[b].status \/ artifact[b].current = u
  BY <1>1, <1>3, <1>4 DEF RowTypes, Artifact
<1>10. RowsAgree'
  <2>1. \A d : References(d)' = References(d)
    BY <1>8 DEF References
  <2>2. blob' = {d \in Contents : References(d)' # {}}
    BY <1>3, <2>1 DEF RowsAgree
  <2>3. \A v \in Uploads : upload'[v].status = "completed" <=> version'[v] = "available"
    BY <1>2, <1>5, <1>7, <1>8 DEF RowsAgree
  <2>4. \A v \in Uploads : version'[v] = "available" =>
          artifact'[Of[v]].status \in {"available", "trashed"}
    BY <1>8, <1>9 DEF RowsAgree
  <2>5. \A b \in Artifacts : artifact'[b].status \in {"available", "trashed"} =>
          artifact'[b].current \in Uploads /\ version'[artifact'[b].current] = "available"
    BY <1>8, <1>9 DEF RowsAgree
  <2> QED
    BY <2>2, <2>3, <2>4, <2>5 DEF RowsAgree
<1>11. RowsStay
  BY <1>5, <1>7 DEF RowsStay
<1>12. FirstIsPresent'
  <2> SUFFICES ASSUME NEW b \in Artifacts, upload'[FirstOf[b]].status = "absent"
               PROVE  /\ artifact'[b].status = "absent" /\ artifact'[b].current = NoUpload
                      /\ \A v \in Uploads : Of[v] = b => upload'[v].status = "absent"
    BY DEF FirstIsPresent
  <2>1. upload[FirstOf[b]].status = "absent"
    BY <1>11 DEF RowsStay
  <2>2. /\ artifact[b].status = "absent" /\ artifact[b].current = NoUpload
        /\ \A v \in Uploads : Of[v] = b => upload[v].status = "absent"
    BY <2>1 DEF FirstIsPresent
  <2> QED
    BY <1>2, <1>5, <1>9, <2>2
<1>13. CurrentIsOwn'
  BY <1>9 DEF CurrentIsOwn
<1>14. PurgedIsEmpty'
  <2>1. upload[u].status \notin Gone
    BY DEF SetUploadStatus, Settable
  <2>2. \A b \in Artifacts : artifact'[b].status = "deleted" => artifact[b].status = "deleted"
    BY <1>1, <1>3 DEF RowTypes, Artifact
  <2> QED
    BY <1>5, <2>1, <2>2 DEF PurgedIsEmpty
<1> QED
  BY <1>6, <1>10, <1>11, <1>12, <1>13, <1>14

LEMMA CreatingKeepsRows ==
  ASSUME RowsInv, NEW u \in Uploads, CreatesRows(u)
  PROVE  RowsInv' /\ RowsStay
<1> USE UploadConstants DEF RowsInv, CreatesRows
<1> DEFINE new == [status |-> "pending_upload", current |-> u]
<1>1. upload[u].status = "absent" /\ version[u] # "available"
  BY DEF Creatable, RowsAgree
<1>2. IsFirst(u) => artifact[Of[u]].status = "absent"
  BY <1>1 DEF IsFirst, FirstIsPresent
<1>3. RowTypes'
  <2>1. new \in Artifact
    BY DEF Artifact
  <2>2. upload' \in [Uploads -> Upload]
    <3> DEFINE row == [upload[u] EXCEPT !.status = "initialized"]
    <3>1. upload[u] \in Upload
      BY DEF RowTypes
    <3>2. row \in Upload
      BY <3>1 DEF Upload, Active
    <3>3. upload' = [upload EXCEPT ![u] = row]
      BY DEF RowTypes
    <3> QED
      BY <3>2, <3>3 DEF RowTypes
  <2>3. version' \in [Uploads -> VersionStatus]
    BY DEF RowTypes, VersionStatus
  <2>4. artifact' \in [Artifacts -> Artifact]
    BY <2>1 DEF RowTypes
  <2> QED
    BY <2>2, <2>3, <2>4 DEF RowTypes
<1>4. /\ upload'[u].status = "initialized" /\ version'[u] = "pending_upload"
      /\ \A v \in Uploads \ {u} : upload'[v] = upload[v] /\ version'[v] = version[v]
  BY DEF RowTypes, Upload
<1>5. \A b \in Artifacts : \/ artifact'[b] = artifact[b]
                           \/ b = Of[u] /\ IsFirst(u) /\ artifact'[b].status = "pending_upload"
  BY DEF RowTypes
<1>6. RowsAgree'
  <2>1. \A d : References(d)' = References(d)
    BY <1>1, <1>4 DEF References
  <2>2. blob' = {d \in Contents : References(d)' # {}}
    BY <2>1 DEF RowsAgree
  <2>3. \A v \in Uploads : upload'[v].status = "completed" <=> version'[v] = "available"
    BY <1>4 DEF RowsAgree
  <2>4. \A v \in Uploads : version'[v] = "available" =>
          artifact'[Of[v]].status \in {"available", "trashed"}
    BY <1>2, <1>4, <1>5 DEF RowsAgree
  <2>5. \A b \in Artifacts : artifact'[b].status \in {"available", "trashed"} =>
          artifact'[b].current \in Uploads /\ version'[artifact'[b].current] = "available"
    BY <1>1, <1>4, <1>5 DEF RowsAgree
  <2> QED
    BY <2>2, <2>3, <2>4, <2>5 DEF RowsAgree
<1>7. RowsStay
  BY <1>4 DEF RowsStay
<1>8. FirstIsPresent'
  <2> SUFFICES ASSUME NEW b \in Artifacts, upload'[FirstOf[b]].status = "absent"
               PROVE  /\ artifact'[b].status = "absent" /\ artifact'[b].current = NoUpload
                      /\ \A v \in Uploads : Of[v] = b => upload'[v].status = "absent"
    BY DEF FirstIsPresent
  <2>1. FirstOf[b] # u /\ upload[FirstOf[b]].status = "absent"
    BY <1>4
  <2>2. /\ artifact[b].status = "absent" /\ artifact[b].current = NoUpload
        /\ \A v \in Uploads : Of[v] = b => upload[v].status = "absent"
    BY <2>1 DEF FirstIsPresent
  <2>3. b # Of[u]
    BY <2>1, <2>2 DEF Creatable, IsFirst
  <2> QED
    BY <1>4, <1>5, <2>2, <2>3
<1>9. CurrentIsOwn'
  BY DEF CurrentIsOwn, RowTypes
<1>10. PurgedIsEmpty'
  <2>1. IsFirst(u) \/ artifact[Of[u]].status = "available"
    BY DEF Creatable
  <2>2. artifact'[Of[u]].status # "deleted"
    BY <1>2, <1>5, <2>1 DEF RowTypes
  <2> QED
    BY <1>4, <1>5, <2>2 DEF PurgedIsEmpty
<1> QED
  BY <1>3, <1>6, <1>7, <1>8, <1>9, <1>10

\* A version that becomes available, of an upload that may have been absent.
LEMMA AvailableKeepsRows ==
  ASSUME RowsInv, NEW u \in Uploads,
         NEW row \in Upload, row.status = "completed",
         upload[u].status = "absent" =>
           IsFirst(u) \/ artifact[Of[u]].status = "available",
         upload' = [upload EXCEPT ![u] = row],
         version' = [version EXCEPT ![u] = "available"],
         artifact' = [artifact EXCEPT ![Of[u]] = [status |-> "available", current |-> u]],
         blob' = blob \cup {ContentOf[u]}
  PROVE  RowsInv' /\ RowsStay
<1> USE UploadConstants DEF RowsInv
<1> DEFINE new == [status |-> "available", current |-> u]
<1>1. RowTypes'
  <2>1. new \in Artifact
    BY DEF Artifact
  <2>2. version' \in [Uploads -> VersionStatus]
    BY DEF RowTypes, VersionStatus
  <2>3. artifact' \in [Artifacts -> Artifact]
    BY <2>1 DEF RowTypes
  <2> QED
    BY <2>2, <2>3 DEF RowTypes
<1>2. /\ upload'[u].status = "completed" /\ version'[u] = "available"
      /\ \A v \in Uploads \ {u} : upload'[v] = upload[v] /\ version'[v] = version[v]
  BY DEF RowTypes
<1>3. /\ artifact'[Of[u]] = new
      /\ \A b \in Artifacts \ {Of[u]} : artifact'[b] = artifact[b]
  BY DEF RowTypes
<1>4. RowsAgree'
  <2>1. \A d \in Contents : References(d)' # {} <=> (References(d) # {} \/ d = ContentOf[u])
    BY <1>2 DEF References
  <2>2. blob' = {d \in Contents : References(d)' # {}}
    BY <2>1 DEF RowsAgree
  <2>3. \A v \in Uploads : upload'[v].status = "completed" <=> version'[v] = "available"
    BY <1>2 DEF RowsAgree
  <2>4. \A v \in Uploads : version'[v] = "available" =>
          artifact'[Of[v]].status \in {"available", "trashed"}
    BY <1>2, <1>3 DEF RowsAgree
  <2>5. \A b \in Artifacts : artifact'[b].status \in {"available", "trashed"} =>
          artifact'[b].current \in Uploads /\ version'[artifact'[b].current] = "available"
    BY <1>2, <1>3 DEF RowsAgree
  <2> QED
    BY <2>2, <2>3, <2>4, <2>5 DEF RowsAgree
<1>5. RowsStay
  BY <1>2 DEF RowsStay
<1>6. FirstIsPresent'
  <2> SUFFICES ASSUME NEW b \in Artifacts, upload'[FirstOf[b]].status = "absent"
               PROVE  /\ artifact'[b].status = "absent" /\ artifact'[b].current = NoUpload
                      /\ \A v \in Uploads : Of[v] = b => upload'[v].status = "absent"
    BY DEF FirstIsPresent
  <2>1. FirstOf[b] # u /\ upload[FirstOf[b]].status = "absent"
    BY <1>2
  <2>2. /\ artifact[b].status = "absent" /\ artifact[b].current = NoUpload
        /\ \A v \in Uploads : Of[v] = b => upload[v].status = "absent"
    BY <2>1 DEF FirstIsPresent
  <2>3. b # Of[u]
    BY <2>1, <2>2 DEF IsFirst
  <2> QED
    BY <1>2, <1>3, <2>2, <2>3
<1>7. CurrentIsOwn'
  BY <1>3 DEF CurrentIsOwn
<1>8. PurgedIsEmpty'
  BY <1>2, <1>3 DEF PurgedIsEmpty
<1> QED
  BY <1>1, <1>4, <1>5, <1>6, <1>7, <1>8

LEMMA TogglingKeepsRows ==
  ASSUME RowsInv, NEW a \in Artifacts, Toggles(a)
  PROVE  RowsInv' /\ RowsStay
<1> USE UploadConstants DEF RowsInv, Toggles
<1>1. RowTypes'
  <2>1. \A status \in {"trashed", "available"} : [artifact[a] EXCEPT !.status = status] \in Artifact
    BY DEF RowTypes, Artifact
  <2>2. artifact' \in [Artifacts -> Artifact]
    BY <2>1 DEF RowTypes
  <2> QED
    BY <2>2 DEF RowTypes
<1>2. /\ artifact'[a].current = artifact[a].current
      /\ {artifact[a].status, artifact'[a].status} \subseteq {"available", "trashed"}
      /\ \A b \in Artifacts \ {a} : artifact'[b] = artifact[b]
  BY DEF RowTypes, Artifact
<1>3. RowsAgree'
  <2>1. \A d : References(d)' = References(d)
    BY DEF References
  <2>2. blob' = {d \in Contents : References(d)' # {}}
    BY <2>1 DEF RowsAgree
  <2>3. upload' = upload /\ version' = version
    OBVIOUS
  <2> QED
    BY <1>2, <2>2, <2>3 DEF RowsAgree
<1>4. FirstIsPresent'
  BY <1>2 DEF FirstIsPresent
<1>5. CurrentIsOwn'
  BY <1>2 DEF CurrentIsOwn
<1>6. PurgedIsEmpty'
  BY <1>2 DEF PurgedIsEmpty
<1> QED
  BY <1>1, <1>3, <1>4, <1>5, <1>6 DEF RowsStay

LEMMA PurgingKeepsRows ==
  ASSUME RowsInv, NEW a \in Artifacts, Purges(a)
  PROVE  RowsInv' /\ RowsStay
<1> USE UploadConstants DEF RowsInv, Purges
<1> DEFINE gone == [status |-> "deleted", current |-> NoUpload]
<1>1. RowTypes'
  <2>1. gone \in Artifact
    BY DEF Artifact, Gone
  <2>2. \A u \in Uploads : [upload[u] EXCEPT !.status = "deleted"] \in Upload
    <3> SUFFICES ASSUME NEW u \in Uploads PROVE [upload[u] EXCEPT !.status = "deleted"] \in Upload
      OBVIOUS
    <3>1. upload[u] \in Upload
      BY DEF RowTypes
    <3> QED
      BY <3>1 DEF Upload, Gone
  <2>3. upload' \in [Uploads -> Upload]
    BY <2>2 DEF RowTypes
  <2>4. version' \in [Uploads -> VersionStatus]
    BY DEF RowTypes, VersionStatus, Gone
  <2>5. artifact' \in [Artifacts -> Artifact]
    BY <2>1 DEF RowTypes
  <2> QED
    BY <2>3, <2>4, <2>5 DEF RowTypes
<1>2. \A u \in Uploads :
        /\ version'[u] = "available" <=> version[u] = "available" /\ Of[u] # a
        /\ upload'[u].status = "absent" <=> upload[u].status = "absent"
        /\ upload'[u].status = "completed" <=>
             upload[u].status = "completed" /\ (Of[u] # a \/ upload[u].status = "absent")
  BY DEF RowTypes, Upload
<1>3. artifact'[a] = gone /\ \A b \in Artifacts \ {a} : artifact'[b] = artifact[b]
  BY DEF RowTypes
<1>4. RowsAgree'
  <2>1. \A d \in Contents : References(d)' = {u \in References(d) : Of[u] # a}
    BY <1>2 DEF References
  <2>2. blob' = {d \in Contents : References(d)' # {}}
    BY <2>1 DEF RowsAgree, Removable
  <2>3. \A u \in Uploads : upload'[u].status = "completed" <=> version'[u] = "available"
    BY <1>2 DEF RowsAgree
  <2>4. \A u \in Uploads : version'[u] = "available" =>
          artifact'[Of[u]].status \in {"available", "trashed"}
    BY <1>2, <1>3 DEF RowsAgree
  <2>5. ASSUME NEW b \in Artifacts, artifact'[b].status \in {"available", "trashed"}
        PROVE  artifact'[b].current \in Uploads /\ version'[artifact'[b].current] = "available"
    <3>1. b # a /\ artifact'[b] = artifact[b]
      BY <1>3, <2>5
    <3>2. artifact[b].current \in Uploads /\ version[artifact[b].current] = "available"
      BY <2>5, <3>1 DEF RowsAgree
    <3>3. Of[artifact[b].current] = b
      BY <3>2 DEF CurrentIsOwn
    <3> QED
      BY <1>2, <3>1, <3>2, <3>3
  <2> QED
    BY <2>2, <2>3, <2>4, <2>5 DEF RowsAgree
<1>5. FirstIsPresent'
  BY <1>2, <1>3 DEF FirstIsPresent
<1>6. CurrentIsOwn'
  BY <1>3 DEF CurrentIsOwn
<1>7. PurgedIsEmpty'
  <2>1. ASSUME NEW u \in Uploads, Of[u] = a PROVE upload'[u].status \in Gone
    BY <1>1, <2>1 DEF RowTypes, Upload, Gone
  <2>2. ASSUME NEW u \in Uploads, Of[u] # a
        PROVE  upload'[u] = upload[u] /\ artifact'[Of[u]] = artifact[Of[u]]
    BY <1>3, <2>2
  <2> QED
    BY <2>1, <2>2 DEF PurgedIsEmpty
<1> QED
  BY <1>1, <1>2, <1>4, <1>5, <1>6, <1>7 DEF RowsStay

\* The tables agree after each of the seven kinds of change.
LEMMA RowStepsKeepRows ==
  ASSUME RowsInv, RowStep
  PROVE  RowsInv' /\ RowsStay
<1>1. ASSUME NEW u \in Uploads, Creatable(u), Linkable(u), MakeAvailable(u)
      PROVE  RowsInv' /\ RowsStay
  <2> DEFINE row == [upload[u] EXCEPT !.status = "completed", !.provider = "synthetic"]
  <2>1. upload[u] \in Upload
    BY DEF RowsInv, RowTypes
  <2>2. row \in Upload /\ row.status = "completed"
    BY <2>1 DEF Upload
  <2>3. upload' = [upload EXCEPT ![u] = row]
    BY <1>1 DEF MakeAvailable, RowsInv, RowTypes
  <2>4. blob' = blob \cup {ContentOf[u]}
    BY <1>1 DEF MakeAvailable, Linkable
  <2> QED
    BY <1>1, <2>2, <2>3, <2>4, AvailableKeepsRows DEF MakeAvailable, Creatable
<1>2. ASSUME NEW u \in Uploads, FinalizeUpload(u)
      PROVE  RowsInv' /\ RowsStay
  <2> DEFINE row == [upload[u] EXCEPT !.status = "completed", !.lease = "live"]
  <2>1. upload[u] \in Upload /\ upload[u].status # "absent"
    BY <1>2 DEF RowsInv, RowTypes, FinalizeUpload, Finalizable, Confirming
  <2>2. row \in Upload /\ row.status = "completed"
    BY <2>1 DEF Upload
  <2>3. upload' = [upload EXCEPT ![u] = row]
    BY <1>2 DEF FinalizeUpload, RowsInv, RowTypes
  <2> QED
    BY <1>2, <2>1, <2>2, <2>3, AvailableKeepsRows DEF FinalizeUpload
<1> QED
  BY <1>1, <1>2, TouchesKeepsRows, SettlingKeepsRows, CreatingKeepsRows, TogglingKeepsRows,
     PurgingKeepsRows DEF RowStep
-----------------------------------------------------------------------------
(* Every step makes one of these changes.                                  *)

LEMMA CallsName ==
  ASSUME CallTypes, NEW c \in Processes, ~At(c, "idle")
  PROVE  call[c].u \in Uploads
BY DEF CallTypes, Call

LEMMA StayIsTouch ==
  ASSUME RowTypes, UNCHANGED rows
  PROVE  RowStep
BY DEF RowTypes, rows, Touches, RowStep

\* One row changes, within a session.
LEMMA OneRowIsTouch ==
  ASSUME RowTypes, NEW u \in Uploads, NEW row \in Upload,
         \/ row.status = upload[u].status
         \/ upload[u].status \in Active /\ row.status \in Active,
         upload' = [upload EXCEPT ![u] = row], UNCHANGED <<version, artifact, blob>>
  PROVE  RowStep
<1>1. upload' \in [Uploads -> Upload]
  BY DEF RowTypes
<1>2. upload'[u] = row /\ \A v \in Uploads \ {u} : upload'[v] = upload[v]
  BY DEF RowTypes
<1>3. Touches
  BY <1>1, <1>2 DEF Touches, Active
<1> QED
  BY <1>3 DEF RowStep

LEMMA MarkingIsTouch ==
  ASSUME RowTypes, NEW u \in Uploads, MarkUploading(u), UNCHANGED <<version, artifact, blob>>
  PROVE  RowStep
<1> DEFINE row == [upload[u] EXCEPT
                    !.status = IF @ = "initialized" THEN "uploading" ELSE @]
<1>1. upload[u] \in Upload
  BY DEF RowTypes
<1>2. row \in Upload /\ row.status =
        IF upload[u].status = "initialized" THEN "uploading" ELSE upload[u].status
  BY <1>1 DEF Upload, Active
<1>3. upload' = [upload EXCEPT ![u] = row]
  BY DEF MarkUploading, RowTypes
<1> HIDE DEF row
<1> QED
  BY <1>2, <1>3, OneRowIsTouch DEF Active

LEMMA BeginningIsTouch ==
  ASSUME RowTypes, NEW u \in Uploads, BeginConfirm(u)
  PROVE  RowStep
<1> DEFINE row == [upload[u] EXCEPT !.status = "completing", !.lease = "live"]
<1>1. upload[u] \in Upload
  BY DEF RowTypes
<1>2. row \in Upload /\ row.status = "completing"
  BY <1>1 DEF Upload, Active
<1>3. upload' = [upload EXCEPT ![u] = row]
  BY DEF BeginConfirm, RowTypes
<1>4. upload[u].status \in Active /\ UNCHANGED <<version, artifact, blob>>
  BY DEF BeginConfirm, Confirmable, Confirming, Active
<1> HIDE DEF row
<1> QED
  BY <1>2, <1>3, <1>4, OneRowIsTouch DEF Active

LEMMA ReapingIsTouch ==
  ASSUME RowTypes, NEW batch, ExpireUploads(batch)
  PROVE  RowStep
<1>1. \A u \in Uploads : [upload[u] EXCEPT !.status = "expired"] \in Upload
  <2> SUFFICES ASSUME NEW u \in Uploads PROVE [upload[u] EXCEPT !.status = "expired"] \in Upload
    OBVIOUS
  <2>1. upload[u] \in Upload
    BY DEF RowTypes
  <2> QED
    BY <2>1 DEF Upload, Ended
<1>2. upload' \in [Uploads -> Upload]
  BY <1>1 DEF ExpireUploads, RowTypes
<1>3. \A u \in Uploads : \/ upload'[u].status = upload[u].status
                         \/ upload[u].status \in Active /\ upload'[u].status = "expired"
  BY <1>1 DEF ExpireUploads, IsExpired, IsActive, Upload
<1>4. Touches
  BY <1>2, <1>3 DEF Touches, ExpireUploads, Ended
<1> QED
  BY <1>4 DEF RowStep

\* A change of a field other than the status.
LEMMA FieldIsTouch ==
  ASSUME RowTypes, NEW u \in Uploads, UNCHANGED <<version, artifact, blob>>,
         \/ upload' = [upload EXCEPT ![u].session = "over"]
         \/ upload' = [upload EXCEPT ![u].lease = "over"]
         \/ upload' = [upload EXCEPT ![u].provider = "aborted"]
  PROVE  RowStep
<1> DEFINE Row(r) == r \in Upload /\ r.status = upload[u].status /\ upload' = [upload EXCEPT ![u] = r]
<1>1. upload[u] \in Upload
  BY DEF RowTypes
<1>2. CASE upload' = [upload EXCEPT ![u].session = "over"]
  <2>1. Row([upload[u] EXCEPT !.session = "over"])
    BY <1>1, <1>2 DEF Upload, RowTypes
  <2> QED
    BY <2>1, OneRowIsTouch
<1>3. CASE upload' = [upload EXCEPT ![u].lease = "over"]
  <2>1. Row([upload[u] EXCEPT !.lease = "over"])
    BY <1>1, <1>3 DEF Upload, RowTypes
  <2> QED
    BY <2>1, OneRowIsTouch
<1>4. CASE upload' = [upload EXCEPT ![u].provider = "aborted"]
  <2>1. Row([upload[u] EXCEPT !.provider = "aborted"])
    BY <1>1, <1>4 DEF Upload, RowTypes
  <2> QED
    BY <2>1, OneRowIsTouch
<1> QED
  BY <1>2, <1>3, <1>4

LEMMA ClientStepsAreRowSteps ==
  ASSUME RowsInv, CallTypes, NEW c \in Processes,
         ClientStep(c) \/ CleanStep(c) \/ Abandon(c)
  PROVE  RowStep
<1> DEFINE u == call[c].u
<1> USE DEF RowsInv
<1>1. \A pc \in Phases \ {"idle"} : At(c, pc) => u \in Uploads
  BY CallsName DEF At
<1> HIDE DEF u
<1>2. CASE UNCHANGED rows
  BY <1>2, StayIsTouch
<1>3. CASE Create(c)
  <2>1. u \in Uploads /\ CreatesRows(u)
    BY <1>1, <1>3 DEF Create, CreatesRows, Phases, u
  <2> QED
    BY <2>1 DEF RowStep
<1>4. CASE Link(c)
  <2>1. u \in Uploads /\ Creatable(u) /\ Linkable(u) /\ MakeAvailable(u)
    BY <1>1, <1>4 DEF Link, Phases, u
  <2> QED
    BY <2>1 DEF RowStep
<1>5. CASE ArchivePut(c)
  <2>1. u \in Uploads /\ MarkUploading(u) /\ UNCHANGED <<version, artifact, blob>>
    BY <1>1, <1>5 DEF ArchivePut, Phases, u
  <2> QED
    BY <2>1, MarkingIsTouch
<1>6. CASE Begin(c)
  <2>1. u \in Uploads /\ BeginConfirm(u)
    BY <1>1, <1>6 DEF Begin, Phases, u
  <2> QED
    BY <2>1, BeginningIsTouch
<1>7. ASSUME NEW status \in {"uploading", "verifying", "failed"} \cup Ended,
             u \in Uploads, SetUploadStatus(u, status)
      PROVE  RowStep
  BY <1>7 DEF RowStep
<1>8. CASE Reject(c) \/ Verifying(c)
  <2>1. u \in Uploads
    BY <1>1, <1>8 DEF Reject, Verifying, Phases
  <2>2. SetUploadStatus(u, "uploading") \/ SetUploadStatus(u, "verifying")
    BY <1>8 DEF Reject, Verifying, u
  <2> QED
    BY <1>7, <2>1, <2>2
<1>9. CASE Fail(c)
  <2>1. u \in Uploads
    BY <1>1, <1>9 DEF Fail, Phases
  <2>2. SetUploadStatus(u, "failed") \/ UNCHANGED rows
    BY <1>9 DEF Fail, u
  <2> QED
    BY <1>2, <1>7, <2>1, <2>2
<1>10. CASE End(c)
  <2>1. u \in Uploads
    BY <1>1, <1>10 DEF End, Phases
  <2>2. SetUploadStatus(u, "aborted") \/ SetUploadStatus(u, "expired")
    BY <1>10 DEF End, u
  <2> QED
    BY <1>7, <2>1, <2>2 DEF Ended
<1>11. CASE Finalize(c)
  <2>1. u \in Uploads /\ FinalizeUpload(u)
    BY <1>1, <1>11 DEF Finalize, Phases, u
  <2> QED
    BY <2>1 DEF RowStep
<1>12. CASE MarkProviderAborted(c)
  <2>1. u \in Uploads
    BY <1>1, <1>12 DEF MarkProviderAborted, Phases, Cleaning
  <2>2. /\ \/ upload' = [upload EXCEPT ![u].provider = "aborted"]
           \/ upload' = upload
        /\ UNCHANGED <<version, artifact, blob>>
    BY <1>12 DEF MarkProviderAborted, u
  <2> QED
    BY <1>2, <2>1, <2>2, FieldIsTouch DEF rows
<1>13. CASE \E v \in Uploads : Prepare(c, v) \/ Abort(c, v) \/ Expire(c, v) \/ Confirm(c, v)
  BY <1>2, <1>13 DEF Prepare, Abort, Expire, Confirm
<1>14. CASE List(c) \/ Complete(c) \/ Verify(c) \/ Promote(c) \/ Recheck(c) \/ Discard(c)
  BY <1>2, <1>14 DEF List, Complete, Verify, Promote, Recheck, Discard
<1>15. CASE AbortMultipart(c) \/ DeleteStaging(c) \/ CleanFails(c) \/ Abandon(c)
  BY <1>2, <1>15 DEF AbortMultipart, DeleteStaging, CleanFails, Abandon
<1> QED
  BY <1>3, <1>4, <1>5, <1>6, <1>8, <1>9, <1>10, <1>11, <1>12, <1>13, <1>14, <1>15
     DEF ClientStep, ConfirmStep, CleanStep

THEOREM StepsAreRowSteps ==
  ASSUME RowsInv, CallTypes, [Next]_vars
  PROVE  RowStep
<1> USE DEF RowsInv
<1>1. CASE UNCHANGED vars
  BY <1>1, StayIsTouch DEF vars
<1>2. CASE \E c \in Clients : ClientStep(c)
  BY <1>2, ClientStepsAreRowSteps DEF Processes
<1>3. CASE ReaperStep
  <2>1. CASE \E batch \in SUBSET Uploads : \E u \in batch : Reap(u, batch)
    BY <2>1, ReapingIsTouch DEF Reap
  <2>2. CASE CleanStep(Reaper) \/ Abandon(Reaper)
    BY <2>2, ClientStepsAreRowSteps DEF Processes
  <2> QED
    BY <1>3, <2>1, <2>2 DEF ReaperStep
<1>4. ASSUME NEW u \in Uploads,
             \/ SignParts(u) \/ SessionEnds(u) \/ LeaseEnds(u)
             \/ \E bytes \in Bytes : PutPart(u, bytes)
             \/ \E source \in Uploads : RestoreVersion(u, source)
      PROVE  RowStep
  <2>1. CASE SignParts(u)
    BY <2>1, MarkingIsTouch DEF SignParts
  <2>2. CASE SessionEnds(u) \/ LeaseEnds(u)
    BY <2>2, FieldIsTouch DEF SessionEnds, LeaseEnds
  <2>3. CASE \E bytes \in Bytes : PutPart(u, bytes)
    BY <2>3, StayIsTouch DEF PutPart
  <2>4. ASSUME NEW source \in Uploads, RestoreVersion(u, source) PROVE RowStep
    <3>1. ContentOf[source] \in blob
      BY <2>4, UploadConstants DEF RestoreVersion, RowsAgree, References
    <3>2. Creatable(u) /\ Linkable(u) /\ MakeAvailable(u)
      BY <2>4, <3>1 DEF RestoreVersion, Creatable, Linkable
    <3> QED
      BY <3>2 DEF RowStep
  <2> QED
    BY <1>4, <2>1, <2>2, <2>3, <2>4
<1>5. ASSUME NEW a \in Artifacts,
             \/ Trash(a) \/ Restore(a) \/ Purge(a)
             \/ \E removed \in SUBSET Contents : PurgeFails(a, removed)
      PROVE  RowStep
  <2>1. CASE Trash(a) \/ Restore(a)
    BY <2>1 DEF Trash, Restore, Toggles, RowStep
  <2>2. CASE Purge(a)
    BY <2>2 DEF Purge, Purges, RowStep
  <2>3. CASE \E removed \in SUBSET Contents : PurgeFails(a, removed)
    BY <2>3, StayIsTouch DEF PurgeFails
  <2> QED
    BY <1>5, <2>1, <2>2, <2>3
<1> QED
  BY <1>1, <1>2, <1>3, <1>4, <1>5 DEF Next
-----------------------------------------------------------------------------
(* What a step does to the storage.                                        *)

StorageInv ==
  /\ StorageTypes /\ CallTypes
  /\ StagingIsWrittenOnce /\ ContentIsVerified
  /\ \A c \in Processes : CallOK(c)

\* Most steps write nothing: they leave what there is, or remove it.
Shrinks ==
  /\ StorageTypes'
  /\ \A u \in Uploads : multipart'[u] \in {multipart[u], "none"} /\ staging'[u] \in {staging[u], "none"}
  /\ \A d \in Contents : object'[d] \in {object[d], "none"}

LEMMA StayShrinks ==
  ASSUME StorageTypes, UNCHANGED storage
  PROVE  Shrinks
BY DEF StorageTypes, storage, Shrinks

LEMMA ShrinkingKeepsStorage ==
  ASSUME StorageInv, RowsStay, Shrinks, CallTypes',
         \A b \in Processes : call'[b] = call[b] \/ CallOK(b)'
  PROVE  StorageInv'
<1> USE DEF StorageInv, Shrinks
<1>1. StagingIsWrittenOnce'
  <2> SUFFICES ASSUME NEW u \in Uploads
               PROVE  /\ staging'[u] # "none" => multipart'[u] = "none" /\ upload'[u].status # "absent"
                      /\ upload'[u].status = "absent" => multipart'[u] = "none"
    BY DEF StagingIsWrittenOnce
  <2>1. upload'[u].status = "absent" => upload[u].status = "absent"
    BY DEF RowsStay
  <2> QED
    BY <2>1 DEF StagingIsWrittenOnce
<1>2. ContentIsVerified'
  BY DEF ContentIsVerified
<1>3. \A b \in Processes : CallOK(b)'
  <2> SUFFICES ASSUME NEW b \in Processes, call'[b] = call[b] PROVE CallOK(b)'
    OBVIOUS
  <2>1. CallOK(b)
    OBVIOUS
  <2>2. ~At(b, "idle") => call[b].u \in Uploads
    BY CallsName
  <2> QED
    BY <2>1, <2>2 DEF CallOK, At, RowsStay
<1> QED
  BY <1>1, <1>2, <1>3

LEMMA GotoKeepsStorage ==
  ASSUME StorageInv, RowsStay, Shrinks, NEW c \in Processes, ~At(c, "idle"),
         NEW pc \in Phases \ {"idle", "complete", "promote"}, Goto(c, pc)
  PROVE  StorageInv'
<1>1. CallTypes' /\ call'[c].pc = pc /\ \A b \in Processes \ {c} : call'[b] = call[b]
  BY GotoKeepsTypes DEF StorageInv
<1>2. CallOK(c)'
  BY <1>1 DEF CallOK, At
<1> QED
  BY <1>1, <1>2, ShrinkingKeepsStorage

LEMMA StartKeepsStorage ==
  ASSUME StorageInv, RowsStay, UNCHANGED storage, NEW c \in Processes, NEW u \in Uploads,
         NEW pc \in Phases \ {"idle", "complete", "promote"}, NEW again \in BOOLEAN,
         Start(c, pc, u, again)
  PROVE  StorageInv'
<1>1. CallTypes' /\ call'[c].pc = pc /\ \A b \in Processes \ {c} : call'[b] = call[b]
  BY StartKeepsTypes DEF StorageInv
<1>2. CallOK(c)'
  BY <1>1 DEF CallOK, At
<1> QED
  BY <1>1, <1>2, StayShrinks, ShrinkingKeepsStorage DEF StorageInv

LEMMA ReturnKeepsStorage ==
  ASSUME StorageInv, RowsStay, Shrinks, NEW c \in Processes, Return(c)
  PROVE  StorageInv'
<1>1. CallTypes' /\ call'[c] = Idle /\ \A b \in Processes \ {c} : call'[b] = call[b]
  BY ReturnKeepsTypes DEF StorageInv
<1>2. CallOK(c)'
  BY <1>1 DEF CallOK, At, Idle
<1> QED
  BY <1>1, <1>2, ShrinkingKeepsStorage

LEMMA ProceedKeepsStorage ==
  ASSUME StorageInv, RowsStay, UNCHANGED storage, NEW c \in Processes, Proceed(c)
  PROVE  StorageInv'
<1>1. /\ CallTypes' /\ call'[c].pc \in {"idle", "abort_multipart"}
      /\ \A b \in Processes \ {c} : call'[b] = call[b]
  BY ProceedKeepsTypes DEF StorageInv
<1>2. CallOK(c)'
  BY <1>1 DEF CallOK, At
<1> QED
  BY <1>1, <1>2, StayShrinks, ShrinkingKeepsStorage DEF StorageInv

\* A process that removes parts, or a staging object.
LEMMA RemovingShrinks ==
  ASSUME StorageTypes, NEW u,
         \/ multipart' = [multipart EXCEPT ![u] = "none"] /\ UNCHANGED <<staging, object>>
         \/ staging' = [staging EXCEPT ![u] = "none"] /\ UNCHANGED <<multipart, object>>
  PROVE  Shrinks
BY DEF StorageTypes, Shrinks

\* Parts are put, or a multipart upload is created, where there is no staging object.
LEMMA PuttingKeepsStorage ==
  ASSUME StorageInv, RowsStay, CallTypes', NEW u \in Uploads,
         NEW bytes \in {"missing"} \cup Bytes, multipart[u] # "none" \/ upload[u].status = "absent",
         upload'[u].status # "absent",
         multipart' = [multipart EXCEPT ![u] = bytes], UNCHANGED <<staging, object>>,
         \A b \in Processes : call'[b] = call[b] \/ CallOK(b)'
  PROVE  StorageInv'
<1> USE DEF StorageInv
<1>1. StorageTypes'
  BY DEF StorageTypes
<1>2. StagingIsWrittenOnce'
  BY DEF StagingIsWrittenOnce, RowsStay, StorageTypes
<1>3. ContentIsVerified'
  BY DEF ContentIsVerified
<1>4. \A b \in Processes : CallOK(b)'
  <2> SUFFICES ASSUME NEW b \in Processes, call'[b] = call[b] PROVE CallOK(b)'
    OBVIOUS
  <2>1. CallOK(b)
    OBVIOUS
  <2>2. ~At(b, "idle") => call[b].u \in Uploads
    BY CallsName
  <2>3. At(b, "promote") => call[b].u # u
    BY <2>1 DEF CallOK, At
  <2> QED
    BY <2>1, <2>2, <2>3 DEF CallOK, At, RowsStay, StorageTypes
<1> QED
  BY <1>1, <1>2, <1>3, <1>4
\* What was listed is what will be completed.
LEMMA ListKeepsStorage ==
  ASSUME StorageInv, RowsStay, NEW c \in Processes, List(c)
  PROVE  StorageInv'
<1> USE DEF StorageInv
<1> DEFINE u == call[c].u
           k == [call[c] EXCEPT !.pc = "complete", !.again = FALSE, !.seen = multipart[u]]
<1>1. u \in Uploads /\ ~At(c, "idle") /\ Shrinks
  BY CallsName, StayShrinks DEF List, At, storage
<1>2. CASE Goto(c, "reject") \/ Goto(c, "verifying")
  BY <1>1, <1>2, GotoKeepsStorage DEF Phases
<1>3. CASE multipart[u] \in Bytes /\
           call' = [call EXCEPT ![c].pc = "complete", ![c].again = FALSE, ![c].seen = multipart[u]]
  <2>1. call' = [call EXCEPT ![c] = k]
    BY <1>3 DEF CallTypes
  <2>2. k \in Call /\ k.pc = "complete" /\ k.seen \in Bytes /\ k.u = u
    <3>1. call[c] \in Call
      BY DEF CallTypes
    <3> QED
      BY <1>3, <3>1 DEF Call, Phases
  <2> HIDE DEF k
  <2>3. call'[c] = k /\ \A b \in Processes \ {c} : call'[b] = call[b]
    BY <2>1 DEF CallTypes
  <2>4. CallTypes'
    BY <1>1, <2>1, <2>2, <2>3, UploadConstants DEF CallTypes, At
  <2>5. CallOK(c)'
    BY <2>2, <2>3 DEF CallOK, At
  <2> QED
    BY <1>1, <2>3, <2>4, <2>5, ShrinkingKeepsStorage
<1> QED
  BY <1>1, <1>2, <1>3 DEF List, StorageTypes

\* The staging object is written where there was none, and no other confirmation
\* of the upload is about to promote.
LEMMA CompleteKeepsStorage ==
  ASSUME StorageInv, RowsStay, NEW c \in Processes, Complete(c)
  PROVE  StorageInv'
<1> USE DEF StorageInv
<1> DEFINE u == call[c].u
<1>1. u \in Uploads /\ ~At(c, "idle") /\ call[c].seen \in Bytes /\ multipart[u] = call[c].seen
  BY CallsName DEF Complete, At, CallOK
<1>2. multipart[u] # "none" /\ upload[u].status # "absent"
  BY <1>1 DEF Bytes, StagingIsWrittenOnce
<1>3. /\ multipart' = [multipart EXCEPT ![u] = "none"]
      /\ staging' = [staging EXCEPT ![u] = call[c].seen]
      /\ object' = object
  BY DEF Complete
<1>4. /\ CallTypes' /\ call'[c].pc = "verifying"
      /\ \A b \in Processes \ {c} : call'[b] = call[b]
  BY <1>1, GotoKeepsTypes DEF Complete, Phases
<1> HIDE DEF u
<1>5. StorageTypes'
  BY <1>1, <1>3 DEF StorageTypes
<1>6. StagingIsWrittenOnce'
  BY <1>1, <1>2, <1>3 DEF StagingIsWrittenOnce, RowsStay, StorageTypes
<1>7. ContentIsVerified'
  BY <1>3 DEF ContentIsVerified
<1>8. \A b \in Processes : CallOK(b)'
  <2> SUFFICES ASSUME NEW b \in Processes PROVE CallOK(b)'
    OBVIOUS
  <2>1. CASE b = c
    BY <1>4, <2>1 DEF CallOK, At
  <2>2. CASE b # c
    <3>1. call'[b] = call[b] /\ CallOK(b)
      BY <1>4, <2>2
    <3>2. ~At(b, "idle") => call[b].u \in Uploads
      BY CallsName
    <3>3. At(b, "promote") => call[b].u # u
      BY <1>2, <3>1 DEF CallOK, At
    <3> QED
      BY <1>3, <3>1, <3>2, <3>3 DEF CallOK, At, RowsStay, StorageTypes
  <2> QED
    BY <2>1, <2>2
<1> QED
  BY <1>4, <1>5, <1>6, <1>7, <1>8

\* Only the declared bytes reach the promotion.
LEMMA VerifyKeepsStorage ==
  ASSUME StorageInv, RowsStay, NEW c \in Processes, Verify(c)
  PROVE  StorageInv'
<1> USE DEF StorageInv
<1> DEFINE u == call[c].u
<1>1. u \in Uploads /\ ~At(c, "idle") /\ UNCHANGED storage /\ Shrinks
  BY CallsName, StayShrinks DEF Verify, At
<1>2. CASE Goto(c, "finalize") \/ Goto(c, "fail") \/ Return(c)
  BY <1>1, <1>2, GotoKeepsStorage, ReturnKeepsStorage DEF Phases
<1>3. CASE Goto(c, "promote") /\ staging[u] = "good"
  <2>1. /\ CallTypes' /\ call'[c].pc = "promote" /\ call'[c].u = u
        /\ \A b \in Processes \ {c} : call'[b] = call[b]
    BY <1>1, <1>3, GotoKeepsTypes DEF Phases
  <2>2. multipart[u] = "none" /\ upload[u].status # "absent"
    BY <1>1, <1>3 DEF StagingIsWrittenOnce
  <2>3. upload'[u].status # "absent"
    BY <1>1, <2>2 DEF RowsStay
  <2>4. CallOK(c)'
    BY <1>1, <1>3, <2>1, <2>2, <2>3 DEF CallOK, At, storage
  <2> QED
    BY <1>1, <2>1, <2>4, ShrinkingKeepsStorage
<1> QED
  BY <1>2, <1>3 DEF Verify, Accepted, Refuse

\* What is promoted is what was verified.
LEMMA PromoteKeepsStorage ==
  ASSUME StorageInv, RowsStay, NEW c \in Processes, Promote(c)
  PROVE  StorageInv'
<1> USE DEF StorageInv
<1> DEFINE u == call[c].u
           d == ContentOf[u]
<1>1. u \in Uploads /\ ~At(c, "idle") /\ d \in Contents
  BY CallsName, UploadConstants DEF Promote, At
<1>2. CASE Goto(c, "recheck") /\ UNCHANGED storage
  BY <1>1, <1>2, StayShrinks, GotoKeepsStorage DEF Phases
<1>3. CASE /\ staging[u] # "none" /\ object' = [object EXCEPT ![d] = staging[u]]
           /\ \/ staging' = [staging EXCEPT ![u] = "none"] /\ Goto(c, "finalize")
              \/ staging' = staging /\ Return(c)
           /\ multipart' = multipart
  <2>1. staging[u] = "good"
    BY <1>3 DEF CallOK, Promote
  <2>2. /\ CallTypes' /\ call'[c].pc \in {"finalize", "idle"}
        /\ \A b \in Processes \ {c} : call'[b] = call[b]
    <3>1. Goto(c, "finalize") \/ Return(c)
      BY <1>3
    <3> QED
      BY <1>1, <3>1, GotoKeepsTypes, ReturnKeepsTypes DEF Phases, Idle
  <2> HIDE DEF u, d
  <2>3. StorageTypes'
    BY <1>1, <1>3, <2>1 DEF StorageTypes, Bytes
  <2>4. \A v \in Uploads : staging'[v] \in {staging[v], "none"}
    BY <1>3 DEF StorageTypes
  <2>5. StagingIsWrittenOnce'
    BY <1>3, <2>4 DEF StagingIsWrittenOnce, RowsStay
  <2>6. ContentIsVerified'
    BY <1>3, <2>1 DEF ContentIsVerified, StorageTypes
  <2>7. \A b \in Processes : CallOK(b)'
    <3> SUFFICES ASSUME NEW b \in Processes PROVE CallOK(b)'
      OBVIOUS
    <3>1. CASE b = c
      BY <2>2, <3>1 DEF CallOK, At
    <3>2. CASE b # c
      <4>1. call'[b] = call[b] /\ CallOK(b)
        BY <2>2, <3>2
      <4>2. ~At(b, "idle") => call[b].u \in Uploads
        BY CallsName
      <4> QED
        BY <1>3, <2>4, <4>1, <4>2 DEF CallOK, At, RowsStay
    <3> QED
      BY <3>1, <3>2
  <2> QED
    BY <2>2, <2>3, <2>5, <2>6, <2>7
<1> QED
  BY <1>2, <1>3 DEF Promote, storage

\* The steps of a process, one by one.
LEMMA ProcessStepsKeepStorage ==
  ASSUME StorageInv, RowsInv, RowsStay, NEW c \in Processes,
         ClientStep(c) \/ CleanStep(c) \/ Abandon(c)
  PROVE  StorageInv'
<1> DEFINE u == call[c].u
<1> USE DEF StorageInv
<1>1. \A pc \in Phases \ {"idle"} : At(c, pc) => u \in Uploads /\ ~At(c, "idle")
  BY CallsName DEF At
<1>2. UNCHANGED storage => Shrinks
  BY StayShrinks
<1>3. \A pc \in Phases : At(c, pc) <=> call[c].pc = pc
  BY DEF At
<1>4. CASE \E v \in Uploads : Prepare(c, v) \/ Abort(c, v) \/ Expire(c, v) \/ Confirm(c, v)
  <2>1. PICK v \in Uploads : Prepare(c, v) \/ Abort(c, v) \/ Expire(c, v) \/ Confirm(c, v)
    BY <1>4
  <2>2. UNCHANGED storage
    BY <2>1 DEF Prepare, Abort, Expire, Confirm
  <2>3. CASE Confirm(c, v)
    <3> DEFINE again == upload[v].status \in Confirming
    <3>1. again \in BOOLEAN /\ Start(c, "begin", v, again)
      BY <2>3 DEF Confirm
    <3> QED
      BY <2>2, <3>1, StartKeepsStorage DEF Phases
  <2>4. CASE \/ Start(c, "link", v, FALSE) \/ Start(c, "create", v, FALSE)
             \/ Start(c, "abort", v, FALSE) \/ Start(c, "abort_multipart", v, FALSE)
             \/ Start(c, "expire", v, FALSE)
    BY <2>2, <2>4, StartKeepsStorage DEF Phases, Cleaning
  <2> QED
    BY <2>1, <2>3, <2>4 DEF Prepare, Abort, Expire
<1>5. CASE Begin(c) \/ Verifying(c) \/ Fail(c) \/ End(c)
  <2>1. UNCHANGED storage /\ ~At(c, "idle")
    BY <1>5 DEF Begin, Verifying, Fail, End, At
  <2>2. Goto(c, "list") \/ Goto(c, "verify") \/ Goto(c, "discard") \/ Goto(c, "abort_multipart")
    BY <1>5 DEF Begin, Verifying, Fail, End
  <2> QED
    BY <1>2, <2>1, <2>2, GotoKeepsStorage DEF Phases, Cleaning
<1>6. CASE Link(c) \/ Reject(c) \/ Finalize(c) \/ Abandon(c)
  BY <1>2, <1>6, ReturnKeepsStorage DEF Link, Reject, Finalize, Abandon
<1>7. CASE MarkProviderAborted(c) \/ CleanFails(c)
  BY <1>7, ProceedKeepsStorage DEF MarkProviderAborted, CleanFails
<1>8. CASE Discard(c)
  BY <1>8, RemovingShrinks, ReturnKeepsStorage DEF Discard
<1>9. CASE AbortMultipart(c) \/ DeleteStaging(c)
  <2>1. Shrinks
    BY <1>9, RemovingShrinks DEF AbortMultipart, DeleteStaging
  <2>2. ~At(c, "idle") /\ (Goto(c, "delete_staging") \/ Goto(c, "mark_aborted"))
    BY <1>9 DEF AbortMultipart, DeleteStaging, At
  <2> QED
    BY <2>1, <2>2, GotoKeepsStorage DEF Phases, Cleaning
<1>10. CASE Recheck(c)
  <2>1. Shrinks /\ ~At(c, "idle")
    BY <1>2, <1>10, RemovingShrinks DEF Recheck, At, storage
  <2>2. Goto(c, "finalize") \/ Goto(c, "fail") \/ Return(c)
    BY <1>10 DEF Recheck, Refuse
  <2> QED
    BY <2>1, <2>2, GotoKeepsStorage, ReturnKeepsStorage DEF Phases
<1>11. CASE Create(c)
  <2>1. u \in Uploads /\ ~At(c, "idle") /\ upload[u].status = "absent"
    BY <1>1, <1>11 DEF Create, Creatable, Phases
  <2>2. upload'[u].status = "initialized"
    BY <1>11, <2>1 DEF Create, RowsInv, RowTypes, Upload
  <2>3. /\ CallTypes' /\ call'[c].pc \in {"put", "idle"}
        /\ \A b \in Processes \ {c} : call'[b] = call[b]
    <3>1. Goto(c, "put") \/ Return(c)
      BY <1>11 DEF Create
    <3> QED
      BY <2>1, <3>1, GotoKeepsTypes, ReturnKeepsTypes DEF Phases, Idle
  <2>4. CallOK(c)'
    BY <2>3 DEF CallOK, At
  <2>5. multipart' = [multipart EXCEPT ![u] = "missing"] /\ UNCHANGED <<staging, object>>
    BY <1>11 DEF Create
  <2> QED
    BY <2>1, <2>2, <2>3, <2>4, <2>5, PuttingKeepsStorage
<1>12. CASE ArchivePut(c)
  <2>1. u \in Uploads /\ multipart[u] # "none"
    BY <1>1, <1>12 DEF ArchivePut, Phases
  <2>2. upload'[u].status # "absent"
    <3>1. upload[u].status # "absent"
      BY <2>1 DEF StagingIsWrittenOnce
    <3> QED
      BY <2>1, <3>1 DEF RowsStay
  <2> DEFINE k == [call[c] EXCEPT !.pc = "complete", !.seen = "good"]
  <2>3. call' = [call EXCEPT ![c] = k]
    BY <1>12 DEF ArchivePut, CallTypes
  <2>4. k \in Call /\ k.pc = "complete" /\ k.seen = "good" /\ k.u = u
    <3>1. call[c] \in Call
      BY DEF CallTypes
    <3> QED
      BY <3>1 DEF Call, Phases, Bytes
  <2> HIDE DEF k
  <2>5. call'[c] = k /\ \A b \in Processes \ {c} : call'[b] = call[b]
    BY <2>3 DEF CallTypes
  <2>6. CallTypes'
    BY <2>1, <2>3, <2>4, <2>5, UploadConstants DEF CallTypes, At
  <2>7. CallOK(c)'
    BY <2>4, <2>5 DEF CallOK, At, Bytes
  <2>8. multipart' = [multipart EXCEPT ![u] = "good"] /\ UNCHANGED <<staging, object>>
    BY <1>12 DEF ArchivePut
  <2> QED
    BY <2>1, <2>2, <2>5, <2>6, <2>7, <2>8, PuttingKeepsStorage DEF Bytes
<1>13. CASE List(c)
  BY <1>13, ListKeepsStorage
<1>14. CASE Complete(c)
  BY <1>14, CompleteKeepsStorage
<1>15. CASE Verify(c)
  BY <1>15, VerifyKeepsStorage
<1>16. CASE Promote(c)
  BY <1>16, PromoteKeepsStorage
<1> QED
  BY <1>4, <1>5, <1>6, <1>7, <1>8, <1>9, <1>10, <1>11, <1>12, <1>13, <1>14, <1>15, <1>16
     DEF ClientStep, ConfirmStep, CleanStep
THEOREM StepsKeepStorage ==
  ASSUME StorageInv, RowsInv, RowsStay, [Next]_vars
  PROVE  StorageInv'
<1> USE DEF StorageInv
\* Steps of no process.
<1>1. ASSUME UNCHANGED call, Shrinks PROVE StorageInv'
  <2>1. CallTypes'
    BY <1>1 DEF CallTypes, At
  <2> QED
    BY <1>1, <2>1, ShrinkingKeepsStorage
<1>2. CASE UNCHANGED <<storage, call>>
  BY <1>1, <1>2, StayShrinks
<1>3. CASE \E c \in Clients : ClientStep(c)
  BY <1>3, ProcessStepsKeepStorage DEF Processes
<1>4. CASE ReaperStep
  <2>1. CASE CleanStep(Reaper) \/ Abandon(Reaper)
    BY <2>1, ProcessStepsKeepStorage DEF Processes
  <2>2. ASSUME NEW batch \in SUBSET Uploads, NEW u \in batch, Reap(u, batch) PROVE StorageInv'
    <3>1. Reaper \in Processes /\ CleanNext(Reaper, u, batch) /\ UNCHANGED storage
      BY <2>2 DEF Processes, Reap
    <3>2. /\ CallTypes' /\ call'[Reaper].pc = "abort_multipart"
          /\ \A b \in Processes \ {Reaper} : call'[b] = call[b]
      BY <3>1, CleanNextKeepsTypes
    <3>3. CallOK(Reaper)'
      BY <3>2 DEF CallOK, At
    <3> QED
      BY <3>1, <3>2, <3>3, StayShrinks, ShrinkingKeepsStorage
  <2> QED
    BY <1>4, <2>1, <2>2 DEF ReaperStep
<1>5. ASSUME NEW u \in Uploads, NEW bytes \in Bytes, PutPart(u, bytes) PROVE StorageInv'
  <2>1. multipart[u] # "none" /\ multipart' = [multipart EXCEPT ![u] = bytes]
    BY <1>5 DEF PutPart
  <2>2. UNCHANGED <<staging, object, call>> /\ CallTypes'
    BY <1>5 DEF PutPart, CallTypes, At
  <2>3. upload'[u].status # "absent"
    BY <2>1 DEF StagingIsWrittenOnce, RowsStay
  <2> QED
    BY <2>1, <2>2, <2>3, PuttingKeepsStorage
<1>6. ASSUME NEW a \in Artifacts, NEW removed \in SUBSET Contents,
             object' = [d \in Contents |-> IF d \in removed THEN "none" ELSE object[d]],
             UNCHANGED <<multipart, staging, call>>
      PROVE  StorageInv'
  <2>1. Shrinks
    BY <1>6 DEF Shrinks, StorageTypes
  <2> QED
    BY <1>1, <1>6, <2>1
<1>7. ASSUME NEW a \in Artifacts, Purge(a) PROVE StorageInv'
  <2>1. Removable(a) \in SUBSET Contents
    BY DEF Removable
  <2> QED
    BY <1>6, <1>7, <2>1 DEF Purge
<1>8. ASSUME NEW a \in Artifacts, NEW removed \in SUBSET Contents, PurgeFails(a, removed)
      PROVE  StorageInv'
  BY <1>6, <1>8 DEF PurgeFails
<1> QED
  BY <1>2, <1>3, <1>4, <1>5, <1>7, <1>8
     DEF Next, vars, SignParts, SessionEnds, LeaseEnds, RestoreVersion, Trash, Restore

-----------------------------------------------------------------------------
(* The theorems.                                                           *)

THEOREM UNext == UInv /\ [Next]_vars => UInv'
<1> SUFFICES ASSUME UInv, [Next]_vars PROVE UInv'
  OBVIOUS
<1>1. RowsInv /\ StorageInv
  BY DEF UInv, RowsInv, StorageInv
<1>2. RowsInv' /\ RowsStay
  BY <1>1, StepsAreRowSteps, RowStepsKeepRows DEF StorageInv
<1>3. StorageInv'
  BY <1>1, <1>2, StepsKeepStorage
<1> QED
  BY <1>2, <1>3 DEF UInv, RowsInv, StorageInv

THEOREM UInvariant == Spec => []UInv
BY UInit, UNext, PTL DEF Spec

\* Rows, storage and requests have their types.
THEOREM UTypeCorrect == Spec => []UTypeOK
<1>1. UInv => UTypeOK
  BY DEF UInv, UTypeOK, RowTypes, StorageTypes, CallTypes
<1> QED
  BY <1>1, UInvariant, PTL

\* The tables of uploads, versions, artifacts and blobs agree after any steps of
\* requests, reaper and trash (SetUploadStatus, FinalizeUpload, Purge and the others).
THEOREM TablesAgree == Spec => []RowsAgree
<1>1. UInv => RowsAgree
  BY DEF UInv
<1> QED
  BY <1>1, UInvariant, PTL

\* Content keys hold declared bytes only, however confirmations race
\* (verifyObject and promoteVerified).
THEOREM VerifiedContent == Spec => []ContentIsVerified
<1>1. UInv => ContentIsVerified
  BY DEF UInv
<1> QED
  BY <1>1, UInvariant, PTL

\* Aborted and expired uploads never come back (the CHECK on aborted_at).
THEOREM EndsAreFinal == Spec => EndIsFinal
<1> DEFINE A == \A u \in Uploads : upload[u].status \in Ended =>
                  upload'[u].status \in Ended \cup {"deleted"}
<1>1. UInv /\ [Next]_vars => [A]_vars
  <2> SUFFICES ASSUME UInv, [Next]_vars, NEW u \in Uploads, upload[u].status \in Ended
               PROVE  upload'[u].status \in Ended \cup {"deleted"}
    OBVIOUS
  <2>1. RowStep /\ RowTypes
    BY StepsAreRowSteps DEF UInv, RowsInv
  <2>2. upload[u] \in Upload
    BY <2>1 DEF RowTypes
  <2>3. CASE Touches
    BY <2>3 DEF Touches, Active, Ended
  <2>4. ASSUME NEW v \in Uploads, NEW status \in {"uploading", "verifying", "failed"} \cup Ended,
               SetUploadStatus(v, status)
        PROVE  upload'[u].status \in Ended
    <3>1. upload' = [upload EXCEPT ![v].status = status, ![v].lease = "live"] /\ Settable(v, status)
      BY <2>4 DEF SetUploadStatus
    <3>2. CASE v = u
      BY <2>1, <2>2, <3>1, <3>2 DEF Settable, RowTypes, Upload
    <3>3. CASE v # u
      BY <2>1, <3>1, <3>3 DEF RowTypes
    <3> QED
      BY <3>2, <3>3
  <2>5. ASSUME NEW v \in Uploads,
               \/ CreatesRows(v) \/ FinalizeUpload(v)
               \/ Creatable(v) /\ Linkable(v) /\ MakeAvailable(v)
        PROVE  upload'[u] = upload[u]
    <3>1. v # u
      BY <2>5 DEF CreatesRows, Creatable, FinalizeUpload, Finalizable, Confirming, Ended
    <3> QED
      BY <2>1, <2>5, <3>1 DEF CreatesRows, FinalizeUpload, MakeAvailable, RowTypes
  <2>6. ASSUME NEW a \in Artifacts, Toggles(a) \/ Purges(a)
        PROVE  upload'[u].status \in {upload[u].status, "deleted"}
    BY <2>2, <2>6 DEF Toggles, Purges, Upload
  <2> QED
    BY <2>1, <2>3, <2>4, <2>5, <2>6 DEF RowStep
<1> QED
  BY <1>1, UInvariant, PTL DEF Spec, EndIsFinal

\* What was confirmed stays, whatever late requests do (the guards of
\* SetUploadStatus and FinalizeUpload).
THEOREM ConfirmedUntouched == Spec => ConfirmedIsUntouched
<1> DEFINE A == \A u \in Uploads : version[u] = "available" =>
                  LET before == artifact[Of[u]].status
                      after == artifact'[Of[u]].status IN
                  \/ version'[u] = "available" /\ after \in {"available", "trashed"}
                  \/ version'[u] = "deleted" /\ before = "trashed" /\ after = "deleted"
<1>1. UInv /\ [Next]_vars => [A]_vars
  <2> SUFFICES ASSUME UInv, [Next]_vars, NEW u \in Uploads, version[u] = "available"
               PROVE  \/ version'[u] = "available" /\ artifact'[Of[u]].status \in {"available", "trashed"}
                      \/ /\ version'[u] = "deleted" /\ artifact[Of[u]].status = "trashed"
                         /\ artifact'[Of[u]].status = "deleted"
    BY DEF ConfirmedIsUntouched
  <2>1. RowStep /\ RowsInv /\ RowsInv'
    BY StepsAreRowSteps, RowStepsKeepRows DEF UInv, RowsInv
  <2>2. version'[u] = "available" => artifact'[Of[u]].status \in {"available", "trashed"}
    BY <2>1 DEF RowsInv, RowsAgree
  <2>3. ASSUME NEW v \in Uploads,
               \/ \E status \in {"uploading", "verifying", "failed"} \cup Ended :
                    SetUploadStatus(v, status)
               \/ CreatesRows(v) \/ FinalizeUpload(v)
               \/ Creatable(v) /\ Linkable(v) /\ MakeAvailable(v)
        PROVE  version'[u] = "available"
    <3>1. CreatesRows(v) => v # u
      BY <2>1 DEF CreatesRows, Creatable, RowsInv, RowsAgree
    <3> QED
      BY <2>1, <2>3, <3>1
         DEF SetUploadStatus, CreatesRows, FinalizeUpload, MakeAvailable, RowsInv, RowTypes
  <2>4. CASE Touches \/ \E a \in Artifacts : Toggles(a)
    BY <2>2, <2>4 DEF Touches, Toggles
  <2>5. ASSUME NEW a \in Artifacts, Purges(a)
        PROVE  \/ version'[u] = "available"
               \/ /\ version'[u] = "deleted" /\ artifact[Of[u]].status = "trashed"
                  /\ artifact'[Of[u]].status = "deleted"
    BY <2>1, <2>5, UploadConstants DEF Purges, RowsInv, RowTypes
  <2> QED
    BY <2>1, <2>2, <2>3, <2>4, <2>5 DEF RowStep
<1> QED
  BY <1>1, UInvariant, PTL DEF Spec, ConfirmedIsUntouched

\* Only a purge deletes content, and only content that versions in the trash
\* alone refer to (the reference count in Purge).
THEOREM SharedBytesKept == Spec => SharedBytesAreKept
<1> DEFINE A == \A d \in Contents : object[d] # "none" /\ object'[d] = "none" =>
                  \A u \in References(d) : artifact[Of[u]].status = "trashed"
<1>1. [Next]_vars /\ UInv => [A]_vars
  <2> SUFFICES ASSUME UInv, [Next]_vars, NEW d \in Contents,
                      object[d] # "none", object'[d] = "none",
                      NEW u \in References(d)
               PROVE  artifact[Of[u]].status = "trashed"
    OBVIOUS
  <2>1. \E a \in Artifacts : Purge(a) \/ \E removed \in SUBSET Contents : PurgeFails(a, removed)
    <3>1. \A c \in Processes : ~(ClientStep(c) \/ CleanStep(c) \/ Abandon(c))
      <4> SUFFICES ASSUME NEW c \in Processes, ClientStep(c) \/ CleanStep(c) \/ Abandon(c)
                   PROVE  FALSE
        OBVIOUS
      <4>1. object' # object
        OBVIOUS
      <4>2. Promote(c)
        BY <4>1
           DEF ClientStep, ConfirmStep, CleanStep, Abandon, Prepare, Abort, Expire, Confirm, Create,
               Link, ArchivePut, Begin, List, Reject, Complete, Verifying, Verify, Recheck, Finalize,
               Fail, Discard, End, AbortMultipart, DeleteStaging, MarkProviderAborted, CleanFails,
               storage
      <4>3. object' = object \/ object' = [object EXCEPT ![ContentOf[call[c].u]] = staging[call[c].u]]
        BY <4>2 DEF Promote, storage
      <4>4. ContentOf[call[c].u] # d \/ staging[call[c].u] # "none"
        BY <4>2, <4>1 DEF Promote, storage
      <4> QED
        BY <4>1, <4>3, <4>4 DEF UInv, StorageTypes
    <3>2. object' # object
      OBVIOUS
    <3> QED
      BY <3>1, <3>2
         DEF Next, vars, ReaperStep, Reap, Processes, SignParts, PutPart, SessionEnds, LeaseEnds,
             RestoreVersion, Trash, Restore, storage
  <2>2. PICK a \in Artifacts : Purge(a) \/ \E removed \in SUBSET Contents : PurgeFails(a, removed)
    BY <2>1
  <2>3. artifact[a].status = "trashed" /\ d \in Removable(a)
    BY <2>2 DEF Purge, PurgeFails
  <2> QED
    BY <2>3 DEF Removable
<1> QED
  BY <1>1, UInvariant, PTL DEF Spec, SharedBytesAreKept

-----------------------------------------------------------------------------
(* Every kind of change is a step of the shelf of versions.                *)

OnShelf == [Shelf!ShelfNext]_Shelf!shelfVars

\* Each fate has its statuses.
LEMMA FatesOfStatuses ==
  ASSUME RowTypes, NEW u \in Uploads
  PROVE  LET f == Fates[u]
             status == upload[u].status IN
         /\ f = FateOf(status)
         /\ f = "none" <=> status = "absent"
         /\ f = "open" <=> status \in Active
         /\ f = "ended" <=> status \in Ended
         /\ f = "kept" <=> status = "completed"
         /\ f = "purged" <=> status = "deleted"
         /\ f = "failed" <=> status = "failed"
<1>1. upload[u].status \in Active \cup Ended \cup {"absent", "deleted", "completed", "failed"}
  BY DEF RowTypes, Upload, Gone
<1> QED
  BY <1>1 DEF Fates, FateOf, Active, Ended

LEMMA PlacesOfStatuses ==
  ASSUME NEW a \in Artifacts
  PROVE  LET place == Places[a]
             status == artifact[a].status IN
         /\ place = PlaceOf(status)
         /\ place = "shown" <=> status = "available"
         /\ place = "trashed" <=> status = "trashed"
         /\ place = "purged" <=> status = "deleted"
BY DEF Places, PlaceOf

\* One upload has a new status.
LEMMA OneFate ==
  ASSUME NEW u \in Uploads, \A v \in Uploads \ {u} : upload'[v] = upload[v]
  PROVE  Fates' = [Fates EXCEPT ![u] = FateOf(upload'[u].status)]
BY DEF Fates

LEMMA SamePlaces ==
  ASSUME \A a \in Artifacts : /\ PlaceOf(artifact'[a].status) = PlaceOf(artifact[a].status)
                              /\ artifact'[a].current = artifact[a].current
  PROVE  UNCHANGED <<Places, Currents>>
<1>1. ASSUME NEW a \in Artifacts
      PROVE  artifact'[a].status \in {"available", "trashed"} <=>
             artifact[a].status \in {"available", "trashed"}
  BY DEF PlaceOf
<1> QED
  BY <1>1 DEF Places, Currents

LEMMA CreatableIsWanted ==
  ASSUME RowsInv, NEW u \in Uploads, Creatable(u)
  PROVE  Of[u] \in Artifacts /\ Fates[u] = "none" /\ Shelf!Wanted(u)
<1>1. Of[u] \in Artifacts
  BY UploadConstants
<1>2. upload[u].status = "absent" /\ Fates[u] = "none"
  BY FatesOfStatuses DEF Creatable, RowsInv
<1>3. CASE IsFirst(u)
  <2>1. \A v \in Uploads : Of[v] = Of[u] => upload[v].status = "absent"
    BY <1>1, <1>2, <1>3 DEF IsFirst, RowsInv, FirstIsPresent
  <2>2. \A v \in Shelf!VersionsOf(Of[u]) : Fates[v] = "none"
    BY <2>1, FatesOfStatuses DEF RowsInv, Shelf!VersionsOf
  <2> QED
    BY <1>1, <1>2, <2>2 DEF Shelf!Wanted
<1>4. CASE artifact[Of[u]].status = "available"
  BY <1>1, <1>2, <1>4, PlacesOfStatuses DEF Shelf!Wanted
<1> QED
  BY <1>3, <1>4 DEF Creatable

LEMMA TouchesOnShelf ==
  ASSUME RowsInv, Touches PROVE OnShelf
<1> DEFINE ended == {u \in Uploads : upload[u].status \in Active /\ upload'[u].status \in Ended}
<1>1. \A u \in ended : Fates[u] \in {"open", "failed"}
  BY FatesOfStatuses DEF RowsInv
<1>2. ASSUME NEW u \in Uploads
      PROVE  FateOf(upload'[u].status) = IF u \in ended THEN "ended" ELSE FateOf(upload[u].status)
  BY DEF Touches, FateOf, Active, Ended
<1>3. Fates' = [u \in Uploads |-> IF u \in ended THEN "ended" ELSE Fates[u]]
  BY <1>2 DEF Fates
<1>4. UNCHANGED <<Places, Currents>>
  BY DEF Touches, Places, Currents
<1>5. Shelf!End(ended)
  BY <1>1, <1>3, <1>4 DEF Shelf!End
<1> QED
  BY <1>5 DEF OnShelf, Shelf!ShelfNext

\* The artifact of a request that fails keeps its place: it is neither on the
\* shelf, since the upload would be completed, nor purged.
LEMMA SettlingOnShelf ==
  ASSUME RowsInv, NEW u \in Uploads,
         NEW status \in {"uploading", "verifying", "failed"} \cup Ended, SetUploadStatus(u, status)
  PROVE  OnShelf
<1> DEFINE s == StatusOfVersion(status)
           a == Of[u]
<1>1. /\ upload[u].status \notin {"absent", "deleted", "completed"}
      /\ upload[u].status \in Ended => status \in Ended
      /\ version[u] # "available"
  BY DEF SetUploadStatus, Settable, Gone, RowsInv, RowsAgree
<1>2. /\ upload' = [upload EXCEPT ![u].status = status, ![u].lease = "live"]
      /\ artifact' = IF artifact[a].current = u /\ artifact[a].status # "trashed"
                     THEN [artifact EXCEPT ![a].status = s] ELSE artifact
  BY DEF SetUploadStatus
<1>3. a \in Artifacts /\ s \in {"pending_upload", "verifying", "failed"}
  BY UploadConstants DEF StatusOfVersion
<1>4. artifact[a].status # "deleted"
  BY <1>1 DEF RowsInv, PurgedIsEmpty, Gone
<1>5. artifact[a].current = u => artifact[a].status \notin {"available", "trashed"}
  BY <1>1, <1>3 DEF RowsInv, RowsAgree
<1> HIDE DEF s, a
<1>6. ASSUME NEW b \in Artifacts
      PROVE  /\ PlaceOf(artifact'[b].status) = PlaceOf(artifact[b].status)
             /\ artifact'[b].current = artifact[b].current
  <2>1. CASE artifact' = artifact \/ b # a
    BY <1>2, <2>1 DEF RowsInv, RowTypes
  <2>2. CASE artifact' = [artifact EXCEPT ![a].status = s] /\ b = a /\ artifact[a].current = u
    <3>1. artifact'[a].status = s /\ artifact'[a].current = artifact[a].current
      BY <1>3, <2>2 DEF RowsInv, RowTypes, Artifact
    <3> QED
      BY <1>3, <1>4, <1>5, <2>2, <3>1 DEF PlaceOf
  <2> QED
    BY <1>2, <2>1, <2>2
<1>7. UNCHANGED <<Places, Currents>>
  BY <1>6, SamePlaces
<1>8. upload'[u].status = status /\ \A v \in Uploads \ {u} : upload'[v] = upload[v]
  BY <1>2 DEF RowsInv, RowTypes, Upload
<1>9. Fates' = [Fates EXCEPT ![u] = FateOf(status)]
  BY <1>8, OneFate
<1>10. Fates[u] \in {"open", "failed", "ended"} /\ (Fates[u] = "ended" => status \in Ended)
  <2>1. upload[u].status \in Active \cup Ended \cup {"failed"}
    BY <1>1 DEF RowsInv, RowTypes, Upload, Gone
  <2> QED
    BY <1>1, <2>1, FatesOfStatuses DEF RowsInv
<1>11. /\ status \in Ended => FateOf(status) = "ended"
       /\ status = "failed" => FateOf(status) = "failed"
       /\ status \in {"uploading", "verifying"} => FateOf(status) = "open"
  BY DEF FateOf, Active, Ended
<1>12. CASE status \in Ended /\ Fates[u] # "ended"
  <2>1. Fates' = [v \in Uploads |-> IF v \in {u} THEN "ended" ELSE Fates[v]]
    BY <1>9, <1>11, <1>12 DEF Fates
  <2>2. Shelf!End({u})
    BY <1>7, <1>10, <1>12, <2>1 DEF Shelf!End
  <2> QED
    BY <2>2 DEF OnShelf, Shelf!ShelfNext
<1>13. CASE status = "failed" /\ Fates[u] = "open"
  <2>1. Shelf!Fail(u)
    BY <1>7, <1>9, <1>11, <1>13 DEF Shelf!Fail
  <2> QED
    BY <2>1 DEF OnShelf, Shelf!ShelfNext
<1>14. CASE status \in {"uploading", "verifying"} /\ Fates[u] = "failed"
  <2>1. Shelf!Retry(u)
    BY <1>7, <1>9, <1>11, <1>14 DEF Shelf!Retry
  <2> QED
    BY <2>1 DEF OnShelf, Shelf!ShelfNext
<1>15. CASE FateOf(status) = Fates[u]
  <2>1. UNCHANGED Shelf!shelfVars
    BY <1>7, <1>9, <1>15 DEF Shelf!shelfVars, Fates
  <2> QED
    BY <2>1 DEF OnShelf
<1> QED
  BY <1>10, <1>11, <1>12, <1>13, <1>14, <1>15

LEMMA CreatingOnShelf ==
  ASSUME RowsInv, NEW u \in Uploads, CreatesRows(u) PROVE OnShelf
<1>1. Of[u] \in Artifacts /\ Fates[u] = "none" /\ Shelf!Wanted(u)
  BY CreatableIsWanted DEF CreatesRows
<1>2. Fates' = [Fates EXCEPT ![u] = "open"]
  <2>1. upload'[u].status = "initialized" /\ \A v \in Uploads \ {u} : upload'[v] = upload[v]
    BY DEF CreatesRows, RowsInv, RowTypes, Upload
  <2>2. FateOf("initialized") = "open"
    BY DEF FateOf, Active, Ended
  <2> QED
    BY <2>1, <2>2, OneFate
<1>3. UNCHANGED <<Places, Currents>>
  <2>1. CASE IsFirst(u)
    <3>1. artifact[Of[u]].status = "absent"
      BY <1>1, <2>1 DEF CreatesRows, Creatable, RowsInv, FirstIsPresent, IsFirst
    <3>2. /\ artifact'[Of[u]].status = "pending_upload"
          /\ \A a \in Artifacts \ {Of[u]} : artifact'[a] = artifact[a]
      BY <1>1, <2>1 DEF CreatesRows, RowsInv, RowTypes
    <3> QED
      BY <3>1, <3>2 DEF Places, Currents, PlaceOf
  <2>2. CASE ~IsFirst(u)
    BY <2>2 DEF CreatesRows, Places, Currents
  <2> QED
    BY <2>1, <2>2
<1>4. Shelf!Begin(u)
  BY <1>1, <1>2, <1>3 DEF Shelf!Begin
<1> QED
  BY <1>4 DEF OnShelf, Shelf!ShelfNext

\* A version becomes available, at once or when it is finalized.
LEMMA KeepingOnShelf ==
  ASSUME RowsInv, NEW u \in Uploads,
         Shelf!Wanted(u) \/ Fates[u] = "open",
         artifact[Of[u]].status \notin {"trashed", "deleted"},
         upload'[u].status = "completed", \A v \in Uploads \ {u} : upload'[v] = upload[v],
         artifact' = [artifact EXCEPT ![Of[u]] = [status |-> "available", current |-> u]]
  PROVE  OnShelf
<1>1. Of[u] \in Artifacts
  BY UploadConstants
<1>2. Fates' = [Fates EXCEPT ![u] = "kept"]
  <2>1. FateOf("completed") = "kept"
    BY DEF FateOf, Active, Ended
  <2> QED
    BY <2>1, OneFate
<1>3. Places[Of[u]] \in {"none", "shown"}
  BY <1>1 DEF Places, PlaceOf
<1>4. /\ artifact'[Of[u]].status = "available" /\ artifact'[Of[u]].current = u
      /\ \A a \in Artifacts \ {Of[u]} : artifact'[a] = artifact[a]
  BY <1>1 DEF RowsInv, RowTypes
<1>5. Places' = [Places EXCEPT ![Of[u]] = "shown"]
  BY <1>4 DEF Places, PlaceOf
<1>6. Currents' = [Currents EXCEPT ![Of[u]] = u]
  <2>1. Currents'[Of[u]] = u
    BY <1>1, <1>4 DEF Currents
  <2>2. \A a \in Artifacts \ {Of[u]} : Currents'[a] = Currents[a]
    BY <1>4 DEF Currents
  <2>3. Currents' = [a \in Artifacts |-> Currents'[a]] /\ Currents = [a \in Artifacts |-> Currents[a]]
    BY DEF Currents
  <2> QED
    BY <2>1, <2>2, <2>3
<1>7. Shelf!Keep(u)
  BY <1>2, <1>3, <1>5, <1>6 DEF Shelf!Keep
<1> QED
  BY <1>7 DEF OnShelf, Shelf!ShelfNext

LEMMA MakingOnShelf ==
  ASSUME RowsInv, NEW u \in Uploads, Creatable(u), MakeAvailable(u) PROVE OnShelf
<1>1. upload'[u].status = "completed" /\ \A v \in Uploads \ {u} : upload'[v] = upload[v]
  BY DEF MakeAvailable, RowsInv, RowTypes, Upload
<1>2. artifact[Of[u]].status \notin {"trashed", "deleted"}
  BY UploadConstants DEF Creatable, IsFirst, RowsInv, FirstIsPresent
<1> QED
  BY <1>1, <1>2, CreatableIsWanted, KeepingOnShelf DEF MakeAvailable

LEMMA FinalizingOnShelf ==
  ASSUME RowsInv, NEW u \in Uploads, FinalizeUpload(u) PROVE OnShelf
<1>1. upload'[u].status = "completed" /\ \A v \in Uploads \ {u} : upload'[v] = upload[v]
  BY DEF FinalizeUpload, RowsInv, RowTypes, Upload
<1>2. upload[u].status \in Confirming /\ artifact[Of[u]].status # "trashed"
  BY DEF FinalizeUpload, Finalizable
<1>3. Fates[u] = "open"
  BY <1>2, FatesOfStatuses DEF RowsInv, Confirming, Active
<1>4. artifact[Of[u]].status # "deleted"
  BY <1>2 DEF RowsInv, PurgedIsEmpty, Confirming, Gone
<1> QED
  BY <1>1, <1>2, <1>3, <1>4, KeepingOnShelf DEF FinalizeUpload

LEMMA TogglingOnShelf ==
  ASSUME RowsInv, NEW a \in Artifacts, Toggles(a) PROVE OnShelf
<1>1. UNCHANGED Fates
  BY DEF Toggles, Fates
<1>2. artifact'[a].current = artifact[a].current /\ \A b \in Artifacts \ {a} : artifact'[b] = artifact[b]
  BY DEF Toggles, RowsInv, RowTypes, Artifact
<1>3. CASE artifact[a].status = "available" /\ artifact'[a].status = "trashed"
  <2>1. \A u \in Shelf!VersionsOf(a) : Fates[u] # "open"
    BY <1>3, FatesOfStatuses DEF Toggles, IsActive, RowsInv, Shelf!VersionsOf
  <2>2. /\ Places[a] = "shown" /\ Places' = [Places EXCEPT ![a] = "trashed"]
        /\ UNCHANGED Currents
    BY <1>2, <1>3 DEF Places, PlaceOf, Currents
  <2>3. Shelf!Trash(a)
    BY <1>1, <2>1, <2>2 DEF Shelf!Trash
  <2> QED
    BY <2>3 DEF OnShelf, Shelf!ShelfNext
<1>4. CASE artifact[a].status = "trashed" /\ artifact'[a].status = "available"
  <2>1. /\ Places[a] = "trashed" /\ Places' = [Places EXCEPT ![a] = "shown"]
        /\ UNCHANGED Currents
    BY <1>2, <1>4 DEF Places, PlaceOf, Currents
  <2>2. Shelf!TakeBack(a)
    BY <1>1, <2>1 DEF Shelf!TakeBack
  <2> QED
    BY <2>2 DEF OnShelf, Shelf!ShelfNext
<1> QED
  BY <1>3, <1>4 DEF Toggles, RowsInv, RowTypes, Artifact

LEMMA PurgingOnShelf ==
  ASSUME RowsInv, NEW a \in Artifacts, Purges(a) PROVE OnShelf
<1>1. /\ artifact'[a].status = "deleted"
      /\ \A b \in Artifacts \ {a} : artifact'[b] = artifact[b]
  BY DEF Purges, RowsInv, RowTypes
<1>2. Places[a] = "trashed"
  BY DEF Purges, Places, PlaceOf
<1>3. Places' = [Places EXCEPT ![a] = "purged"] /\ Currents' = [Currents EXCEPT ![a] = NoUpload]
  BY <1>1 DEF Places, PlaceOf, Currents
<1>4. ASSUME NEW u \in Uploads
      PROVE  FateOf(upload'[u].status) =
               IF u \in Shelf!VersionsOf(a) /\ Fates[u] # "none" THEN "purged" ELSE Fates[u]
  <2>1. upload[u] \in Upload /\ Fates[u] = FateOf(upload[u].status)
        /\ (Fates[u] = "none" <=> upload[u].status = "absent")
    BY FatesOfStatuses DEF RowsInv, RowTypes
  <2>2. CASE Of[u] = a /\ upload[u].status # "absent"
    <3>1. upload'[u].status = "deleted"
      BY <2>1, <2>2 DEF Purges, Upload
    <3>2. FateOf("deleted") = "purged"
      BY DEF FateOf, Active, Ended
    <3> QED
      BY <2>1, <2>2, <3>1, <3>2 DEF Shelf!VersionsOf
  <2>3. CASE ~(Of[u] = a /\ upload[u].status # "absent")
    BY <2>1, <2>3 DEF Purges, Shelf!VersionsOf
  <2> QED
    BY <2>2, <2>3
<1>5. Fates' = [u \in Uploads |-> IF u \in Shelf!VersionsOf(a) /\ Fates[u] # "none"
                                  THEN "purged" ELSE Fates[u]]
  BY <1>4 DEF Fates
<1>6. Shelf!Purge(a)
  BY <1>2, <1>3, <1>5 DEF Shelf!Purge
<1> QED
  BY <1>6 DEF OnShelf, Shelf!ShelfNext

\* Uploads keep the promise made about versions (docs/adr/0002): whatever
\* confirmations, aborts, the reaper and the trash do at once, what was
\* confirmed stays until it is purged and what has ended stays so.
THEOREM UploadsKeepVersions == Spec => VersionsAreKept
<1>1. Init => Shelf!ShelfInit
  <2> SUFFICES ASSUME Init PROVE Shelf!ShelfInit
    OBVIOUS
  <2>1. FateOf("absent") = "none" /\ PlaceOf("absent") = "none"
    BY DEF FateOf, PlaceOf, Active, Ended
  <2>2. /\ \A u \in Uploads : upload[u].status = "absent"
        /\ \A a \in Artifacts : artifact[a].status = "absent"
    BY DEF Init
  <2>3. /\ Fates = [u \in Uploads |-> "none"] /\ Places = [a \in Artifacts |-> "none"]
        /\ Currents = [a \in Artifacts |-> NoUpload]
    BY <2>1, <2>2 DEF Fates, Places, Currents
  <2> QED
    BY <2>3 DEF Shelf!ShelfInit
<1>2. UInv /\ [Next]_vars => [Shelf!ShelfNext]_Shelf!shelfVars
  <2> SUFFICES ASSUME UInv, [Next]_vars PROVE OnShelf
    BY DEF OnShelf
  <2>1. RowStep /\ RowsInv
    BY StepsAreRowSteps DEF UInv, RowsInv
  <2> QED
    BY <2>1, TouchesOnShelf, SettlingOnShelf, CreatingOnShelf, MakingOnShelf, FinalizingOnShelf,
       TogglingOnShelf, PurgingOnShelf DEF RowStep
<1> QED
  BY <1>1, <1>2, UInvariant, PTL DEF Spec, VersionsAreKept, Shelf!ShelfSpec
=============================================================================
