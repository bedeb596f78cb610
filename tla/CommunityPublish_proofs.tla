------------------------ MODULE CommunityPublish_proofs ------------------------
(***************************************************************************)
(* What CommunityPublish guarantees for any posts, contents, jobs, deaths  *)
(* and requests.                                                           *)
(***************************************************************************)
EXTENDS CommunityPublish, TLAPS

(***************************************************************************)
(* Types: what each kind of update does to the rows of a table.            *)
(***************************************************************************)

\* A file is a post and a content.
LEMMA FileParts == \A f \in File : f[1] \in Post /\ f[2] \in Sha /\ f = <<f[1], f[2]>>
  BY DEF File

\* A row replaced by a well-typed one leaves a well-typed table.
LEMMA RowType ==
  ASSUME NEW S, NEW R, NEW t \in [S -> R], NEW x, NEW r, x \in S => r \in R
  PROVE  [t EXCEPT ![x] = r] \in [S -> R]
  OBVIOUS

\* One more outage stays within the bound.
LEMMA OutageType ==
  ASSUME PublishTypeOK, outages < MaxOutage
  PROVE  outages + 1 \in 0 .. MaxOutage
  BY PublishAssumption DEF PublishTypeOK

\* Each update of a table, and each way of moving a process on, is well typed.
LEMMA PostAsType ==
  ASSUME PublishTypeOK, NEW p, NEW s \in PostStatus
  PROVE  PostAs(p, s) \in [Post -> PostRow]
<1>1. p \in Post => [post[p] EXCEPT !.status = s] \in PostRow
  BY DEF PublishTypeOK, PostRow
<1> QED BY <1>1, RowType DEF PublishTypeOK, PostAs

\* The update of a file's status.
LEMMA FileAsType ==
  ASSUME PublishTypeOK, NEW f, NEW s \in FileStatus
  PROVE  FileAs(f, s) \in [File -> FileRow]
<1>1. f \in File => [file[f] EXCEPT !.status = s] \in FileRow
  BY DEF PublishTypeOK, FileRow
<1> QED BY <1>1, RowType DEF PublishTypeOK, FileAs

\* The update that writes a file off.
LEMMA InvalidatedType ==
  ASSUME PublishTypeOK, NEW f, NEW j
  PROVE  Invalidated(f, j) \in [File -> FileRow]
  BY FileAsType DEF Invalidated, PublishTypeOK, FileStatus, Uploading

\* The update that fails an attempt.
LEMMA FailAttemptType ==
  ASSUME PublishTypeOK, NEW f, NEW j, FailAttempt(f, j)
  PROVE  post' \in [Post -> PostRow] /\ file' \in [File -> FileRow]
  BY FileAsType, PostAsType DEF FailAttempt, PublishTypeOK, FileStatus, Uploading, PostStatus

\* A row that is over.
LEMMA OverType ==
  ASSUME PublishTypeOK, NEW j, NEW s \in Status
  PROVE  Over(j, s) \in [Publish -> PubRow]
<1>1. j \in Publish => [EmptyPub EXCEPT !.status = s, !.file = pub[j].file] \in PubRow
  BY DEF PublishTypeOK, PubRow, EmptyPub
<1> QED BY <1>1, RowType DEF PublishTypeOK, Over

\* A row after an allowed transition, or as it was.
LEMMA PubAsType ==
  ASSUME PublishTypeOK, NEW j, NEW s \in Status
  PROVE  PubAs(j, s) \in [Publish -> PubRow]
<1>1. j \in Publish => [pub[j] EXCEPT !.status = s] \in PubRow
  BY DEF PublishTypeOK, PubRow
<1>2. [pub EXCEPT ![j].status = s] \in [Publish -> PubRow]
  BY <1>1, RowType DEF PublishTypeOK
<1> QED BY <1>2, OverType DEF PublishTypeOK, PubAs

\* A row that has lost its runner.
LEMMA InterruptedType ==
  ASSUME PublishTypeOK, NEW j, NEW r \in BOOLEAN, NEW e \in BOOLEAN
  PROVE  Interrupted(j, r, e) \in [Publish -> PubRow]
<1>1. j \in Publish => [pub[j] EXCEPT !.status = "interrupted", !.recov = r, !.exited = e] \in PubRow
  BY DEF PublishTypeOK, PubRow, Status
<1> QED BY <1>1, RowType DEF PublishTypeOK, Interrupted

\* A row that is queued again.
LEMMA RetriedType ==
  ASSUME PublishTypeOK, NEW j
  PROVE  Retried(j) \in [Publish -> PubRow]
<1> DEFINE n == pub[j].attempt + (IF pub[j].exited THEN 1 ELSE 0)
           row == [pub[j] EXCEPT !.status = "queued", !.exited = FALSE, !.recov = FALSE,
                                 !.attempt = n]
<1>1. j \in Publish => row \in PubRow
  <2>1. j \in Publish => pub[j] \in PubRow /\ n \in Nat
    BY DEF PublishTypeOK, PubRow
  <2> HIDE DEF n
  <2> QED BY <2>1 DEF PubRow, Status
<1> HIDE DEF row
<1>2. [pub EXCEPT ![j] = row] \in [Publish -> PubRow]
  BY <1>1, RowType DEF PublishTypeOK
<1> QED BY <1>2 DEF Retried, row

\* All the updates of the jobs table.
LEMMA PubTypes ==
  ASSUME PublishTypeOK, NEW j
  PROVE  /\ Reconciled(j, "finished") \in [Publish -> PubRow]
         /\ Reconciled(j, "failed") \in [Publish -> PubRow]
         /\ CancelledInFlight(j) \in [Publish -> PubRow]
         /\ \A r, e \in BOOLEAN : Interrupted(j, r, e) \in [Publish -> PubRow]
         /\ \A s \in Terminal \union {"queued", "resumable"} : PubAs(j, s) \in [Publish -> PubRow]
  BY OverType, PubAsType, InterruptedType
     DEF PublishTypeOK, Reconciled, CancelledInFlight, Status, Terminal

\* A row as the worker closes it.
LEMMA FlightClosedType ==
  ASSUME PublishTypeOK, NEW j, NEW r \in BOOLEAN, NEW e \in BOOLEAN
  PROVE  FlightClosed(j, r, e) \in [Publish -> PubRow]
  BY PubTypes DEF FlightClosed

\* The API goes to a next point of a request ...
LEMMA ApiGotoType ==
  ASSUME NEW pc \in ApiPc, NEW f \in File \union {NoFile}, NEW j \in Publish \union {NoPublish},
         ApiGoto(pc, f, j)
  PROVE  api' \in ApiState
  BY DEF ApiGoto, ApiState

\* ... or back to none.
LEMMA ApiIdleType == ApiIdle \in ApiState
  BY DEF ApiIdle, ApiState, ApiPc

\* The runner goes on ...
LEMMA RunnerGotoType ==
  ASSUME PublishTypeOK, NEW pc \in RunnerPc, RunnerGoto(pc)
  PROVE  upload' \in UploadState
  BY DEF PublishTypeOK, RunnerGoto, UploadState

\* ... or exits ...
LEMMA RunnerExitsType == RunnerExits => upload' \in UploadState
  BY DEF RunnerExits, NoUpload, UploadState, RunnerPc

\* ... or looks whether it is still wanted ...
LEMMA CheckedType ==
  ASSUME PublishTypeOK, NEW pc \in RunnerPc, Checked(pc)
  PROVE  upload' \in UploadState
  BY RunnerGotoType DEF Checked, RunnerPc

\* ... or writes its file if it is.
LEMMA UpdateFileType ==
  ASSUME PublishTypeOK, NEW row, MyFile \in File => row \in FileRow,
         NEW done \in RunnerPc, NEW refused \in RunnerPc, UpdateFile(row, done, refused)
  PROVE  file' \in [File -> FileRow] /\ upload' \in UploadState
<1>1. [file EXCEPT ![MyFile] = row] \in [File -> FileRow]
  BY RowType DEF PublishTypeOK
<1> QED BY <1>1, RunnerGotoType DEF UpdateFile, PublishTypeOK

(***************************************************************************)
(* A row that exists names a file, and whoever works on a row has one.     *)
(***************************************************************************)

PubFiles ==
  \A j \in Publish : IF pub[j].status = "absent" THEN pub[j].file = NoFile
                     ELSE pub[j].file \in File

HasFile(j) == j \in Publish /\ pub[j].status # "absent"

ApiHasFile ==
  /\ ~ApiAt("idle") => api.file \in File
  /\ ApiAt("activate") \/ ApiAt("enqueue") =>
       HasFile(api.job) /\ pub[api.job].file = api.file

WorkerHasFile ==
  worker.pc \in {"act", "settle", "spawn", "watch", "stopping"} => HasFile(worker.job)

UploadHasFile == RunnerAlive => HasFile(upload.job)

PublishBase == PublishTypeOK /\ PubFiles /\ ApiHasFile /\ WorkerHasFile /\ UploadHasFile

\* A live runner works on a row that exists, and on its file.
LEMMA MyFileIsFile ==
  ASSUME PublishBase, RunnerAlive
  PROVE  upload.job \in Publish /\ MyFile \in File
  BY DEF PublishBase, UploadHasFile, HasFile, PubFiles, MyFile

\* No request leaves the types.
LEMMA ApiTypes ==
  ASSUME PublishTypeOK, ApiNext
  PROVE  PublishTypeOK'
<1>1. CASE RequestPublish
  <2>1. PICK f \in File :
          \/ \E j \in Publish :
               /\ pub' = [pub EXCEPT ![j] = [EmptyPub EXCEPT !.status = "staging",
                                                             !.file = f, !.owned = TRUE]]
               /\ ApiGoto("activate", f, j) /\ UNCHANGED post
          \/ post' = PostAs(f[1], "published") /\ UNCHANGED <<pub, api>>
    BY <1>1 DEF RequestPublish
  <2>2. [EmptyPub EXCEPT !.status = "staging", !.file = f, !.owned = TRUE] \in PubRow
    BY DEF EmptyPub, PubRow, Status
  <2>3. PostAs(f[1], "published") \in [Post -> PostRow]
    BY PostAsType DEF PostStatus
  <2>4. "activate" \in ApiPc
    BY DEF ApiPc
  <2> QED
    BY <1>1, <2>1, <2>2, <2>3, <2>4, ApiGotoType, RowType DEF RequestPublish, PublishTypeOK
<1>2. CASE ActivateAttempt
  <2> DEFINE f == api.file
  <2>1. f \in File \union {NoFile} /\ api.job \in Publish \union {NoPublish}
    BY DEF PublishTypeOK, ApiState
  <2>2. \A j \in Publish \union {NoPublish}, g \in File :
          [file[g] EXCEPT !.status = "pending", !.job = j] \in FileRow
    BY DEF PublishTypeOK, FileRow, FileStatus, Uploading
  <2>3. file' \in [File -> FileRow]
    <3> DEFINE row == [file[f] EXCEPT !.status = "pending", !.job = api.job]
    <3>1. file' = [file EXCEPT ![f] = row]
      BY <1>2 DEF ActivateAttempt
    <3>2. f \in File => row \in FileRow
      BY <2>1, <2>2
    <3> HIDE DEF f, row
    <3> QED BY <3>1, <3>2, RowType DEF PublishTypeOK
  <2>4. latest' \in [Post -> File \union {NoFile}]
    BY <1>2, <2>1, RowType DEF ActivateAttempt, PublishTypeOK
  <2>5. post' \in [Post -> PostRow]
    BY <1>2, PostAsType DEF ActivateAttempt, PostStatus
  <2>6. api' \in ApiState
    BY <1>2, <2>1, ApiGotoType, ApiIdleType DEF ActivateAttempt, ApiPc
  <2>7. \A j \in Publish : [pub[j] EXCEPT !.owned = FALSE] \in PubRow
    BY DEF PublishTypeOK, PubRow
  <2>8. pub' \in [Publish -> PubRow]
    <3> DEFINE row == [pub[api.job] EXCEPT !.owned = FALSE]
    <3>1. pub' = pub \/ pub' = [pub EXCEPT ![api.job] = row]
      BY <1>2 DEF ActivateAttempt
    <3>2. api.job \in Publish => row \in PubRow
      BY <2>7
    <3> HIDE DEF row
    <3> QED BY <3>1, <3>2, RowType DEF PublishTypeOK
  <2> QED BY <1>2, <2>3, <2>4, <2>5, <2>6, <2>8 DEF ActivateAttempt, PublishTypeOK
<1>3. CASE EnqueuePublishJob
  <2>1. PubAs(api.job, "queued") \in [Publish -> PubRow]
    BY PubTypes
  <2>2. pub' \in [Publish -> PubRow]
    <3> DEFINE t == PubAs(api.job, "queued")
    <3>1. api.job \in Publish => [t[api.job] EXCEPT !.owned = FALSE] \in PubRow
      BY <2>1 DEF PubRow
    <3>2. pub' = [t EXCEPT ![api.job] = [t[api.job] EXCEPT !.owned = FALSE]]
      BY <1>3 DEF EnqueuePublishJob
    <3> HIDE DEF t
    <3> QED BY <2>1, <3>1, <3>2, RowType DEF t
  <2> QED BY <1>3, <2>2, ApiIdleType DEF EnqueuePublishJob, PublishTypeOK
<1>4. CASE Unpublish
  <2>1. PICK p \in Post : /\ post' = PostAs(p, "unpublished") /\ Withdraw(p)
                          /\ IF latest[p] = NoFile THEN UNCHANGED api
                             ELSE ApiGoto("invalidate", latest[p], file[latest[p]].job)
    BY <1>4 DEF Unpublish
  <2>2. post' \in [Post -> PostRow]
    BY <2>1, PostAsType DEF PostStatus
  <2>3. api' \in ApiState
    <3>1. CASE latest[p] = NoFile
      BY <2>1, <3>1 DEF PublishTypeOK
    <3>2. CASE latest[p] # NoFile
      <4>1. latest[p] \in File
        BY <3>2 DEF PublishTypeOK
      <4>2. file[latest[p]].job \in Publish \union {NoPublish}
        BY <4>1 DEF PublishTypeOK, FileRow
      <4> QED BY <2>1, <3>2, <4>1, <4>2, ApiGotoType DEF ApiPc
    <3> QED BY <3>1, <3>2
  <2>4. withdrawn' \subseteq Publish
    BY <2>1 DEF Withdraw, PublishTypeOK
  <2> QED BY <1>4, <2>2, <2>3, <2>4 DEF Unpublish, PublishTypeOK
<1>5. CASE UnpublishFile
  <2>1. api.file \in File \union {NoFile} /\ api.job \in Publish \union {NoPublish}
    BY DEF PublishTypeOK, ApiState
  <2>2. api' \in ApiState
    BY <1>5, <2>1, ApiGotoType, ApiIdleType DEF UnpublishFile, ApiPc
  <2>3. file' \in [File -> FileRow]
    BY <1>5, InvalidatedType DEF UnpublishFile, PublishTypeOK
  <2> QED BY <1>5, <2>2, <2>3 DEF UnpublishFile, PublishTypeOK
<1>6. CASE UnpublishJob
  <2>1. \A j \in Publish : [pub[j] EXCEPT !.cancel = TRUE] \in PubRow
    BY DEF PublishTypeOK, PubRow
  <2>2. pub' \in [Publish -> PubRow]
    BY <1>6, <2>1, RowType DEF UnpublishJob, PublishTypeOK
  <2> QED BY <1>6, <2>2, ApiIdleType DEF UnpublishJob, PublishTypeOK
<1>7. CASE ModeratePost
  <2>1. PICK p \in Post, to \in {<<"published", "hidden">>, <<"published", "approved">>,
                                   <<"blocked", "removed">>} :
          /\ post' = [post EXCEPT ![p] = [@ EXCEPT !.status = to[1], !.mod = to[2]]]
          /\ Withdraw(p)
    BY <1>7 DEF ModeratePost
  <2>2. [post[p] EXCEPT !.status = to[1], !.mod = to[2]] \in PostRow
    <3>1. to[1] \in PostStatus /\ to[2] \in {"hidden", "approved", "removed"}
      BY DEF PostStatus
    <3>2. \A s \in PostStatus, m \in {"hidden", "approved", "removed"} :
            [post[p] EXCEPT !.status = s, !.mod = m] \in PostRow
      BY DEF PublishTypeOK, PostRow
    <3> QED BY <3>1, <3>2
  <2>3. post' \in [Post -> PostRow]
    BY <2>1, <2>2, RowType DEF PublishTypeOK
  <2>4. withdrawn' \subseteq Publish
    BY <2>1 DEF Withdraw, PublishTypeOK
  <2> QED BY <1>7, <2>3, <2>4 DEF ModeratePost, PublishTypeOK
<1>8. CASE SoftDeletePost
  <2>1. PICK p \in Post :
          /\ post' = [post EXCEPT ![p] = [@ EXCEPT !.status = "deleted", !.gone = TRUE]]
          /\ Withdraw(p)
    BY <1>8 DEF SoftDeletePost
  <2>2. [post[p] EXCEPT !.status = "deleted", !.gone = TRUE] \in PostRow
    BY DEF PublishTypeOK, PostRow, PostStatus
  <2>3. post' \in [Post -> PostRow]
    BY <2>1, <2>2, RowType DEF PublishTypeOK
  <2>4. withdrawn' \subseteq Publish
    BY <2>1 DEF Withdraw, PublishTypeOK
  <2> QED BY <1>8, <2>3, <2>4 DEF SoftDeletePost, PublishTypeOK
<1>9. CASE DeleteRemoteFile
  <2>1. PICK p \in Post : /\ latest[p] # NoFile /\ file' = FileAs(latest[p], "deleting")
                          /\ ApiGoto("trash", latest[p], NoPublish)
    BY <1>9 DEF DeleteRemoteFile
  <2>2. latest[p] \in File /\ NoPublish \in Publish \union {NoPublish}
    BY <2>1 DEF PublishTypeOK
  <2>3. api' \in ApiState
    BY <2>1, <2>2, ApiGotoType DEF ApiPc
  <2>4. file' \in [File -> FileRow]
    BY <2>1, FileAsType DEF FileStatus
  <2> QED BY <1>9, <2>3, <2>4 DEF DeleteRemoteFile, PublishTypeOK
<1>10. CASE TrashRemoteFile
  <2>1. api.file \in File \union {NoFile} /\ NoPublish \in Publish \union {NoPublish}
    BY DEF PublishTypeOK, ApiState
  <2>2. api' \in ApiState
    BY <1>10, <2>1, ApiGotoType, ApiIdleType DEF TrashRemoteFile, ApiPc
  <2> QED BY <1>10, <2>2 DEF TrashRemoteFile, PublishTypeOK
<1>11. CASE RemoteFileDeleted
  BY <1>11, ApiIdleType, FileAsType DEF RemoteFileDeleted, PublishTypeOK, FileStatus
<1>12. CASE ApiDies
  <2>1. \A j \in Publish : [pub[j] EXCEPT !.owned = FALSE] \in PubRow
    BY DEF PublishTypeOK, PubRow
  <2> QED BY <1>12, <2>1, ApiIdleType, OutageType DEF ApiDies, PublishTypeOK
<1> QED
  BY <1>1, <1>2, <1>3, <1>4, <1>5, <1>6, <1>7, <1>8, <1>9, <1>10, <1>11, <1>12 DEF ApiNext


\* No step of a runner does.
LEMMA RunnerTypes ==
  ASSUME PublishBase, RunnerNext
  PROVE  PublishTypeOK'
<1> USE DEF RunnerPc
<1>t. PublishTypeOK
  BY DEF PublishBase
<1> USE <1>t
<1>f. RunnerAlive => upload.job \in Publish /\ MyFile \in File
  BY MyFileIsFile
<1>0. upload.job \in Publish \union {NoPublish} /\ upload.ref \in Remote \union {NoRemote}
  BY DEF PublishTypeOK, UploadState
<1>r. \A r \in Remote \union {NoRemote}, g \in File :
        /\ [file[g] EXCEPT !.ref = r] \in FileRow
        /\ [file[g] EXCEPT !.session = TRUE, !.ref = r] \in FileRow
        /\ [file[g] EXCEPT !.status = "verifying", !.ref = r] \in FileRow
        /\ [file[g] EXCEPT !.status = "uploading", !.ref = r, !.session = FALSE] \in FileRow
  BY DEF PublishTypeOK, FileRow, FileStatus, Uploading
<1>1. CASE RunnerStarts
  <2> DEFINE row == [pub[upload.job] EXCEPT !.status = "running"]
  <2>1. upload.job \in Publish => row \in PubRow
    <3>1. \A j \in Publish : [pub[j] EXCEPT !.status = "running"] \in PubRow
      BY DEF PublishTypeOK, PubRow, Status, InFlight
    <3> QED BY <3>1
  <2>2. pub' = pub \/ pub' = [pub EXCEPT ![upload.job] = row]
    BY <1>1 DEF RunnerStarts
  <2>3. upload' \in UploadState
    BY <1>1, RunnerGotoType, RunnerExitsType DEF RunnerStarts
  <2> HIDE DEF row
  <2>4. pub' \in [Publish -> PubRow]
    BY <2>1, <2>2, RowType DEF PublishTypeOK
  <2> QED BY <1>1, <2>3, <2>4 DEF RunnerStarts, PublishTypeOK
<1>2. CASE RunnerInterrupts
  BY <1>2, PubTypes, RunnerExitsType DEF RunnerInterrupts, PublishTypeOK
<1>3. CASE RunnerChecks
  <2>1. upload' \in UploadState
    BY <1>3, RunnerGotoType, CheckedType DEF RunnerChecks
  <2> QED BY <1>3, <2>1 DEF RunnerChecks, PublishTypeOK
<1>4. CASE PreviousRemote
  <2>1. upload' \in UploadState
    <3> DEFINE r == file[MyFile].ref
    <3>1. r \in Remote \union {NoRemote}
      BY <1>4, <1>f DEF PreviousRemote, RunnerAt, RunnerAlive, PublishTypeOK, FileRow
    <3>2. \A q \in Remote \union {NoRemote} : [upload EXCEPT !.pc = "reuse", !.ref = q] \in UploadState
      BY DEF PublishTypeOK, UploadState
    <3>3. RunnerGoto("mark") \/ RunnerGoto("drop") \/ upload' = [upload EXCEPT !.pc = "reuse", !.ref = r]
      BY <1>4 DEF PreviousRemote
    <3> QED BY <3>1, <3>2, <3>3, RunnerGotoType
  <2> QED BY <1>4, <2>1 DEF PreviousRemote, PublishTypeOK
<1>5. CASE ReuseRemote
  <2>1. file' \in [File -> FileRow] /\ upload' \in UploadState
    BY <1>5, <1>0, <1>r, UpdateFileType DEF ReuseRemote
  <2> QED BY <1>5, <2>1 DEF ReuseRemote, PublishTypeOK
<1>6. CASE DropRemote
  <2>1. remote' \in [Remote -> {"unused", "unusable", "complete"}]
    BY <1>6 DEF DropRemote, PublishTypeOK
  <2>2. upload' \in UploadState
    BY <1>6, RunnerGotoType DEF DropRemote
  <2> QED BY <1>6, <2>1, <2>2 DEF DropRemote, PublishTypeOK
<1>7. CASE MarkUploading
  <2>1. file' \in [File -> FileRow] /\ upload' \in UploadState
    BY <1>7, <1>r, UpdateFileType DEF MarkUploading
  <2> QED BY <1>7, <2>1 DEF MarkUploading, PublishTypeOK
<1>8. CASE OpenSession
  <2>1. remote' \in [Remote -> {"unused", "unusable", "complete"}]
    BY <1>8 DEF OpenSession, PublishTypeOK
  <2>2. \A q \in Remote : [upload EXCEPT !.pc = "link", !.ref = q] \in UploadState
    BY DEF PublishTypeOK, UploadState
  <2>3. upload' \in UploadState
    BY <1>8, <2>2, RunnerGotoType DEF OpenSession
  <2> QED BY <1>8, <2>1, <2>3 DEF OpenSession, PublishTypeOK
<1>f2. Referenced \in [File -> FileRow]
  <2> DEFINE row == [file[MyFile] EXCEPT !.ref = upload.ref]
  <2>1. MyFile \in File => row \in FileRow
    BY <1>0, <1>r
  <2>2. Referenced = file \/ Referenced = [file EXCEPT ![MyFile] = row]
    BY DEF Referenced
  <2> HIDE DEF row
  <2> QED BY <2>1, <2>2, RowType DEF PublishTypeOK
<1>9. CASE LinkSession
  <2>1. upload' \in UploadState
    BY <1>9, RunnerGotoType DEF LinkSession
  <2> DEFINE ref == IF earlyId THEN upload.ref ELSE NoRemote
             row == [file[MyFile] EXCEPT !.session = TRUE, !.ref = ref]
  <2>2. ref \in Remote \union {NoRemote}
    BY <1>0
  <2>3. MyFile \in File => row \in FileRow
    BY <2>2, <1>r
  <2>4. file' = file \/ file' = Referenced \/ file' = [file EXCEPT ![MyFile] = row]
    BY <1>9 DEF LinkSession
  <2> HIDE DEF row
  <2>5. file' \in [File -> FileRow]
    BY <2>3, <2>4, <1>f2, RowType DEF PublishTypeOK
  <2> QED BY <1>9, <2>1, <2>5 DEF LinkSession, PublishTypeOK
<1>10. CASE UploadChunk
  <2>1. remote' \in [Remote -> {"unused", "unusable", "complete"}]
    BY <1>10 DEF UploadChunk, PublishTypeOK
  <2>2. upload' \in UploadState
    BY <1>10, RunnerGotoType DEF UploadChunk
  <2> QED BY <1>10, <2>1, <2>2 DEF UploadChunk, PublishTypeOK
<1>11. CASE AdvanceUpload
  <2>1. upload' \in UploadState
    BY <1>11, RunnerGotoType DEF AdvanceUpload
  <2> QED BY <1>11, <2>1, <1>f2 DEF AdvanceUpload, PublishTypeOK
<1>12. CASE BeginVerification
  <2>1. file' \in [File -> FileRow] /\ upload' \in UploadState
    BY <1>12, <1>0, <1>r, UpdateFileType DEF BeginVerification
  <2> QED BY <1>12, <2>1 DEF BeginVerification, PublishTypeOK
<1>13. CASE VerifyRemote
  <2>1. upload' \in UploadState
    BY <1>13, RunnerGotoType DEF VerifyRemote
  <2> QED BY <1>13, <2>1 DEF VerifyRemote, PublishTypeOK
<1>14. CASE CompleteAttempt
  <2>1. upload' \in UploadState
    BY <1>14, RunnerGotoType DEF CompleteAttempt
  <2>2. file' \in [File -> FileRow] /\ post' \in [Post -> PostRow]
    BY <1>14, FileAsType, PostAsType DEF CompleteAttempt, PublishTypeOK, FileStatus, PostStatus
  <2> QED BY <1>14, <2>1, <2>2 DEF CompleteAttempt, PublishTypeOK
<1>15. CASE FinishPublish
  BY <1>15, PubTypes, RunnerExitsType DEF FinishPublish, PublishTypeOK, Terminal
<1>16. CASE DiscardRemote
  <2>1. remote' \in [Remote -> {"unused", "unusable", "complete"}]
    BY <1>16 DEF DiscardRemote, PublishTypeOK
  <2>2. upload' \in UploadState
    BY <1>16, RunnerGotoType DEF DiscardRemote
  <2> QED BY <1>16, <2>1, <2>2 DEF DiscardRemote, PublishTypeOK
<1>17. CASE InvalidateFile
  <2>1. upload' \in UploadState
    BY <1>17, RunnerGotoType DEF InvalidateFile
  <2> QED BY <1>17, <2>1, InvalidatedType DEF InvalidateFile, PublishTypeOK
<1>18. CASE CancelPublish
  BY <1>18, PubTypes, RunnerExitsType DEF CancelPublish, PublishTypeOK
<1>19. CASE UnexpectedFailure
  <2>1. pub' \in [Publish -> PubRow] /\ upload' \in UploadState
    BY <1>19, PubTypes, RunnerExitsType, RunnerGotoType DEF UnexpectedFailure, PublishTypeOK
  <2> QED BY <1>19, <2>1 DEF UnexpectedFailure, PublishTypeOK
<1>20. CASE RunnerFails
  <2>1. upload' \in UploadState
    BY <1>20, RunnerGotoType DEF RunnerFails
  <2> QED BY <1>20, <2>1, FailAttemptType DEF RunnerFails, PublishTypeOK
<1>21. CASE FailPublish
  BY <1>21, PubTypes, RunnerExitsType DEF FailPublish, PublishTypeOK, Terminal
<1> QED
  BY <1>1, <1>2, <1>3, <1>4, <1>5, <1>6, <1>7, <1>8, <1>9, <1>10, <1>11, <1>12, <1>13, <1>14,
     <1>15, <1>16, <1>17, <1>18, <1>19, <1>20, <1>21 DEF RunnerNext

\* What the worker may decide of a staged row ...
LEMMA StagedVerdictType == \A j \in Publish : StagedVerdict(j) \in Verdict
  BY DEF StagedVerdict, AttemptState, Verdict

\* ... and of an interrupted one.
LEMMA InterruptedVerdictType == \A j \in Publish : InterruptedVerdict(j) \in Verdict
  BY DEF InterruptedVerdict, AttemptState, Verdict

\* The steps of the worker, and the ends of processes.
WorkerOrEnd ==
  WorkerNext \/ CommunityUnavailable \/ RunnerDies \/ WorkerStops \/ WorkerDies

\* No step of the worker leaves the types, and no death.
LEMMA WorkerTypes ==
  ASSUME PublishTypeOK, WorkerOrEnd
  PROVE  PublishTypeOK'
<1>w. /\ \A pc \in WorkerPc : WorkerAt(pc) \in WorkerState
      /\ \A pc \in WorkerPc : [worker EXCEPT !.pc = pc] \in WorkerState
      /\ \A pc \in WorkerPc, j \in Publish, v \in Verdict :
           [pc |-> pc, job |-> j, verdict |-> v] \in WorkerState
  BY DEF PublishTypeOK, WorkerState, WorkerAt, Verdict
<1>u. NoUpload \in UploadState
  BY DEF NoUpload, UploadState, RunnerPc
<1>j. worker.job \in Publish \union {NoPublish}
  BY DEF PublishTypeOK, WorkerState
<1> USE DEF WorkerPc
<1>1. CASE ReconcileStale
  BY <1>1, <1>u, FlightClosedType DEF ReconcileStale, PublishTypeOK
<1>2. CASE ReadAttempt
  <2>1. worker' \in WorkerState
    BY <1>2, <1>w, StagedVerdictType, InterruptedVerdictType DEF ReadAttempt
  <2>2. upload' \in UploadState
    BY <1>2, <1>u DEF ReadAttempt, PublishTypeOK
  <2> QED BY <1>2, <2>1, <2>2 DEF ReadAttempt, PublishTypeOK
<1>3. CASE ActOnAttempt
  <2>1. worker' \in WorkerState
    BY <1>3, <1>w DEF ActOnAttempt
  <2>2. file' \in [File -> FileRow] /\ post' \in [Post -> PostRow]
    BY <1>3, InvalidatedType, FailAttemptType DEF ActOnAttempt, PublishTypeOK
  <2> QED BY <1>3, <2>1, <2>2 DEF ActOnAttempt, PublishTypeOK
<1>4. CASE SettlePublish
  <2>1. worker' \in WorkerState
    BY <1>4, <1>w DEF SettlePublish, WorkerGoto, PublishTypeOK
  <2>2. \A j \in Publish \union {NoPublish} :
          [PubAs(j, "queued") EXCEPT ![j].owned = FALSE] \in [Publish -> PubRow]
    <3> TAKE j \in Publish \union {NoPublish}
    <3> DEFINE t == PubAs(j, "queued")
               row == [t[j] EXCEPT !.owned = FALSE]
    <3>1. t \in [Publish -> PubRow]
      BY PubTypes
    <3>2. j \in Publish => row \in PubRow
      BY <3>1 DEF PubRow
    <3> HIDE DEF t, row
    <3>3. [t EXCEPT ![j] = row] \in [Publish -> PubRow]
      BY <3>1, <3>2, RowType
    <3> QED BY <3>3 DEF t, row
  <2>3. Retried(worker.job) \in [Publish -> PubRow]
    BY RetriedType
  <2>4. pub' \in [Publish -> PubRow]
    <3>1. pub \in [Publish -> PubRow]
      BY DEF PublishTypeOK
    <3> QED BY <1>4, <1>j, <2>2, <2>3, <3>1, PubTypes DEF SettlePublish, Terminal
  <2> QED BY <1>4, <2>1, <2>4 DEF SettlePublish, PublishTypeOK
<1>5. CASE ClaimPublish
  <2>1. PICK j \in Publish : /\ pub' = [pub EXCEPT ![j].status = "claiming"]
                             /\ worker' = [WorkerAt("spawn") EXCEPT !.job = j]
    BY <1>5 DEF ClaimPublish
  <2>2. [pub[j] EXCEPT !.status = "claiming"] \in PubRow
    BY DEF PublishTypeOK, PubRow, Status, InFlight
  <2>3. pub' \in [Publish -> PubRow]
    BY <2>1, <2>2, RowType DEF PublishTypeOK
  <2>4. worker' \in WorkerState
    BY <2>1 DEF WorkerAt, WorkerState, Verdict
  <2> QED BY <1>5, <2>3, <2>4 DEF ClaimPublish, PublishTypeOK
<1>6. CASE SpawnUpload
  <2>1. \A j \in Publish \union {NoPublish} :
          [NoUpload EXCEPT !.pc = "start", !.job = j] \in UploadState
    BY DEF NoUpload, UploadState, RunnerPc
  <2> QED BY <1>6, <1>j, <1>w, <2>1 DEF SpawnUpload, PublishTypeOK
<1>7. CASE UploadExited
  <2>1. pub' \in [Publish -> PubRow]
    BY <1>7, FlightClosedType DEF UploadExited
  <2> QED BY <1>7, <1>u, <1>w, <2>1 DEF UploadExited, WorkerGoto, PublishTypeOK
<1>8. CASE WorkerStopped
  <2>1. pub' \in [Publish -> PubRow]
    BY <1>8, FlightClosedType DEF WorkerStopped
  <2> QED BY <1>8, <1>u, <1>w, <2>1 DEF WorkerStopped, WorkerGoto, PublishTypeOK
<1>9. CASE WorkerStarts
  BY <1>9, <1>w DEF WorkerStarts, WorkerGoto, PublishTypeOK
<1>10. CASE CommunityUnavailable
  BY <1>10, PubTypes, RunnerExitsType, OutageType DEF CommunityUnavailable, PublishTypeOK
<1>11. CASE RunnerDies
  BY <1>11, RunnerExitsType, OutageType DEF RunnerDies, PublishTypeOK
<1>12. CASE WorkerStops
  <2>1. [upload EXCEPT !.stop = TRUE] \in UploadState
    BY DEF PublishTypeOK, UploadState
  <2> QED BY <1>12, <1>w, <2>1, OutageType DEF WorkerStops, PublishTypeOK
<1>13. CASE WorkerDies
  BY <1>13, <1>w, OutageType DEF WorkerDies, WorkerGoto, PublishTypeOK
<1> QED
  BY <1>1, <1>2, <1>3, <1>4, <1>5, <1>6, <1>7, <1>8, <1>9, <1>10, <1>11, <1>12, <1>13
     DEF WorkerOrEnd, WorkerNext


(***************************************************************************)
(* A row keeps its file for ever, and only a new row begins to exist.      *)
(***************************************************************************)

SameFiles(t) ==
  /\ t \in [Publish -> PubRow]
  /\ \A j \in Publish : /\ t[j].file = pub[j].file
                        /\ t[j].status = "absent" <=> pub[j].status = "absent"

\* No update of the jobs table gives a row another file.
LEMMA FilesOfUpdates ==
  ASSUME PublishTypeOK, NEW j
  PROVE  /\ SameFiles(pub)
         /\ \A s \in Terminal \union {"queued", "resumable"} : SameFiles(PubAs(j, s))
         /\ SameFiles(Reconciled(j, "finished")) /\ SameFiles(Reconciled(j, "failed"))
         /\ SameFiles(CancelledInFlight(j))
         /\ HasFile(j) => \A r, e \in BOOLEAN :
              SameFiles(Interrupted(j, r, e)) /\ SameFiles(FlightClosed(j, r, e))
<1>1. SameFiles(pub)
  BY DEF PublishTypeOK, SameFiles
<1>2. ASSUME NEW s \in Status, j \in Publish => pub[j].status # "absent"
      PROVE  SameFiles(Over(j, s))
  <2>1. Over(j, s) \in [Publish -> PubRow]
    BY OverType
  <2>2. s # "absent"
    BY DEF Status, Terminal, InFlight, Holds
  <2> QED BY <1>2, <2>1, <2>2 DEF PublishTypeOK, SameFiles, Over, PubRow, EmptyPub
<1>3. ASSUME NEW s \in Terminal \union {"queued", "resumable"}
      PROVE  SameFiles(PubAs(j, s))
  <2>1. PubAs(j, s) \in [Publish -> PubRow]
    BY PubTypes
  <2>2. s \in Status /\ s # "absent"
    BY DEF Status, Terminal
  <2>3. CASE ~TransitionAllowed(pub[j].status, s)
    BY <1>1, <2>3 DEF PubAs
  <2>4. CASE TransitionAllowed(pub[j].status, s) /\ s \in Terminal
    <3>1. pub[j].status # "absent"
      BY <2>4 DEF TransitionAllowed, Holds
    <3> QED BY <1>2, <2>2, <2>4, <3>1 DEF PubAs
  <2>5. CASE TransitionAllowed(pub[j].status, s) /\ s \notin Terminal
    <3>1. pub[j].status # "absent"
      BY <2>5 DEF TransitionAllowed, Holds
    <3>2. PubAs(j, s) = [pub EXCEPT ![j].status = s]
      BY <2>5 DEF PubAs
    <3> QED BY <2>1, <2>2, <3>1, <3>2 DEF PublishTypeOK, SameFiles, PubRow
  <2> QED BY <2>3, <2>4, <2>5
<1>4. ASSUME NEW s \in Terminal
      PROVE  pub[j].status \in InFlight \union {"staging", "interrupted", "resumable"} =>
               SameFiles(Over(j, s))
  BY <1>2 DEF InFlight, Status
<1>5. SameFiles(Reconciled(j, "finished")) /\ SameFiles(Reconciled(j, "failed"))
  BY <1>1, <1>4 DEF Reconciled, Terminal
<1>6. SameFiles(CancelledInFlight(j))
  BY <1>1, <1>4 DEF CancelledInFlight, Terminal
<1>7. ASSUME HasFile(j), NEW r \in BOOLEAN, NEW e \in BOOLEAN
      PROVE  SameFiles(Interrupted(j, r, e))
  <2>1. Interrupted(j, r, e) \in [Publish -> PubRow]
    BY InterruptedType
  <2> QED BY <1>7, <2>1 DEF PublishTypeOK, SameFiles, Interrupted, PubRow, HasFile
<1>8. ASSUME HasFile(j), NEW r \in BOOLEAN, NEW e \in BOOLEAN
      PROVE  SameFiles(FlightClosed(j, r, e))
  BY <1>6, <1>7, <1>8 DEF FlightClosed
<1> QED BY <1>1, <1>3, <1>5, <1>6, <1>7, <1>8

\* A row replaced by one of the same file.
LEMMA RowFiles ==
  ASSUME NEW t, SameFiles(t), NEW j, NEW row,
         j \in Publish => /\ row \in PubRow /\ row.file = pub[j].file
                          /\ row.status = "absent" <=> pub[j].status = "absent"
  PROVE  SameFiles([t EXCEPT ![j] = row])
<1>1. [t EXCEPT ![j] = row] \in [Publish -> PubRow]
  BY RowType DEF SameFiles
<1> QED BY <1>1 DEF SameFiles

\* What a row keeps when only a flag of it is written.
LEMMA FlagFiles ==
  ASSUME NEW t, SameFiles(t), NEW j
  PROVE  /\ SameFiles([t EXCEPT ![j].owned = FALSE])
         /\ SameFiles([t EXCEPT ![j].cancel = TRUE])
<1> DEFINE row == [t[j] EXCEPT !.owned = FALSE]
           flag == [t[j] EXCEPT !.cancel = TRUE]
<1>1. j \in Publish => /\ row \in PubRow /\ row.file = pub[j].file
                       /\ row.status = "absent" <=> pub[j].status = "absent"
  BY DEF SameFiles, PubRow
<1>2. j \in Publish => /\ flag \in PubRow /\ flag.file = pub[j].file
                       /\ flag.status = "absent" <=> pub[j].status = "absent"
  BY DEF SameFiles, PubRow
<1> HIDE DEF row, flag
<1>3. SameFiles([t EXCEPT ![j] = row]) /\ SameFiles([t EXCEPT ![j] = flag])
  BY <1>1, <1>2, RowFiles
<1> QED BY <1>3 DEF row, flag

\* A row that exists keeps its file whatever status is written to it.
LEMMA StatusFiles ==
  ASSUME PublishTypeOK, NEW j, HasFile(j), NEW s \in Status
  PROVE  SameFiles([pub EXCEPT ![j].status = s])
<1> DEFINE row == [pub[j] EXCEPT !.status = s]
<1>1. s # "absent"
  BY DEF Status, Terminal, InFlight, Holds
<1>2. row \in PubRow /\ row.file = pub[j].file /\ row.status = s
  BY DEF PublishTypeOK, PubRow, HasFile
<1>3. SameFiles(pub)
  BY DEF PublishTypeOK, SameFiles
<1> HIDE DEF row
<1>4. SameFiles([pub EXCEPT ![j] = row])
  BY <1>1, <1>2, <1>3, RowFiles DEF HasFile
<1> QED BY <1>4 DEF row

\* No step but a request changes which rows exist.
LEMMA FilesStay ==
  ASSUME PublishBase, PublishNext, ~RequestPublish
  PROVE  SameFiles(pub')
<1>t. PublishTypeOK
  BY DEF PublishBase
<1>s. SameFiles(pub)
  BY <1>t DEF PublishTypeOK, SameFiles
<1>1. UNCHANGED pub => SameFiles(pub')
  BY <1>s DEF SameFiles
<1> USE <1>t, <1>s, <1>1
<1>2. CASE ActivateAttempt
  <2>1. UNCHANGED pub \/ pub' = [pub EXCEPT ![api.job].owned = FALSE]
    BY <1>2 DEF ActivateAttempt
  <2>2. SameFiles([pub EXCEPT ![api.job].owned = FALSE])
    BY FlagFiles
  <2> QED BY <2>1, <2>2
<1>3. CASE EnqueuePublishJob
  BY <1>3, FilesOfUpdates, FlagFiles DEF EnqueuePublishJob
<1>4. CASE UnpublishJob
  BY <1>4, FlagFiles DEF UnpublishJob
<1>5. CASE ApiDies
  <2>1. \A j \in Publish : /\ [pub[j] EXCEPT !.owned = FALSE] \in PubRow
                            /\ [pub[j] EXCEPT !.owned = FALSE].file = pub[j].file
                            /\ [pub[j] EXCEPT !.owned = FALSE].status = pub[j].status
    BY DEF PublishTypeOK, PubRow
  <2> QED BY <1>5, <2>1 DEF ApiDies, SameFiles, PublishTypeOK
<1>6. CASE RunnerStarts
  <2>1. HasFile(upload.job)
    BY <1>6 DEF RunnerStarts, RunnerAt, RunnerAlive, PublishBase, UploadHasFile
  <2> QED BY <1>6, <2>1, StatusFiles DEF RunnerStarts, Status, InFlight
<1>7. CASE RunnerInterrupts \/ CommunityUnavailable
  <2>1. HasFile(upload.job)
    BY <1>7 DEF RunnerInterrupts, CommunityUnavailable, RunnerAt, RunnerAlive, PublishBase, UploadHasFile
  <2> QED BY <1>7, <2>1, FilesOfUpdates DEF RunnerInterrupts, CommunityUnavailable
<1>8. CASE FinishPublish \/ CancelPublish \/ UnexpectedFailure \/ FailPublish
  BY <1>8, FilesOfUpdates
     DEF FinishPublish, CancelPublish, UnexpectedFailure, FailPublish, Terminal
<1>9. CASE ReconcileStale
  <2>1. PICK j \in Orphans : pub' = FlightClosed(j, TRUE, FALSE)
    BY <1>9 DEF ReconcileStale
  <2>2. HasFile(j)
    BY DEF Orphans, HasFile, InFlight
  <2> QED BY <2>1, <2>2, FilesOfUpdates
<1>10. CASE SettlePublish
  <2> DEFINE j == worker.job
  <2>1. HasFile(j)
    BY <1>10 DEF SettlePublish, At, PublishBase, WorkerHasFile
  <2>2. SameFiles([PubAs(j, "queued") EXCEPT ![j].owned = FALSE])
    BY FilesOfUpdates, FlagFiles
  <2>3. SameFiles(Retried(j))
    <3> DEFINE row == [pub[j] EXCEPT !.status = "queued", !.exited = FALSE, !.recov = FALSE,
                         !.attempt = pub[j].attempt + (IF pub[j].exited THEN 1 ELSE 0)]
    <3>1. Retried(j) \in [Publish -> PubRow]
      BY RetriedType
    <3>2. row.file = pub[j].file /\ row.status = "queued"
      BY <2>1 DEF PublishTypeOK, PubRow, HasFile
    <3>3. Retried(j) = [pub EXCEPT ![j] = row]
      BY DEF Retried
    <3> HIDE DEF row
    <3> QED BY <2>1, <3>1, <3>2, <3>3 DEF SameFiles, PublishTypeOK, HasFile
  <2> QED BY <1>10, <2>2, <2>3, FilesOfUpdates DEF SettlePublish, Terminal
<1>11. CASE ClaimPublish
  <2>1. PICK j \in Publish : pub[j].status = "queued" /\ pub' = [pub EXCEPT ![j].status = "claiming"]
    BY <1>11 DEF ClaimPublish
  <2> QED BY <2>1, StatusFiles DEF HasFile, Status, InFlight
<1>12. CASE UploadExited \/ WorkerStopped
  <2>1. HasFile(worker.job)
    BY <1>12 DEF UploadExited, WorkerStopped, At, PublishBase, WorkerHasFile
  <2> QED BY <1>12, <2>1, FilesOfUpdates DEF UploadExited, WorkerStopped
<1> QED
  BY <1>1, <1>2, <1>3, <1>4, <1>5, <1>6, <1>7, <1>8, <1>9, <1>10, <1>11, <1>12
     DEF PublishNext, ApiNext, RunnerNext, WorkerNext, Unpublish, UnpublishFile, ModeratePost,
         SoftDeletePost, DeleteRemoteFile, TrashRemoteFile, RemoteFileDeleted, RunnerChecks,
         PreviousRemote, ReuseRemote, DropRemote, MarkUploading, OpenSession, LinkSession,
         UploadChunk, AdvanceUpload, BeginVerification, VerifyRemote, CompleteAttempt,
         DiscardRemote, InvalidateFile, RunnerFails, ReadAttempt, ActOnAttempt, SpawnUpload,
         WorkerStarts, RunnerDies, WorkerStops, WorkerDies

(***************************************************************************)
(* Who writes what.                                                        *)
(***************************************************************************)

\* The API starts no process, a runner and the worker answer no request.
LEMMA Frames ==
  /\ ApiNext => UNCHANGED <<worker, upload>>
  /\ RunnerNext \/ CommunityUnavailable \/ RunnerDies =>
       UNCHANGED <<api, worker, latest, withdrawn>>
  /\ WorkerNext \/ WorkerStops \/ WorkerDies =>
       UNCHANGED <<api, latest, remote, withdrawn>>
<1>1. ApiNext => UNCHANGED <<worker, upload>>
  BY DEF ApiNext, RequestPublish, ActivateAttempt, EnqueuePublishJob, Unpublish, UnpublishFile,
         UnpublishJob, ModeratePost, SoftDeletePost, DeleteRemoteFile, TrashRemoteFile,
         RemoteFileDeleted, ApiDies
<1>2. RunnerNext \/ CommunityUnavailable \/ RunnerDies =>
        UNCHANGED <<api, worker, latest, withdrawn>>
  BY DEF RunnerNext, CommunityUnavailable, RunnerDies, RunnerStarts, RunnerInterrupts,
         RunnerChecks, PreviousRemote, ReuseRemote, DropRemote, MarkUploading, OpenSession,
         LinkSession, UploadChunk, AdvanceUpload, BeginVerification, VerifyRemote,
         CompleteAttempt, FinishPublish, DiscardRemote, InvalidateFile, CancelPublish,
         UnexpectedFailure, RunnerFails, FailPublish
<1>3. WorkerNext \/ WorkerStops \/ WorkerDies => UNCHANGED <<api, latest, remote, withdrawn>>
  BY DEF WorkerNext, WorkerStops, WorkerDies, ReconcileStale, ReadAttempt, ActOnAttempt,
         SettlePublish, ClaimPublish, SpawnUpload, UploadExited, WorkerStopped, WorkerStarts
<1> QED BY <1>1, <1>2, <1>3

\* What exists goes on to exist where the files stay.
LEMMA FilesKept ==
  ASSUME PublishBase, SameFiles(pub')
  PROVE  PubFiles' /\ \A j : HasFile(j)' <=> HasFile(j)
  BY DEF PublishBase, SameFiles, PubFiles, HasFile

\* A new row names the file it is for, and nothing else moves.
LEMMA RequestFiles ==
  ASSUME PublishBase, RequestPublish
  PROVE  PubFiles' /\ (\A j : HasFile(j) => HasFile(j)') /\ ApiHasFile'
<1>1. CASE UNCHANGED <<pub, api>>
  BY <1>1 DEF PublishBase, PubFiles, HasFile, ApiHasFile, ApiAt
<1>2. CASE ~UNCHANGED <<pub, api>>
  <2>1. PICK f \in File, j \in Publish :
          /\ pub[j].status = "absent"
          /\ pub' = [pub EXCEPT ![j] = [EmptyPub EXCEPT !.status = "staging",
                                                        !.file = f, !.owned = TRUE]]
          /\ ApiGoto("activate", f, j)
    BY <1>2 DEF RequestPublish
  <2> DEFINE row == [EmptyPub EXCEPT !.status = "staging", !.file = f, !.owned = TRUE]
  <2>2. row.status = "staging" /\ row.file = f
    BY DEF EmptyPub
  <2>3. pub' = [pub EXCEPT ![j] = row]
    BY <2>1
  <2> HIDE DEF row
  <2>4. pub'[j] = row /\ \A i \in Publish \ {j} : pub'[i] = pub[i]
    BY <2>3 DEF PublishBase, PublishTypeOK
  <2>5. PubFiles' /\ (\A i : HasFile(i) => HasFile(i)') /\ HasFile(j)'
    BY <2>2, <2>4 DEF PublishBase, PubFiles, HasFile
  <2>6. api'.pc = "activate" /\ api'.file = f /\ api'.job = j
    BY <2>1 DEF ApiGoto
  <2> QED BY <2>2, <2>4, <2>5, <2>6 DEF ApiHasFile, ApiAt
<1> QED BY <1>1, <1>2

\* The API works on a file, and on a row while it stages one.
LEMMA ApiFiles ==
  ASSUME PublishBase, ApiNext, ~RequestPublish, SameFiles(pub')
  PROVE  ApiHasFile'
<1>1. PubFiles' /\ \A j : HasFile(j)' <=> HasFile(j)
  BY FilesKept
<1>2. CASE ActivateAttempt
  BY <1>1, <1>2 DEF ActivateAttempt, ApiGoto, ApiIdle, ApiHasFile, ApiAt, PublishBase, SameFiles,
                    HasFile
<1>3. CASE EnqueuePublishJob \/ UnpublishJob \/ RemoteFileDeleted \/ ApiDies
  BY <1>3 DEF EnqueuePublishJob, UnpublishJob, RemoteFileDeleted, ApiDies, ApiIdle, ApiHasFile, ApiAt
<1>4. CASE Unpublish
  <2>1. PICK p \in Post : IF latest[p] = NoFile THEN UNCHANGED api
                          ELSE ApiGoto("invalidate", latest[p], file[latest[p]].job)
    BY <1>4 DEF Unpublish
  <2>2. ApiAt("idle") /\ (latest[p] = NoFile \/ latest[p] \in File)
    BY <1>4 DEF Unpublish, PublishBase, PublishTypeOK
  <2> QED BY <2>1, <2>2 DEF ApiGoto, ApiHasFile, ApiAt
<1>7. CASE DeleteRemoteFile
  <2>1. PICK p \in Post : latest[p] # NoFile /\ ApiGoto("trash", latest[p], NoPublish)
    BY <1>7 DEF DeleteRemoteFile
  <2>2. latest[p] \in File
    BY <2>1 DEF PublishBase, PublishTypeOK
  <2> QED BY <2>1, <2>2 DEF ApiGoto, ApiHasFile, ApiAt
<1>5. CASE UnpublishFile \/ TrashRemoteFile
  BY <1>5 DEF UnpublishFile, TrashRemoteFile, ApiGoto, ApiIdle, ApiHasFile, ApiAt, PublishBase
<1>6. CASE ModeratePost \/ SoftDeletePost
  BY <1>6 DEF ModeratePost, SoftDeletePost, ApiHasFile, ApiAt, PublishBase, HasFile
<1> QED BY <1>2, <1>3, <1>4, <1>5, <1>6, <1>7 DEF ApiNext

\* The worker works on a row that exists.
LEMMA WorkerFiles ==
  ASSUME PublishBase, WorkerNext \/ WorkerStops \/ WorkerDies, SameFiles(pub')
  PROVE  WorkerHasFile'
<1>1. \A j : HasFile(j)' <=> HasFile(j)
  BY FilesKept
<1>2. CASE ReadAttempt \/ ClaimPublish
  BY <1>1, <1>2 DEF ReadAttempt, ClaimPublish, WorkerAt, WorkerHasFile, HasFile, Unsettled
<1>3. CASE ReconcileStale \/ UploadExited \/ WorkerStopped \/ WorkerStarts \/ WorkerDies
  <2>1. worker' = WorkerAt("poll") \/ worker' = WorkerAt("down") \/ (UNCHANGED worker /\ At("poll"))
    BY <1>3 DEF ReconcileStale, UploadExited, WorkerStopped, WorkerStarts, WorkerDies, WorkerGoto
  <2> QED BY <2>1 DEF WorkerAt, WorkerHasFile, At
<1>4. CASE ActOnAttempt \/ SpawnUpload \/ WorkerStops \/ SettlePublish
  BY <1>1, <1>4 DEF ActOnAttempt, SpawnUpload, WorkerStops, SettlePublish, WorkerGoto, WorkerAt,
       WorkerHasFile, At, PublishBase, PublishTypeOK, WorkerState
<1> QED BY <1>2, <1>3, <1>4 DEF WorkerNext

\* A runner's step is taken by a live runner, which keeps its job until it exits.
LEMMA RunnerSteps ==
  ASSUME PublishBase, RunnerNext \/ CommunityUnavailable \/ RunnerDies
  PROVE  RunnerAlive /\ (upload'.pc = "exited" \/ upload'.job = upload.job)
<1>1. RunnerAlive
  BY DEF RunnerNext, CommunityUnavailable, RunnerDies, RunnerStarts, RunnerInterrupts,
         RunnerChecks, PreviousRemote, ReuseRemote, DropRemote, MarkUploading, OpenSession,
         LinkSession, UploadChunk, AdvanceUpload, BeginVerification, VerifyRemote,
         CompleteAttempt, FinishPublish, DiscardRemote, InvalidateFile, CancelPublish,
         UnexpectedFailure, RunnerFails, FailPublish, RunnerAt, RunnerAlive
<1>2. upload \in UploadState
  BY DEF PublishBase, PublishTypeOK
<1>3. upload'.pc = "exited" \/ upload'.job = upload.job
  BY <1>2 DEF RunnerNext, CommunityUnavailable, RunnerDies, RunnerStarts, RunnerInterrupts,
       RunnerChecks, Checked, UpdateFile, RunnerGoto, RunnerExits, PreviousRemote, ReuseRemote,
       DropRemote, MarkUploading, OpenSession, UploadState, NoUpload,
       LinkSession, UploadChunk, AdvanceUpload, BeginVerification, VerifyRemote,
       CompleteAttempt, FinishPublish, DiscardRemote, InvalidateFile, CancelPublish,
       UnexpectedFailure, RunnerFails, FailPublish
<1> QED BY <1>1, <1>3

\* So does a runner, whoever starts it.
LEMMA UploadFiles ==
  ASSUME PublishBase, PublishNext, SameFiles(pub')
  PROVE  UploadHasFile'
<1>1. \A j : HasFile(j)' <=> HasFile(j)
  BY FilesKept
<1>2. upload \in UploadState
  BY DEF PublishBase, PublishTypeOK
<1>3. CASE UNCHANGED upload
  BY <1>1, <1>3 DEF PublishBase, UploadHasFile, RunnerAlive
<1>4. CASE RunnerNext \/ CommunityUnavailable \/ RunnerDies
  BY <1>1, <1>4, RunnerSteps DEF PublishBase, UploadHasFile, RunnerAlive
<1>5. CASE ReconcileStale \/ UploadExited \/ WorkerStopped
  <2>1. upload' = NoUpload
    BY <1>5 DEF ReconcileStale, UploadExited, WorkerStopped
  <2> QED BY <2>1 DEF NoUpload, UploadHasFile, RunnerAlive
<1>6. CASE SpawnUpload
  BY <1>1, <1>6 DEF SpawnUpload, NoUpload, UploadHasFile, RunnerAlive, At, PublishBase,
                    WorkerHasFile
<1>7. CASE WorkerStops
  BY <1>1, <1>2, <1>7 DEF WorkerStops, UploadHasFile, RunnerAlive, PublishBase, UploadState
<1>8. CASE ReadAttempt
  <2>1. UNCHANGED upload \/ upload' = NoUpload
    BY <1>8 DEF ReadAttempt
  <2> QED BY <1>3, <2>1 DEF NoUpload, UploadHasFile, RunnerAlive
<1> QED
  BY <1>3, <1>4, <1>5, <1>6, <1>7, <1>8, Frames
     DEF PublishNext, WorkerNext, ActOnAttempt, SettlePublish, ClaimPublish,
         WorkerStarts, WorkerDies

\* Types and rows are kept by every step ...
LEMMA BaseStep ==
  ASSUME PublishBase, [PublishNext]_publishVars
  PROVE  PublishBase'
<1>1. CASE UNCHANGED publishVars
  BY <1>1 DEF publishVars, PublishBase, PublishTypeOK, PubFiles, ApiHasFile, WorkerHasFile,
              UploadHasFile, HasFile, ApiAt, RunnerAlive
<1>2. CASE PublishNext
  <2>1. PublishTypeOK'
    BY <1>2, ApiTypes, RunnerTypes, WorkerTypes DEF PublishNext, PublishBase, WorkerOrEnd
  <2>2. CASE RequestPublish
    <3>1. PubFiles' /\ (\A j : HasFile(j) => HasFile(j)') /\ ApiHasFile'
      BY <2>2, RequestFiles
    <3>2. UNCHANGED <<worker, upload>>
      BY <2>2 DEF RequestPublish
    <3> QED
      BY <2>1, <3>1, <3>2 DEF PublishBase, WorkerHasFile, UploadHasFile, RunnerAlive
  <2>3. CASE ~RequestPublish
    <3>1. SameFiles(pub')
      BY <1>2, <2>3, FilesStay
    <3>2. PubFiles' /\ \A j : HasFile(j)' <=> HasFile(j)
      BY <3>1, FilesKept
    <3>3. UNCHANGED api => ApiHasFile'
      BY <3>1, <3>2 DEF PublishBase, ApiHasFile, ApiAt, SameFiles, HasFile
    <3>4. ApiHasFile'
      BY <1>2, <2>3, <3>1, <3>3, ApiFiles, Frames DEF PublishNext
    <3>5. UNCHANGED worker => WorkerHasFile'
      BY <3>2 DEF PublishBase, WorkerHasFile
    <3>6. WorkerHasFile'
      BY <1>2, <3>1, <3>5, WorkerFiles, Frames DEF PublishNext
    <3>7. UploadHasFile'
      BY <1>2, <3>1, UploadFiles
    <3> QED BY <2>1, <3>2, <3>4, <3>6, <3>7 DEF PublishBase
  <2> QED BY <2>2, <2>3
<1> QED BY <1>1, <1>2

\* ... they hold at first ...
LEMMA BaseInit == PublishInit => PublishBase
<1> SUFFICES ASSUME PublishInit PROVE PublishBase
  OBVIOUS
<1>1. PublishTypeOK
  BY PublishAssumption
     DEF PublishInit, PublishTypeOK, PostRow, FileRow, PubRow, ApiState, WorkerState, UploadState,
         EmptyFile, EmptyPub, ApiIdle, WorkerAt, NoUpload, PostStatus, ApiPc, WorkerPc, RunnerPc,
         Verdict
<1>2. PubFiles /\ ApiHasFile /\ WorkerHasFile /\ UploadHasFile
  BY DEF PublishInit, PubFiles, ApiHasFile, WorkerHasFile, UploadHasFile, EmptyPub, ApiIdle, ApiAt,
         WorkerAt, NoUpload, RunnerAlive
<1> QED BY <1>1, <1>2 DEF PublishBase

\* ... and so always.
LEMMA BaseAlways == PublishSpec => []PublishBase
  BY BaseInit, BaseStep, PTL DEF PublishSpec

\* The rows of both databases, the requests and the processes always have their
\* types, whatever dies between two writes.
THEOREM PublishTypes == PublishSpec => []PublishTypeOK
<1>1. PublishBase => PublishTypeOK
  BY DEF PublishBase
<1> QED BY <1>1, BaseAlways, PTL

(***************************************************************************)
(* What a step may do to the files and the posts.                          *)
(***************************************************************************)

\* The steps that may write a file off.
WritesOff ==
  \/ UnpublishFile \/ DeleteRemoteFile \/ RemoteFileDeleted
  \/ InvalidateFile \/ RunnerFails \/ ActOnAttempt

\* A file that is not being activated keeps its job; it is written off, verified
\* by the run that completes it, or rewritten by the runner it belongs to.
WrittenOff ==
  \/ UNCHANGED file
  \/ /\ WritesOff
     /\ \E f \in File, s \in {"failed", "deleting", "deleted"} :
          /\ file' = FileAs(f, s)
          /\ \/ s = "failed" /\ file[f].status \in Uploading
             \/ DeleteRemoteFile \/ RemoteFileDeleted

FileWritten ==
  \/ WrittenOff
  \/ /\ CompleteAttempt /\ RunnerAlive /\ Completable(MyFile, upload.job)
     /\ file' = FileAs(MyFile, "verified") /\ post' = PostAs(MyFile[1], "published")
  \/ /\ RunnerAlive
     /\ \E row \in FileRow :
          /\ file' = [file EXCEPT ![MyFile] = row]
          /\ row.job = file[MyFile].job
          /\ \/ row.status = file[MyFile].status
             \/ Live(MyFile, upload.job) /\ row.status \in Uploading

\* Writing a file off, by invalidating it ...
LEMMA InvalidatedWrites ==
  ASSUME NEW f \in File, NEW j, file' = Invalidated(f, j), WritesOff
  PROVE  WrittenOff
  BY DEF Invalidated, WrittenOff

\* ... or by failing its attempt.
LEMMA FailAttemptWrites ==
  ASSUME NEW f \in File, NEW j, FailAttempt(f, j), WritesOff
  PROVE  WrittenOff
  BY DEF FailAttempt, WrittenOff, Live

\* A runner writes a file only while it is live ...
LEMMA UpdateFileWrites ==
  ASSUME PublishBase, RunnerAlive, NEW s \in Uploading,
         NEW row \in FileRow, row.job = file[MyFile].job, row.status = s,
         NEW done, NEW refused, UpdateFile(row, done, refused)
  PROVE  FileWritten
  BY DEF UpdateFile, FileWritten, WrittenOff

\* ... or leaves its status as it was.
LEMMA RowWrites ==
  ASSUME RunnerAlive, NEW row \in FileRow, row.job = file[MyFile].job,
         row.status = file[MyFile].status, file' = [file EXCEPT ![MyFile] = row]
  PROVE  FileWritten
  BY DEF FileWritten

\* How a runner writes files,
LEMMA RunnerWrites ==
  ASSUME PublishBase, RunnerNext \/ CommunityUnavailable \/ RunnerDies
  PROVE  FileWritten
<1>a. RunnerAlive
  BY RunnerSteps
<1>b. MyFile \in File /\ file[MyFile] \in FileRow /\ upload.ref \in Remote \union {NoRemote}
  BY <1>a, MyFileIsFile DEF PublishBase, PublishTypeOK, UploadState
<1>1. CASE UNCHANGED file
  BY <1>1 DEF FileWritten, WrittenOff
<1>2. CASE ReuseRemote \/ BeginVerification
  <2> DEFINE row == [file[MyFile] EXCEPT !.status = "verifying", !.ref = upload.ref]
  <2>1. row \in FileRow /\ row.job = file[MyFile].job /\ row.status = "verifying"
    BY <1>b DEF FileRow, FileStatus, Uploading
  <2>2. PICK done \in RunnerPc, refused \in RunnerPc : UpdateFile(row, done, refused)
    BY <1>2 DEF ReuseRemote, BeginVerification, RunnerPc
  <2> HIDE DEF row
  <2> QED BY <1>a, <2>1, <2>2, UpdateFileWrites DEF Uploading
<1>3. CASE MarkUploading
  <2> DEFINE row == [file[MyFile] EXCEPT !.status = "uploading", !.ref = NoRemote,
                                         !.session = FALSE]
  <2>1. row \in FileRow /\ row.job = file[MyFile].job /\ row.status = "uploading"
    BY <1>b DEF FileRow, FileStatus, Uploading
  <2>2. UpdateFile(row, "folder", "cancel")
    BY <1>3 DEF MarkUploading
  <2> HIDE DEF row
  <2> QED BY <1>a, <2>1, <2>2, UpdateFileWrites DEF Uploading
<1>4. ASSUME file' = Referenced PROVE FileWritten
  <2> DEFINE row == [file[MyFile] EXCEPT !.ref = upload.ref]
  <2>1. row \in FileRow /\ row.job = file[MyFile].job /\ row.status = file[MyFile].status
    BY <1>b DEF FileRow
  <2>2. UNCHANGED file \/ file' = [file EXCEPT ![MyFile] = row]
    BY <1>4 DEF Referenced
  <2> HIDE DEF row
  <2> QED BY <1>1, <1>a, <2>1, <2>2, RowWrites
<1>5. CASE LinkSession
  <2> DEFINE r == IF earlyId THEN upload.ref ELSE NoRemote
             row == [file[MyFile] EXCEPT !.session = TRUE, !.ref = r]
  <2>1. r \in Remote \union {NoRemote}
    BY <1>b
  <2>2. row \in FileRow /\ row.job = file[MyFile].job /\ row.status = file[MyFile].status
    BY <1>b, <2>1 DEF FileRow
  <2>3. file' = [file EXCEPT ![MyFile] = row] \/ file' = Referenced \/ UNCHANGED file
    BY <1>5 DEF LinkSession
  <2> HIDE DEF row
  <2> QED BY <1>1, <1>a, <1>4, <2>2, <2>3, RowWrites
<1>6. CASE AdvanceUpload
  BY <1>4, <1>6 DEF AdvanceUpload
<1>7. CASE CompleteAttempt
  BY <1>a, <1>7 DEF CompleteAttempt, FileWritten, WrittenOff
<1>8. CASE InvalidateFile
  BY <1>b, <1>8, InvalidatedWrites DEF InvalidateFile, WritesOff, FileWritten
<1>9. CASE RunnerFails
  BY <1>b, <1>9, FailAttemptWrites DEF RunnerFails, WritesOff, FileWritten
<1> QED
  BY <1>1, <1>2, <1>3, <1>5, <1>6, <1>7, <1>8, <1>9
     DEF RunnerNext, CommunityUnavailable, RunnerDies, RunnerStarts, RunnerInterrupts,
         RunnerChecks, PreviousRemote, DropRemote, OpenSession, UploadChunk, VerifyRemote,
         FinishPublish, DiscardRemote, CancelPublish, UnexpectedFailure, FailPublish

\* how the worker does,
LEMMA WorkerWrites ==
  ASSUME PublishBase, WorkerNext \/ WorkerStops \/ WorkerDies
  PROVE  WrittenOff
<1>1. CASE UNCHANGED file
  BY <1>1 DEF WrittenOff
<1>2. CASE ActOnAttempt
  <2> DEFINE f == pub[worker.job].file
  <2>1. f \in File
    BY <1>2 DEF ActOnAttempt, At, PublishBase, WorkerHasFile, HasFile, PubFiles
  <2>2. FailAttempt(f, worker.job) \/ file' = Invalidated(f, worker.job) \/ UNCHANGED file
    BY <1>2 DEF ActOnAttempt
  <2> HIDE DEF f
  <2> QED BY <1>1, <1>2, <2>1, <2>2, FailAttemptWrites, InvalidatedWrites DEF WritesOff
<1> QED
  BY <1>1, <1>2
     DEF WorkerNext, WorkerStops, WorkerDies, ReconcileStale, ReadAttempt, SettlePublish,
         ClaimPublish, SpawnUpload, UploadExited, WorkerStopped, WorkerStarts

\* how the API does,
LEMMA ApiWrites ==
  ASSUME PublishBase, ApiNext, ~ActivateAttempt
  PROVE  WrittenOff
<1>1. CASE UNCHANGED file
  BY <1>1 DEF WrittenOff
<1>2. CASE UnpublishFile
  <2>1. api.file \in File
    BY <1>2 DEF UnpublishFile, PublishBase, ApiHasFile, ApiAt
  <2> QED BY <1>1, <1>2, <2>1, InvalidatedWrites DEF UnpublishFile, WritesOff
<1>3. CASE DeleteRemoteFile
  <2>1. PICK p \in Post : latest[p] # NoFile /\ file' = FileAs(latest[p], "deleting")
    BY <1>3 DEF DeleteRemoteFile
  <2>2. latest[p] \in File
    BY <2>1 DEF PublishBase, PublishTypeOK
  <2> QED BY <1>3, <2>1, <2>2 DEF WrittenOff, WritesOff
<1>4. CASE RemoteFileDeleted
  <2>1. api.file \in File
    BY <1>4 DEF RemoteFileDeleted, PublishBase, ApiHasFile, ApiAt
  <2> QED BY <1>4, <2>1 DEF RemoteFileDeleted, WrittenOff, WritesOff
<1> QED
  BY <1>1, <1>2, <1>3, <1>4
     DEF ApiNext, RequestPublish, EnqueuePublishJob, Unpublish, UnpublishJob, ModeratePost,
         SoftDeletePost, TrashRemoteFile, ApiDies

\* and so what any step but an activation may make of one.
LEMMA FileChanges ==
  ASSUME PublishBase, PublishNext, ~ActivateAttempt
  PROVE  /\ UNCHANGED latest
         /\ FileWritten
         /\ \A f \in File :
              /\ file'[f].job = file[f].job
              /\ file'[f].status \in Uploading => file[f].status \in Uploading
              /\ file'[f].status = "verified" => \/ file[f].status = "verified"
                                                 \/ /\ RunnerAlive /\ f = MyFile
                                                    /\ Completable(f, upload.job)
<1>1. UNCHANGED latest
  <2>1. ApiNext => UNCHANGED latest
    BY DEF ApiNext, RequestPublish, EnqueuePublishJob, Unpublish, UnpublishFile,
           UnpublishJob, ModeratePost, SoftDeletePost, DeleteRemoteFile, TrashRemoteFile,
           RemoteFileDeleted, ApiDies
  <2> QED BY <2>1, Frames DEF PublishNext
<1>2. FileWritten
  BY ApiWrites, RunnerWrites, WorkerWrites DEF PublishNext, FileWritten
<1>3. file \in [File -> FileRow] /\ (RunnerAlive => MyFile \in File)
  BY MyFileIsFile DEF PublishBase, PublishTypeOK
<1>4. ASSUME NEW f \in File, NEW g, NEW s, file' = FileAs(g, s)
      PROVE  /\ file'[f].job = file[f].job
             /\ file'[f].status = (IF f = g THEN s ELSE file[f].status)
  BY <1>3, <1>4 DEF FileAs, FileRow
<1> QED
  BY <1>1, <1>2, <1>3, <1>4 DEF FileWritten, WrittenOff, Uploading, Live

\* What the classification has seen of an attempt that goes on, and of one that
\* republishes.
LEMMA ClassifiedNone ==
  ASSUME NEW f, Classify(f) = "none"
  PROVE  /\ ~BlockingSha(f[1], f[2])
         /\ \A g \in File : g[1] = f[1] => file[g].status \notin Uploading
<1> DEFINE active == {g \in File : g[1] = f[1] /\ file[g].status \in Uploading}
<1>1. ~BlockingSha(f[1], f[2])
  BY DEF Classify
<1>2. active = {}
  BY DEF Classify
<1> QED BY <1>1, <1>2

\* A republication finds the post's verified file and no other post with its content.
LEMMA ClassifiedRepublish ==
  ASSUME NEW f, Classify(f) = "republish"
  PROVE  ~BlockingSha(f[1], f[2]) /\ latest[f[1]] = f /\ file[f].status = "verified"
  BY DEF Classify

\* A post begins to wait for an upload only when it is activated, and enters the
\* feed by a request to republish, a completed attempt or a moderator's hand.
LEMMA PostChanges ==
  ASSUME PublishBase, PublishNext, ~ActivateAttempt, NEW p \in Post
  PROVE  /\ post'[p].status = "publishing" => post[p].status = "publishing"
         /\ post'[p].mod = "pending" => post[p].mod = "pending"
         /\ post'[p].status = "published" /\ post'[p].mod = "pending" =>
              \/ post[p].status = "published"
              \/ /\ UNCHANGED file
                 /\ \E f \in File : f[1] = p /\ Classify(f) = "republish"
                 /\ \A q \in Post \ {p} : post'[q] = post[q]
              \/ RunnerAlive /\ p = MyFile[1] /\ Completable(MyFile, upload.job)
<1>t. post \in [Post -> PostRow] /\ (RunnerAlive => MyFile \in File)
  BY MyFileIsFile DEF PublishBase, PublishTypeOK
<1>p. ASSUME NEW q, NEW s, post' = PostAs(q, s)
      PROVE  /\ post'[p].mod = post[p].mod
             /\ post'[p].status = (IF p = q THEN s ELSE post[p].status)
  BY <1>t, <1>p DEF PostAs, PostRow
<1>1. CASE UNCHANGED post
  BY <1>1
<1>2. CASE RequestPublish
  <2>1. PICK f \in File : \/ Classify(f) = "republish" /\ post' = PostAs(f[1], "published")
                          \/ UNCHANGED post
    BY <1>2 DEF RequestPublish
  <2>2. UNCHANGED file
    BY <1>2 DEF RequestPublish
  <2>3. ASSUME post' = PostAs(f[1], "published"), p = f[1], NEW q \in Post \ {p}
        PROVE  post'[q] = post[q]
    BY <1>t, <2>3 DEF PostAs
  <2> QED BY <1>1, <1>p, <2>1, <2>2, <2>3
<1>3. CASE Unpublish
  BY <1>3, <1>p DEF Unpublish
<1>4. CASE ModeratePost
  <2>1. PICK q \in Post, to \in {<<"published", "hidden">>, <<"published", "approved">>,
                                   <<"blocked", "removed">>} :
          post' = [post EXCEPT ![q] = [@ EXCEPT !.status = to[1], !.mod = to[2]]]
    BY <1>4 DEF ModeratePost
  <2> DEFINE row == [post[q] EXCEPT !.status = to[1], !.mod = to[2]]
  <2>2. row.status # "publishing" /\ row.mod # "pending"
    BY <1>t DEF PostRow
  <2>3. post' = [post EXCEPT ![q] = row]
    BY <2>1
  <2> HIDE DEF row
  <2> QED BY <1>t, <2>2, <2>3
<1>5. CASE SoftDeletePost
  <2>1. PICK q \in Post :
          post' = [post EXCEPT ![q] = [@ EXCEPT !.status = "deleted", !.gone = TRUE]]
    BY <1>5 DEF SoftDeletePost
  <2> QED BY <1>t, <2>1 DEF PostRow
<1>6. CASE CompleteAttempt
  BY <1>1, <1>6, <1>p DEF CompleteAttempt, RunnerAt, RunnerAlive
<1>7. CASE RunnerFails
  BY <1>1, <1>7, <1>p DEF RunnerFails, FailAttempt
<1>8. CASE ActOnAttempt
  <2>1. UNCHANGED post \/ post' = PostAs(pub[worker.job].file[1], "failed")
    BY <1>8 DEF ActOnAttempt, FailAttempt
  <2> QED BY <1>1, <1>p, <2>1
<1> QED
  BY <1>1, <1>2, <1>3, <1>4, <1>5, <1>6, <1>7, <1>8
     DEF PublishNext, ApiNext, RunnerNext, WorkerNext, EnqueuePublishJob, UnpublishFile,
         UnpublishJob, DeleteRemoteFile, TrashRemoteFile, RemoteFileDeleted, ApiDies, RunnerStarts,
         RunnerInterrupts, RunnerChecks, PreviousRemote, ReuseRemote, DropRemote, MarkUploading,
         OpenSession, LinkSession, UploadChunk, AdvanceUpload, BeginVerification, VerifyRemote,
         FinishPublish, DiscardRemote, InvalidateFile, CancelPublish, UnexpectedFailure,
         FailPublish, CommunityUnavailable, RunnerDies, WorkerStops, WorkerDies, ReconcileStale,
         ReadAttempt, SettlePublish, ClaimPublish, SpawnUpload, UploadExited, WorkerStopped,
         WorkerStarts

(***************************************************************************)
(* No two posts carry the same content.                                    *)
(***************************************************************************)

\* What keeps others from publishing: a carried content, or one on its way.
Holding(p, s) ==
  /\ latest[p] = <<p, s>>
  /\ \/ post[p].status = "published" /\ file[<<p, s>>].status = "verified"
     \/ post[p].status = "publishing" /\ file[<<p, s>>].status \in Uploading

Apart ==
  \A p, q \in Post, s \in Sha :
    p # q /\ post[p].mod = "pending" /\ post[q].mod = "pending" =>
      ~(Holding(p, s) /\ Holding(q, s))

\* Only activation and republication begin to hold a content, and only one that
\* no other post holds.
LEMMA HoldingBegins ==
  ASSUME PublishBase, PublishNext, ~ActivateAttempt,
         NEW p \in Post, NEW s \in Sha, Holding(p, s)', post'[p].mod = "pending"
  PROVE  \/ Holding(p, s)
         \/ /\ ~BlockingSha(p, s) /\ UNCHANGED <<file, latest>>
            /\ \A q \in Post \ {p} : post'[q] = post[q]
<1>f. <<p, s>> \in File
  BY DEF File
<1>l. UNCHANGED latest /\ latest[p] = <<p, s>>
  BY FileChanges DEF Holding
<1>1. CASE post'[p].status = "publishing"
  <2>1. file'[<<p, s>>].status \in Uploading
    BY <1>1 DEF Holding
  <2> QED BY <1>1, <1>f, <1>l, <2>1, FileChanges, PostChanges DEF Holding
<1>2. CASE post'[p].status = "published" /\ file'[<<p, s>>].status = "verified"
  <2>1. CASE RunnerAlive /\ p = MyFile[1] /\ Completable(MyFile, upload.job)
    <3>1. MyFile = <<p, s>>
      BY <1>l, <2>1 DEF Completable, Linked
    <3> QED BY <1>l, <2>1, <3>1 DEF Completable, Holding, Uploading
  <2>2. CASE /\ UNCHANGED file
             /\ \E f \in File : f[1] = p /\ Classify(f) = "republish"
             /\ \A q \in Post \ {p} : post'[q] = post[q]
    <3>1. PICK f \in File : f[1] = p /\ Classify(f) = "republish"
      BY <2>2
    <3>2. ~BlockingSha(f[1], f[2]) /\ latest[f[1]] = f
      BY <3>1, ClassifiedRepublish
    <3>3. f[2] = s
      BY <1>l, <3>1, <3>2
    <3> QED BY <1>l, <2>2, <3>1, <3>2, <3>3
  <2>3. CASE post[p].status = "published"
    <3>1. CASE file[<<p, s>>].status = "verified"
      BY <1>l, <2>3, <3>1 DEF Holding
    <3>2. CASE RunnerAlive /\ <<p, s>> = MyFile /\ Completable(<<p, s>>, upload.job)
      BY <2>3, <3>2 DEF Completable
    <3> QED BY <1>2, <1>f, <3>1, <3>2, FileChanges
  <2> QED BY <1>2, <2>1, <2>2, <2>3, PostChanges
<1> QED BY <1>1, <1>2 DEF Holding

\* Activating an attempt keeps contents apart: the classification looked at all others.
LEMMA ActivateApart ==
  ASSUME PublishBase, ActivateAttempt, Apart
  PROVE  Apart'
<1> DEFINE f == api.file
<1>1. f \in File /\ Classify(f) = "none"
  BY DEF ActivateAttempt, ApiAt, PublishBase, ApiHasFile
<1>2. PICK a \in Post, b \in Sha : f = <<a, b>>
  BY <1>1 DEF File
<1>3. ~BlockingSha(a, b)
  BY <1>1, <1>2, ClassifiedNone
<1>4. /\ \A g \in File \ {f} : file'[g] = file[g]
      /\ \A p \in Post \ {a} : latest'[p] = latest[p] /\ post'[p] = post[p]
      /\ latest'[a] = f /\ post'[a].mod = post[a].mod
  BY <1>2 DEF ActivateAttempt, PostAs, PublishBase, PublishTypeOK, PostRow
<1> HIDE DEF f
<1>5. ASSUME NEW p \in Post, NEW s \in Sha, p # a, Holding(p, s)'
      PROVE  Holding(p, s)
  BY <1>2, <1>4, <1>5 DEF Holding, File
<1>6. ASSUME NEW s \in Sha, Holding(a, s)'
      PROVE  s = b
  BY <1>2, <1>4, <1>6 DEF Holding
<1>7. ASSUME NEW p \in Post, p # a
      PROVE  ~Holding(p, b)
  BY <1>3, <1>7 DEF BlockingSha, Holding
<1> SUFFICES ASSUME NEW p \in Post, NEW q \in Post, NEW s \in Sha, p # q,
                    post'[p].mod = "pending", post'[q].mod = "pending",
                    Holding(p, s)', Holding(q, s)'
             PROVE  FALSE
  BY DEF Apart
<1> QED BY <1>4, <1>5, <1>6, <1>7 DEF Apart

\* So does every step,
LEMMA ApartStep ==
  ASSUME PublishBase, [PublishNext]_publishVars, Apart
  PROVE  Apart'
<1>1. CASE UNCHANGED publishVars
  BY <1>1 DEF publishVars, Apart, Holding
<1>2. CASE ActivateAttempt
  BY <1>2, ActivateApart
<1>3. CASE PublishNext /\ ~ActivateAttempt
  <2> SUFFICES ASSUME NEW p \in Post, NEW q \in Post, NEW s \in Sha, p # q,
                      post'[p].mod = "pending", post'[q].mod = "pending",
                      Holding(p, s)', Holding(q, s)'
               PROVE  FALSE
    BY DEF Apart
  <2>1. post[p].mod = "pending" /\ post[q].mod = "pending"
    BY <1>3, PostChanges
  <2>2. ASSUME NEW u \in Post, NEW v \in Post, u # v, ~BlockingSha(u, s),
               UNCHANGED <<file, latest>>, \A w \in Post \ {u} : post'[w] = post[w],
               Holding(v, s)'
        PROVE  FALSE
    BY <2>2 DEF BlockingSha, Holding
  <2>3. Holding(p, s) /\ Holding(q, s)
    BY <1>3, <2>2, HoldingBegins
  <2> QED BY <2>1, <2>3 DEF Apart
<1> QED BY <1>1, <1>2, <1>3

\* so contents are always apart.
LEMMA ApartAlways == PublishSpec => []Apart
<1>1. PublishInit => Apart
  BY DEF PublishInit, Apart, Holding
<1> QED BY <1>1, ApartStep, BaseAlways, PTL DEF PublishSpec

\* The feed never shows one content under two publications, however many posts,
\* owners and runners race for it, unless a moderator republished one of them.
THEOREM OneCarrier == PublishSpec => []NoDuplicate
<1>1. Apart => NoDuplicate
  BY DEF Apart, Holding, NoDuplicate, Carries
<1> QED BY <1>1, ApartAlways, PTL

(***************************************************************************)
(* An attempt that has ended does not come back.                           *)
(***************************************************************************)

\* Only its activation makes an attempt live.
LEMMA LiveBegins ==
  ASSUME PublishBase, PublishNext, NEW f \in File, NEW j, Live(f, j)'
  PROVE  Live(f, j) \/ (ActivateAttempt /\ f = api.file /\ j = api.job)
<1>p. f[1] \in Post
  BY FileParts
<1>1. CASE ~ActivateAttempt
  BY <1>1, <1>p, FileChanges, PostChanges DEF Live, Linked
<1>2. CASE ActivateAttempt
  <2> DEFINE g == api.file
  <2>1. g \in File
    BY <1>2 DEF ActivateAttempt, ApiAt, PublishBase, ApiHasFile
  <2>2. g[1] \in Post
    BY <2>1, FileParts
  <2>3. /\ file'[g].job = api.job
        /\ \A h \in File \ {g} : file'[h] = file[h]
        /\ \A p \in Post \ {g[1]} : latest'[p] = latest[p] /\ post'[p] = post[p]
        /\ latest'[g[1]] = g
    BY <1>2, <2>1, <2>2 DEF ActivateAttempt, PostAs, PublishBase, PublishTypeOK, FileRow
  <2> HIDE DEF g
  <2>4. CASE f = g
    BY <1>2, <2>3, <2>4 DEF Live, Linked, g
  <2>5. CASE f # g
    <3>1. f[1] # g[1]
      BY <2>3, <2>5 DEF Live, Linked
    <3> QED BY <1>p, <2>3, <2>5, <3>1 DEF Live, Linked
  <2> QED BY <2>4, <2>5
<1> QED BY <1>1, <1>2

\* A withdrawn attempt is over, and is not one that is about to begin.
Revoked ==
  /\ \A j \in withdrawn : HasFile(j) /\ ~Live(pub[j].file, j)
  /\ ApiAt("activate") => api.job \notin withdrawn

\* Only a request begins an activation.
LEMMA ActivationBegins ==
  ASSUME ApiNext, ~RequestPublish
  PROVE  ~ApiAt("activate")'
<1>1. CASE ActivateAttempt
  BY <1>1 DEF ActivateAttempt, ApiGoto, ApiIdle, ApiAt
<1>2. CASE Unpublish
  <2>1. PICK p \in Post : IF latest[p] = NoFile THEN UNCHANGED api
                          ELSE ApiGoto("invalidate", latest[p], file[latest[p]].job)
    BY <1>2 DEF Unpublish
  <2>2. ApiAt("idle")
    BY <1>2 DEF Unpublish
  <2> QED BY <2>1, <2>2 DEF ApiGoto, ApiAt
<1>3. CASE ModeratePost \/ SoftDeletePost
  <2>1. ApiAt("idle") /\ UNCHANGED api
    BY <1>3 DEF ModeratePost, SoftDeletePost
  <2> QED BY <2>1 DEF ApiAt
<1>4. CASE DeleteRemoteFile
  BY <1>4 DEF DeleteRemoteFile, ApiGoto, ApiAt
<1>5. CASE UnpublishFile \/ TrashRemoteFile
  BY <1>5 DEF UnpublishFile, TrashRemoteFile, ApiGoto, ApiIdle, ApiAt
<1>6. CASE EnqueuePublishJob \/ UnpublishJob \/ RemoteFileDeleted \/ ApiDies
  <2>1. api' = ApiIdle
    BY <1>6 DEF EnqueuePublishJob, UnpublishJob, RemoteFileDeleted, ApiDies
  <2> QED BY <2>1 DEF ApiIdle, ApiAt
<1> QED BY <1>1, <1>2, <1>3, <1>4, <1>5, <1>6 DEF ApiNext

\* The step that withdraws an attempt ends it.
LEMMA WithdrawnBegins ==
  ASSUME PublishBase, PublishNext, NEW j \in withdrawn', j \notin withdrawn
  PROVE  /\ HasFile(j) /\ UNCHANGED pub /\ ~Live(pub[j].file, j)'
         /\ ~ApiAt("activate")'
<1>1. Unpublish \/ ModeratePost \/ SoftDeletePost
  <2>1. ApiNext => Unpublish \/ ModeratePost \/ SoftDeletePost \/ UNCHANGED withdrawn
    BY DEF ApiNext, RequestPublish, ActivateAttempt, EnqueuePublishJob, UnpublishFile,
           UnpublishJob, DeleteRemoteFile, TrashRemoteFile, RemoteFileDeleted, ApiDies
  <2> QED BY <2>1, Frames DEF PublishNext
<1>2. PICK p \in Post : Withdraw(p) /\ post'[p].status # "publishing"
  <2>1. CASE Unpublish
    BY <2>1 DEF Unpublish, PostAs, PublishBase, PublishTypeOK, PostRow
  <2>2. CASE ModeratePost
    <3>1. PICK p \in Post, to \in {<<"published", "hidden">>, <<"published", "approved">>,
                                     <<"blocked", "removed">>} :
            /\ post' = [post EXCEPT ![p] = [@ EXCEPT !.status = to[1], !.mod = to[2]]]
            /\ Withdraw(p)
      BY <2>2 DEF ModeratePost
    <3> DEFINE row == [post[p] EXCEPT !.status = to[1], !.mod = to[2]]
    <3>2. row.status # "publishing" /\ post' = [post EXCEPT ![p] = row]
      BY <3>1 DEF PublishBase, PublishTypeOK, PostRow
    <3> HIDE DEF row
    <3> QED BY <3>1, <3>2 DEF PublishBase, PublishTypeOK
  <2>3. CASE SoftDeletePost
    BY <2>3 DEF SoftDeletePost, PublishBase, PublishTypeOK, PostRow
  <2> QED BY <1>1, <2>1, <2>2, <2>3
<1>3. j \in Publish /\ pub[j].file # NoFile /\ pub[j].file[1] = p
  BY <1>2 DEF Withdraw
<1>4. HasFile(j)
  BY <1>3 DEF PublishBase, PubFiles, HasFile
<1>5. UNCHANGED pub /\ ~ApiAt("activate")'
  <2>1. ApiNext /\ ~RequestPublish
    BY <1>1, <1>2 DEF ApiNext, RequestPublish, Withdraw
  <2> QED BY <1>1, <2>1, ActivationBegins DEF Unpublish, ModeratePost, SoftDeletePost
<1>6. ~Live(pub[j].file, j)'
  BY <1>2, <1>3, <1>5 DEF Live
<1> QED BY <1>4, <1>5, <1>6

\* Once over, a withdrawn attempt stays so ...
LEMMA RevokedStep ==
  ASSUME PublishBase, [PublishNext]_publishVars, Revoked
  PROVE  Revoked'
<1>1. CASE UNCHANGED publishVars
  BY <1>1 DEF publishVars, Revoked, HasFile, Live, Linked, ApiAt
<1>2. CASE PublishNext
  <2>1. ASSUME NEW j \in withdrawn
        PROVE  HasFile(j)' /\ ~Live(pub[j].file, j)'
    <3>1. HasFile(j) /\ ~Live(pub[j].file, j) /\ pub[j].file \in File
      BY <2>1 DEF Revoked, PublishBase, PubFiles, HasFile
    <3>2. HasFile(j)' /\ pub'[j].file = pub[j].file
      <4>1. CASE RequestPublish
        <5>1. HasFile(j)'
          BY <3>1, <4>1, RequestFiles
        <5>2. UNCHANGED pub
              \/ \E i \in Publish : \E r :
                   pub[i].status = "absent" /\ pub' = [pub EXCEPT ![i] = r]
          BY <4>1 DEF RequestPublish
        <5> QED BY <3>1, <5>1, <5>2 DEF PublishBase, PublishTypeOK, HasFile
      <4>2. CASE ~RequestPublish
        BY <1>2, <3>1, <4>2, FilesStay, FilesKept DEF SameFiles, HasFile
      <4> QED BY <4>1, <4>2
    <3>3. ~(ActivateAttempt /\ j = api.job)
      BY <2>1 DEF ActivateAttempt, Revoked
    <3> DEFINE f == pub[j].file
    <3>4. ~Live(f, j)'
      <4> SUFFICES ASSUME Live(pub[j].file, j)' PROVE FALSE
        OBVIOUS
      <4>1. pub'[j].file \in File
        BY <3>1, <3>2
      <4> QED BY <1>2, <3>1, <3>2, <3>3, <4>1, LiveBegins DEF Live, Linked
    <3> QED BY <3>2, <3>4
  <2>2. ASSUME NEW j \in withdrawn', j \notin withdrawn
        PROVE  HasFile(j)' /\ ~Live(pub[j].file, j)' /\ ~ApiAt("activate")'
    BY <1>2, <2>2, WithdrawnBegins DEF HasFile
  <2>3. ASSUME ApiAt("activate")', api'.job \in withdrawn
        PROVE  FALSE
    <3>1. UNCHANGED api \/ RequestPublish
      BY <1>2, <2>3, ActivationBegins, Frames DEF PublishNext
    <3>2. CASE UNCHANGED api
      BY <2>3, <3>2 DEF Revoked, ApiAt
    <3>3. CASE RequestPublish /\ ~UNCHANGED api
      <4>1. pub[api'.job].status = "absent"
        BY <3>3 DEF RequestPublish, ApiGoto
      <4> QED BY <2>3, <4>1 DEF Revoked, HasFile
    <3> QED BY <3>1, <3>2, <3>3
  <2> QED BY <2>1, <2>2, <2>3 DEF Revoked
<1> QED BY <1>1, <1>2

\* ... in every reachable state.
LEMMA RevokedAlways == PublishSpec => []Revoked
<1>1. PublishInit => Revoked
  BY DEF PublishInit, Revoked, ApiIdle, ApiAt
<1> QED BY <1>1, RevokedStep, BaseAlways, PTL DEF PublishSpec

\* Whoever unpublished, deleted or moderated a post while it uploaded never finds
\* that upload published afterwards: not by the runner, whose provider answers
\* late, nor by a recovery that reads the row again.
THEOREM WithdrawalHolds == PublishSpec => WithdrawnNeverPublished
<1> DEFINE Verifies == \A f \in File : file[f].status # "verified" /\ file'[f].status = "verified"
                                        => file[f].job \notin withdrawn
<1>1. PublishBase /\ Revoked /\ [PublishNext]_publishVars => [Verifies]_publishVars
  <2> SUFFICES ASSUME PublishBase, Revoked, PublishNext, NEW f \in File,
                      file[f].status # "verified", file'[f].status = "verified"
               PROVE  file[f].job \notin withdrawn
    OBVIOUS
  <2>1. ~ActivateAttempt
    <3> SUFFICES ASSUME ActivateAttempt PROVE FALSE
      OBVIOUS
    <3>1. file'[f].status \in {"pending", file[f].status}
      BY DEF ActivateAttempt, PublishBase, PublishTypeOK, FileRow
    <3> QED BY <3>1
  <2>2. RunnerAlive /\ f = MyFile /\ Completable(f, upload.job)
    BY <2>1, FileChanges
  <2>3. Live(pub[upload.job].file, upload.job) /\ file[f].job = upload.job
    BY <2>2 DEF Completable, Live, Linked, MyFile, Uploading
  <2> QED BY <2>3 DEF Revoked
<1>2. [](PublishBase /\ Revoked) /\ [][PublishNext]_publishVars => [][Verifies]_publishVars
  BY <1>1, PTL
<1> QED BY <1>2, BaseAlways, RevokedAlways, PTL DEF PublishSpec, WithdrawnNeverPublished

(***************************************************************************)
(* A post waits for its upload only while somebody will end it.            *)
(***************************************************************************)

\* No attempt of this job is live.
Gone(j) == \A f \in File : ~Live(f, j)

\* The row is over, or asked to be.
Closed(row) == row.status \in Terminal \union {"absent"} \/ row.cancel

\* A waiting post has a file on its way, of a job that names it.
Attempted ==
  \A p \in Post : post[p].status = "publishing" =>
    /\ latest[p] \in File /\ latest[p][1] = p /\ file[latest[p]].status \in Uploading
    /\ file[latest[p]].job \in Publish /\ pub[file[latest[p]].job].file = latest[p]

Ended == \A j \in Publish : Closed(pub[j]) => Gone(j)

\* Files and jobs name each other.
JobsExist ==
  /\ \A f \in File : file[f].job # NoPublish =>
       HasFile(file[f].job) /\ pub[file[f].job].file = f
  /\ \A p \in Post : latest[p] \in File => latest[p][1] = p

\* The API only takes back what is withdrawn, and nobody else knows of a row that
\* it has not linked yet.
ApiSettled ==
  /\ ApiAt("invalidate") \/ ApiAt("flag") => Gone(api.job)
  /\ ApiAt("trash") \/ ApiAt("trashed") => file[api.file].status = "deleting"
  /\ ApiAt("activate") =>
       /\ pub[api.job].status = "staging" /\ pub[api.job].owned /\ ~pub[api.job].cancel
       /\ \A f \in File : file[f].job # api.job
       /\ worker.pc \notin {"poll", "down"} => worker.job # api.job
       /\ RunnerAlive => upload.job # api.job

\* A runner that gives up, or is done, leaves no live attempt.
UploadSettled ==
  /\ upload.pc \in {"finish", "cancel", "failed", "discard", "revoked", "abort"} =>
       Gone(upload.job)
  /\ upload.pc \in {"stat", "complete"} /\ Live(MyFile, upload.job) =>
       file[MyFile].status = "verifying"

\* The worker closes a row only when its attempt is over.
WorkerSettled ==
  /\ At("act") /\ worker.verdict \notin {"retry", "queue", "drop_live", "refuse_live"} =>
       Gone(worker.job)
  /\ At("settle") /\ worker.verdict \notin {"retry", "queue"} => Gone(worker.job)

Backing ==
  /\ PublishBase /\ Attempted /\ Ended /\ JobsExist
  /\ ApiSettled /\ UploadSettled /\ WorkerSettled

\* A job whose own file is not live has no live attempt at all.
LEMMA GoneByFile ==
  ASSUME Attempted, NEW j, ~Live(pub[j].file, j)
  PROVE  Gone(j)
<1> SUFFICES ASSUME NEW f \in File, Live(f, j) PROVE FALSE
  BY DEF Gone
<1>1. f[1] \in Post /\ latest[f[1]] = f /\ file[f].job = j /\ post[f[1]].status = "publishing"
  BY FileParts DEF Live, Linked
<1> QED BY <1>1 DEF Attempted

\* A job without a live attempt gets one only by its activation.
LEMMA GoneStays ==
  ASSUME PublishBase, PublishNext, NEW j, Gone(j), ~(ActivateAttempt /\ j = api.job)
  PROVE  Gone(j)'
  BY LiveBegins DEF Gone

\* Activation writes one file, one post and nothing of the others.
LEMMA ActivateTouches ==
  ASSUME Backing, ActivateAttempt
  PROVE  /\ api.file \in File /\ api.file[1] \in Post /\ HasFile(api.job)
         /\ pub[api.job].file = api.file
         /\ file'[api.file].status = "pending" /\ file'[api.file].job = api.job
         /\ \A h \in File \ {api.file} : file'[h] = file[h]
         /\ \A p \in Post \ {api.file[1]} : latest'[p] = latest[p] /\ post'[p] = post[p]
         /\ latest'[api.file[1]] = api.file
<1>1. /\ api.file \in File /\ HasFile(api.job) /\ pub[api.job].file = api.file
  BY DEF ActivateAttempt, ApiAt, Backing, PublishBase, ApiHasFile
<1>2. api.file[1] \in Post
  BY <1>1, FileParts
<1> QED
  BY <1>1, <1>2 DEF ActivateAttempt, PostAs, Backing, PublishBase, PublishTypeOK, FileRow

\* The post that it activates waits for the file that it links.
LEMMA ActivateAttempted ==
  ASSUME Backing, ActivateAttempt
  PROVE  Attempted'
<1>1. SameFiles(pub')
  <2>1. PublishNext /\ ~RequestPublish
    BY DEF ActivateAttempt, RequestPublish, ApiAt, PublishNext, ApiNext
  <2> QED BY <2>1, FilesStay DEF Backing
<1> SUFFICES ASSUME NEW p \in Post, post'[p].status = "publishing"
             PROVE  /\ latest'[p] \in File /\ latest'[p][1] = p
                    /\ file'[latest'[p]].status \in Uploading
                    /\ file'[latest'[p]].job \in Publish
                    /\ pub'[file'[latest'[p]].job].file = latest'[p]
  BY DEF Attempted
<1>2. CASE p = api.file[1]
  BY <1>1, <1>2, ActivateTouches DEF SameFiles, HasFile, Uploading
<1>3. CASE p # api.file[1]
  <2>1. post[p].status = "publishing" /\ latest'[p] = latest[p]
    BY <1>3, ActivateTouches
  <2>2. latest[p] \in File /\ latest[p] # api.file
    BY <1>3, <2>1 DEF Backing, Attempted
  <2> QED BY <1>1, <2>1, <2>2, ActivateTouches DEF Backing, Attempted, SameFiles
<1> QED BY <1>2, <1>3

\* A live file is written off only together with its post.
LEMMA LiveFileStays ==
  ASSUME Backing, PublishNext, ~ActivateAttempt, NEW f \in File, NEW j, Live(f, j),
         post'[f[1]].status = "publishing"
  PROVE  file'[f].status \in Uploading
<1>t. /\ file \in [File -> FileRow] /\ post \in [Post -> PostRow] /\ f[1] \in Post
      /\ RunnerAlive => MyFile \in File
  BY FileParts, MyFileIsFile DEF Backing, PublishBase, PublishTypeOK
<1>f. file[f].status \in Uploading /\ file[f].job = j
  BY DEF Live, Linked
<1>1. CASE UNCHANGED file
  BY <1>1, <1>f
<1>i. ASSUME NEW g, NEW i, file' = Invalidated(g, i), Gone(i)
      PROVE  file'[f].status \in Uploading
  <2>1. CASE f = g /\ file[f].job = i
    BY <1>i, <2>1, <1>f DEF Gone
  <2>2. CASE ~(f = g /\ file[f].job = i)
    BY <1>i, <1>f, <1>t, <2>2 DEF Invalidated, FileAs
  <2> QED BY <2>1, <2>2
<1>a. ASSUME NEW g \in File, NEW i, FailAttempt(g, i)
      PROVE  file'[f].status \in Uploading
  <2>1. CASE Live(g, i)
    <3>1. CASE f = g
      BY <1>a, <1>t, <2>1, <3>1 DEF FailAttempt, PostAs, PostRow
    <3>2. CASE f # g
      BY <1>a, <1>f, <1>t, <2>1, <3>2 DEF FailAttempt, FileAs
    <3> QED BY <3>1, <3>2
  <2>2. CASE ~Live(g, i)
    BY <1>1, <1>a, <2>2 DEF FailAttempt
  <2> QED BY <2>1, <2>2
<1>2. CASE WritesOff
  <2>1. CASE UnpublishFile
    BY <1>1, <1>i, <2>1 DEF UnpublishFile, Backing, ApiSettled, ApiAt
  <2>2. CASE DeleteRemoteFile
    <3>1. PICK q \in Post : file[latest[q]].status = "verified" /\ file' = FileAs(latest[q], "deleting")
      BY <2>2 DEF DeleteRemoteFile
    <3>2. f # latest[q]
      BY <1>f, <3>1 DEF Uploading
    <3> QED BY <1>f, <1>t, <3>1, <3>2 DEF FileAs
  <2>3. CASE RemoteFileDeleted
    <3>1. f # api.file
      BY <1>f, <2>3 DEF RemoteFileDeleted, Backing, ApiSettled, Uploading
    <3> QED BY <1>f, <1>t, <2>3, <3>1 DEF RemoteFileDeleted, FileAs
  <2>4. CASE InvalidateFile
    BY <1>i, <2>4 DEF InvalidateFile, RunnerAt, Backing, UploadSettled
  <2>5. CASE RunnerFails
    BY <1>a, <1>t, <2>5 DEF RunnerFails, RunnerAt, RunnerAlive
  <2>6. CASE ActOnAttempt
    <3> DEFINE g == pub[worker.job].file
    <3>1. g \in File
      BY <2>6 DEF ActOnAttempt, At, Backing, PublishBase, WorkerHasFile, HasFile, PubFiles
    <3>2. \/ FailAttempt(g, worker.job) \/ UNCHANGED file
          \/ /\ worker.verdict \in {"drop", "refuse", "unlinked"}
             /\ file' = Invalidated(g, worker.job)
      BY <2>6 DEF ActOnAttempt
    <3>3. worker.verdict \in {"drop", "refuse", "unlinked"} => Gone(worker.job)
      BY <2>6 DEF ActOnAttempt, Backing, WorkerSettled
    <3> HIDE DEF g
    <3> QED BY <1>1, <1>a, <1>i, <3>1, <3>2, <3>3
  <2> QED BY <1>2, <2>1, <2>2, <2>3, <2>4, <2>5, <2>6 DEF WritesOff
<1>3. CASE /\ CompleteAttempt /\ RunnerAlive /\ Completable(MyFile, upload.job)
           /\ file' = FileAs(MyFile, "verified") /\ post' = PostAs(MyFile[1], "published")
  <2>1. f # MyFile
    BY <1>3, <1>t DEF PostAs, PostRow
  <2> QED BY <1>3, <1>f, <1>t, <2>1 DEF FileAs
<1>4. CASE RunnerAlive /\ \E row \in FileRow :
             /\ file' = [file EXCEPT ![MyFile] = row]
             /\ row.job = file[MyFile].job
             /\ \/ row.status = file[MyFile].status
                \/ Live(MyFile, upload.job) /\ row.status \in Uploading
  BY <1>4, <1>f, <1>t
<1> QED
  BY <1>1, <1>2, <1>3, <1>4, FileChanges DEF Backing, FileWritten, WrittenOff

\* A waiting post keeps its file on its way in every step.
LEMMA AttemptedStep ==
  ASSUME Backing, PublishNext
  PROVE  Attempted'
<1>1. CASE ActivateAttempt
  BY <1>1, ActivateAttempted
<1>2. CASE ~ActivateAttempt
  <2> SUFFICES ASSUME NEW p \in Post, post'[p].status = "publishing"
               PROVE  /\ latest'[p] \in File /\ latest'[p][1] = p
                      /\ file'[latest'[p]].status \in Uploading
                      /\ file'[latest'[p]].job \in Publish
                      /\ pub'[file'[latest'[p]].job].file = latest'[p]
    BY DEF Attempted
  <2> DEFINE f == latest[p]
             j == file[f].job
  <2>1. post[p].status = "publishing" /\ UNCHANGED latest
    BY <1>2, PostChanges, FileChanges DEF Backing
  <2>2. f \in File /\ f[1] = p /\ file[f].status \in Uploading /\ j \in Publish /\ pub[j].file = f
    BY <2>1 DEF Backing, Attempted
  <2>3. file'[f].job = j
    BY <1>2, <2>2, FileChanges DEF Backing
  <2>4. Live(f, j)
    BY <2>1, <2>2 DEF Live, Linked
  <2>5. file'[f].status \in Uploading
    BY <1>2, <2>2, <2>4, LiveFileStays
  <2>6. pub'[j].file = pub[j].file
    <3> HIDE DEF j
    <3>1. CASE RequestPublish
      <4>1. pub[j].status # "absent"
        BY <2>2, PublishAssumption DEF Backing, PublishBase, PubFiles, File
      <4>2. UNCHANGED pub
            \/ \E i \in Publish : \E r :
                 pub[i].status = "absent" /\ pub' = [pub EXCEPT ![i] = r]
        BY <3>1 DEF RequestPublish
      <4> QED BY <2>2, <4>1, <4>2 DEF Backing, PublishBase, PublishTypeOK
    <3>2. CASE ~RequestPublish
      BY <2>2, <3>2, FilesStay DEF Backing, SameFiles
    <3> QED BY <3>1, <3>2
  <2> QED BY <2>1, <2>2, <2>3, <2>5, <2>6
<1> QED BY <1>1, <1>2

\* Which updates may close a row, and that they close no other.
LEMMA ClosedRows ==
  ASSUME PublishTypeOK, NEW j \in Publish, NEW i \in Publish
  PROVE  /\ \A s \in {"queued", "resumable"} : Closed(PubAs(j, s)[i]) => Closed(pub[i])
         /\ \A r, e \in BOOLEAN : /\ Closed(Interrupted(j, r, e)[i]) => Closed(pub[i])
                                  /\ Closed(FlightClosed(j, r, e)[i]) => Closed(pub[i])
         /\ Closed(Retried(j)[i]) => Closed(pub[i])
         /\ i # j => /\ \A s \in Status : PubAs(j, s)[i] = pub[i] /\ Reconciled(j, s)[i] = pub[i]
                     /\ CancelledInFlight(j)[i] = pub[i]
<1>t. pub \in [Publish -> PubRow]
  BY DEF PublishTypeOK
<1>1. ASSUME NEW s \in {"queued", "resumable"}, Closed(PubAs(j, s)[i])
      PROVE  Closed(pub[i])
  <2>1. s \notin Terminal \union {"absent"}
    BY DEF Terminal
  <2> QED BY <1>t, <1>1, <2>1 DEF PubAs, Closed, PubRow
<1>2. ASSUME NEW r \in BOOLEAN, NEW e \in BOOLEAN, Closed(Interrupted(j, r, e)[i])
      PROVE  Closed(pub[i])
  <2> DEFINE row == [pub[j] EXCEPT !.status = "interrupted", !.recov = r, !.exited = e]
  <2>1. row.status = "interrupted" /\ row.cancel = pub[j].cancel
    BY <1>t DEF PubRow
  <2>2. "interrupted" \notin Terminal \union {"absent"}
    BY DEF Terminal
  <2>3. Interrupted(j, r, e)[i] = IF i = j THEN row ELSE pub[i]
    BY <1>t DEF Interrupted
  <2> HIDE DEF row
  <2> QED BY <1>2, <2>1, <2>2, <2>3 DEF Closed
<1>3. i # j => CancelledInFlight(j)[i] = pub[i]
  BY <1>t DEF CancelledInFlight, Over
<1>4. ASSUME NEW r \in BOOLEAN, NEW e \in BOOLEAN, Closed(FlightClosed(j, r, e)[i])
      PROVE  Closed(pub[i])
  <2>1. CASE pub[j].cancel \/ pub[j].status \notin InFlight
    <3>1. FlightClosed(j, r, e) = CancelledInFlight(j)
      BY <2>1 DEF FlightClosed
    <3>2. CASE i = j /\ pub[j].status \in InFlight
      BY <2>1, <3>2 DEF Closed
    <3>3. CASE i # j \/ pub[j].status \notin InFlight
      BY <1>3, <1>4, <3>1, <3>3 DEF CancelledInFlight
    <3> QED BY <3>2, <3>3
  <2>2. CASE ~(pub[j].cancel \/ pub[j].status \notin InFlight)
    BY <1>2, <1>4, <2>2 DEF FlightClosed
  <2> QED BY <2>1, <2>2
<1>5. ASSUME Closed(Retried(j)[i])
      PROVE  Closed(pub[i])
  <2> DEFINE row == [pub[j] EXCEPT !.status = "queued", !.exited = FALSE, !.recov = FALSE,
                        !.attempt = pub[j].attempt + (IF pub[j].exited THEN 1 ELSE 0)]
  <2>1. row.status = "queued" /\ row.cancel = pub[j].cancel
    BY <1>t DEF PubRow
  <2>2. "queued" \notin Terminal \union {"absent"}
    BY DEF Terminal
  <2>3. Retried(j)[i] = IF i = j THEN row ELSE pub[i]
    BY <1>t DEF Retried
  <2> HIDE DEF row
  <2> QED BY <1>5, <2>1, <2>2, <2>3 DEF Closed
<1>6. ASSUME i # j, NEW s \in Status
      PROVE  PubAs(j, s)[i] = pub[i] /\ Reconciled(j, s)[i] = pub[i]
  BY <1>t, <1>6 DEF PubAs, Reconciled, Over
<1> QED BY <1>1, <1>2, <1>3, <1>4, <1>5, <1>6

\* Setting a flag of a row leaves the others, and its status.
LEMMA ClosedFlag ==
  ASSUME NEW t \in [Publish -> PubRow], NEW j, NEW i \in Publish
  PROVE  /\ Closed([t EXCEPT ![j].owned = FALSE][i]) <=> Closed(t[i])
         /\ i # j => [t EXCEPT ![j].cancel = TRUE][i] = t[i]
  BY DEF Closed, PubRow

\* A request closes a row only when its attempt is over,
LEMMA ClosedByApi ==
  ASSUME Backing, ApiNext, NEW j \in Publish, Closed(pub'[j])
  PROVE  Closed(pub[j]) \/ (Gone(j) /\ ~ActivateAttempt)
<1>t. PublishTypeOK /\ pub \in [Publish -> PubRow]
  BY DEF Backing, PublishBase, PublishTypeOK
<1>1. CASE UNCHANGED pub
  BY <1>1
<1>2. CASE RequestPublish
  <2>1. UNCHANGED pub
        \/ \E i \in Publish, f \in File :
             pub' = [pub EXCEPT ![i] = [EmptyPub EXCEPT !.status = "staging", !.file = f,
                                                        !.owned = TRUE]]
    BY <1>2 DEF RequestPublish
  <2>2. ASSUME NEW f \in File
        PROVE  ~Closed([EmptyPub EXCEPT !.status = "staging", !.file = f, !.owned = TRUE])
    BY DEF Closed, EmptyPub, Terminal
  <2> QED BY <1>t, <2>1, <2>2
<1>3. CASE ActivateAttempt
  <2>1. UNCHANGED pub \/ pub' = [pub EXCEPT ![api.job].owned = FALSE]
    BY <1>3 DEF ActivateAttempt
  <2> QED BY <1>1, <1>t, <2>1, ClosedFlag
<1>4. CASE EnqueuePublishJob
  <2>1. api.job \in Publish
    BY <1>4 DEF EnqueuePublishJob, ApiAt, Backing, PublishBase, ApiHasFile, HasFile
  <2>2. PubAs(api.job, "queued") \in [Publish -> PubRow]
    BY <1>t, PubTypes
  <2>3. Closed(PubAs(api.job, "queued")[j])
    BY <1>4, <2>2, ClosedFlag DEF EnqueuePublishJob
  <2> QED BY <1>t, <2>1, <2>3, ClosedRows
<1>5. CASE UnpublishJob
  <2>1. Gone(api.job) /\ ~ActivateAttempt
    BY <1>5 DEF UnpublishJob, Backing, ApiSettled, ActivateAttempt, ApiAt
  <2>2. UNCHANGED pub \/ pub' = [pub EXCEPT ![api.job].cancel = TRUE]
    BY <1>5 DEF UnpublishJob
  <2> QED BY <1>1, <1>t, <2>1, <2>2, ClosedFlag
<1>6. CASE ApiDies
  BY <1>6, <1>t DEF ApiDies, Closed, PubRow
<1> QED
  BY <1>1, <1>2, <1>3, <1>4, <1>5, <1>6
     DEF ApiNext, Unpublish, UnpublishFile, ModeratePost, SoftDeletePost, DeleteRemoteFile,
         TrashRemoteFile, RemoteFileDeleted

\* so does a runner,
LEMMA ClosedByRunner ==
  ASSUME Backing, RunnerNext \/ CommunityUnavailable \/ RunnerDies,
         NEW j \in Publish, Closed(pub'[j])
  PROVE  Closed(pub[j]) \/ Gone(j)
<1>t. PublishTypeOK /\ pub \in [Publish -> PubRow]
  BY DEF Backing, PublishBase, PublishTypeOK
<1>a. RunnerAlive => upload.job \in Publish
  BY DEF Backing, PublishBase, UploadHasFile, HasFile
<1>1. CASE UNCHANGED pub
  BY <1>1
<1>2. CASE RunnerStarts
  <2>1. UNCHANGED pub \/ pub' = [pub EXCEPT ![upload.job].status = "running"]
    BY <1>2 DEF RunnerStarts
  <2> QED BY <1>1, <1>t, <2>1 DEF Closed, PubRow, Terminal
<1>3. CASE RunnerInterrupts \/ CommunityUnavailable
  <2>1. upload.job \in Publish
    BY <1>3, <1>a DEF RunnerInterrupts, CommunityUnavailable, RunnerAt, RunnerAlive
  <2> QED BY <1>3, <1>t, <2>1, ClosedRows DEF RunnerInterrupts, CommunityUnavailable
<1>4. CASE FinishPublish \/ CancelPublish \/ FailPublish
  <2>1. upload.job \in Publish /\ Gone(upload.job)
    BY <1>4, <1>a DEF FinishPublish, CancelPublish, FailPublish, RunnerAt, RunnerAlive, Backing,
                      UploadSettled
  <2> QED
    BY <1>4, <1>t, <2>1, ClosedRows
       DEF FinishPublish, CancelPublish, FailPublish, Status, Terminal
<1>5. CASE UnexpectedFailure
  <2>1. upload.job \in Publish
    BY <1>5, <1>a DEF UnexpectedFailure, RunnerAt, RunnerAlive
  <2>2. \/ UNCHANGED pub
        \/ /\ AttemptState(MyFile, upload.job) \in {"completed", "failed"}
           /\ \E s \in {"finished", "failed"} : pub' = Reconciled(upload.job, s)
    BY <1>5 DEF UnexpectedFailure
  <2>3. AttemptState(MyFile, upload.job) \in {"completed", "failed"} => Gone(upload.job)
    <3>1. Live(MyFile, upload.job) => AttemptState(MyFile, upload.job) = "active"
      BY DEF AttemptState, Live, Uploading
    <3> QED BY <3>1, GoneByFile DEF Backing, MyFile
  <2> QED BY <1>1, <1>t, <2>1, <2>2, <2>3, ClosedRows DEF Status, Terminal
<1> QED
  BY <1>1, <1>2, <1>3, <1>4, <1>5
     DEF RunnerNext, RunnerChecks, PreviousRemote, ReuseRemote, DropRemote, MarkUploading,
         OpenSession, LinkSession, UploadChunk, AdvanceUpload, BeginVerification, VerifyRemote,
         CompleteAttempt, DiscardRemote, InvalidateFile, RunnerFails, RunnerDies

\* so does the worker.
LEMMA ClosedByWorker ==
  ASSUME Backing, WorkerNext \/ WorkerStops \/ WorkerDies, NEW j \in Publish, Closed(pub'[j])
  PROVE  Closed(pub[j]) \/ Gone(j)
<1>t. PublishTypeOK /\ pub \in [Publish -> PubRow]
  BY DEF Backing, PublishBase, PublishTypeOK
<1>1. CASE UNCHANGED pub
  BY <1>1
<1>2. CASE ReconcileStale \/ UploadExited \/ WorkerStopped
  <2>1. \E i \in Publish : \E r, e \in BOOLEAN : pub' = FlightClosed(i, r, e)
    <3>1. CASE ReconcileStale
      BY <3>1 DEF ReconcileStale, Orphans
    <3>2. CASE UploadExited \/ WorkerStopped
      <4>1. worker.job \in Publish
        BY <3>2 DEF UploadExited, WorkerStopped, At, Backing, PublishBase, WorkerHasFile, HasFile
      <4>2. (pub[worker.job].status # "claiming") \in BOOLEAN
        OBVIOUS
      <4> QED BY <3>2, <4>1, <4>2 DEF UploadExited, WorkerStopped
    <3> QED BY <1>2, <3>1, <3>2
  <2> QED BY <1>t, <2>1, ClosedRows
<1>3. CASE SettlePublish
  <2> DEFINE w == worker.job
  <2>1. w \in Publish
    BY <1>3 DEF SettlePublish, At, Backing, PublishBase, WorkerHasFile, HasFile
  <2>2. CASE worker.verdict = "queue"
    <3>1. PubAs(w, "queued") \in [Publish -> PubRow]
      BY <1>t, PubTypes
    <3>2. pub' = [PubAs(w, "queued") EXCEPT ![w].owned = FALSE]
      BY <1>3, <2>2 DEF SettlePublish, Settles
    <3>3. Closed(PubAs(w, "queued")[j])
      BY <3>1, <3>2, ClosedFlag
    <3> QED BY <1>t, <2>1, <3>3, ClosedRows
  <2>3. CASE worker.verdict = "retry"
    <3>1. pub' = PubAs(w, "resumable") \/ pub' = Retried(w) \/ UNCHANGED pub
      BY <1>3, <2>3 DEF SettlePublish
    <3> QED BY <1>1, <1>t, <2>1, <3>1, ClosedRows
  <2>4. CASE worker.verdict \notin {"queue", "retry"}
    <3>1. Gone(w)
      BY <1>3, <2>4 DEF SettlePublish, Backing, WorkerSettled
    <3>2. UNCHANGED pub \/ \E s \in Status : pub' = PubAs(w, s) \/ pub' = Reconciled(w, s)
      BY <1>3, <2>4 DEF SettlePublish, Status, Terminal
    <3> HIDE DEF w
    <3> QED BY <1>1, <1>t, <2>1, <3>1, <3>2, ClosedRows
  <2> QED BY <2>2, <2>3, <2>4
<1>4. CASE ClaimPublish
  BY <1>4, <1>t DEF ClaimPublish, Closed, PubRow, Terminal
<1> QED
  BY <1>1, <1>2, <1>3, <1>4
     DEF WorkerNext, ReadAttempt, ActOnAttempt, SpawnUpload, WorkerStarts, WorkerStops, WorkerDies

\* Hence a row that is closed never has a live attempt.
LEMMA EndedStep ==
  ASSUME Backing, PublishNext
  PROVE  Ended'
<1> SUFFICES ASSUME NEW j \in Publish, Closed(pub'[j]) PROVE Gone(j)'
  BY DEF Ended, Closed
<1>1. Closed(pub[j]) => Gone(j) /\ ~(ActivateAttempt /\ j = api.job)
  BY DEF Backing, Ended, ActivateAttempt, ApiSettled, Closed, Terminal
<1>2. Gone(j) /\ ~(ActivateAttempt /\ j = api.job)
  <2>1. ApiNext \/ ~ActivateAttempt
    BY DEF ApiNext
  <2> QED BY <1>1, <2>1, ClosedByApi, ClosedByRunner, ClosedByWorker DEF PublishNext
<1> QED BY <1>2, GoneStays DEF Backing

\* A row that exists keeps its file in every step.
LEMMA FileOfRowStays ==
  ASSUME PublishBase, PublishNext, NEW j, HasFile(j)
  PROVE  HasFile(j)' /\ pub'[j].file = pub[j].file
<1>1. CASE RequestPublish
  <2>1. HasFile(j)'
    BY <1>1, RequestFiles
  <2>2. UNCHANGED pub
        \/ \E i \in Publish : \E r : pub[i].status = "absent" /\ pub' = [pub EXCEPT ![i] = r]
    BY <1>1 DEF RequestPublish
  <2> QED BY <2>1, <2>2 DEF PublishBase, PublishTypeOK, HasFile
<1>2. CASE ~RequestPublish
  BY <1>2, FilesStay, FilesKept DEF SameFiles, HasFile
<1> QED BY <1>1, <1>2

\* Files and jobs go on naming each other.
LEMMA JobsExistStep ==
  ASSUME Backing, PublishNext
  PROVE  JobsExist'
<1>b. PublishBase /\ JobsExist
  BY DEF Backing
<1>1. CASE ActivateAttempt
  <2>1. ASSUME NEW f \in File, NEW j, file'[f].job = j, j # NoPublish
        PROVE  HasFile(j)' /\ pub'[j].file = f
    <3>1. CASE f = api.file
      <4>1. j = api.job /\ HasFile(j) /\ pub[j].file = f
        BY <1>1, <2>1, <3>1, ActivateTouches
      <4> QED BY <1>b, <4>1, FileOfRowStays
    <3>2. CASE f # api.file
      BY <1>1, <1>b, <2>1, <3>2, ActivateTouches, FileOfRowStays DEF JobsExist
    <3> QED BY <3>1, <3>2
  <2>2. ASSUME NEW p \in Post, latest'[p] \in File
        PROVE  latest'[p][1] = p
    BY <1>1, <1>b, <2>2, ActivateTouches DEF JobsExist
  <2> QED BY <2>1, <2>2 DEF JobsExist, HasFile
<1>2. CASE ~ActivateAttempt
  <2>1. UNCHANGED latest /\ \A f \in File : file'[f].job = file[f].job
    BY <1>2, <1>b, FileChanges
  <2>2. ASSUME NEW f \in File, NEW j, file'[f].job = j, j # NoPublish
        PROVE  HasFile(j)' /\ pub'[j].file = f
    BY <1>b, <2>1, <2>2, FileOfRowStays DEF JobsExist
  <2> QED BY <1>b, <2>1, <2>2 DEF JobsExist, HasFile
<1> QED BY <1>1, <1>2

\* Unpublishing ends the attempt of the post's latest file.
LEMMA UnpublishEnds ==
  ASSUME Backing, PublishNext, ~ActivateAttempt, NEW p \in Post, latest[p] # NoFile,
         post' = PostAs(p, "unpublished"), NEW j, j = file[latest[p]].job
  PROVE  Gone(j)'
<1>1. latest[p] \in File /\ latest[p][1] = p
  BY DEF Backing, PublishBase, PublishTypeOK, JobsExist
<1> SUFFICES ASSUME NEW f \in File, Live(f, j)' PROVE FALSE
  BY DEF Gone
<1>2. Live(f, j)
  BY LiveBegins DEF Backing
<1>3. post'[f[1]].status = "publishing"
  BY DEF Live
<1>4. f[1] \in Post /\ latest[f[1]] = f /\ file[f].job = j /\ post[f[1]].status = "publishing"
  BY <1>2, FileParts DEF Live, Linked
<1>5. f = latest[p]
  BY <1>1, <1>4 DEF Backing, Attempted, JobsExist, NoPublish, Publish
<1> QED BY <1>1, <1>3, <1>5 DEF PostAs, Backing, PublishBase, PublishTypeOK, PostRow

\* A file on its way to deletion stays there while the API waits for the provider.
LEMMA DeletingStays ==
  ASSUME Backing, PublishNext, UNCHANGED api, ApiAt("trash") \/ ApiAt("trashed")
  PROVE  file'[api.file].status = "deleting"
<1>f. /\ api.file \in File /\ file[api.file].status = "deleting" /\ file \in [File -> FileRow]
      /\ RunnerAlive => MyFile \in File
  BY MyFileIsFile DEF Backing, PublishBase, PublishTypeOK, ApiHasFile, ApiAt, ApiSettled
<1>n. ~ActivateAttempt /\ ~DeleteRemoteFile /\ ~RemoteFileDeleted
  BY DEF ActivateAttempt, DeleteRemoteFile, RemoteFileDeleted, ApiAt, ApiIdle
<1>1. FileWritten
  BY <1>n, FileChanges DEF Backing
<1>2. CASE WrittenOff
  <2>1. CASE UNCHANGED file
    BY <1>f, <2>1
  <2>2. CASE \E f \in File : file' = FileAs(f, "failed") /\ file[f].status \in Uploading
    BY <1>f, <2>2 DEF FileAs, Uploading
  <2> QED BY <1>2, <1>n, <2>1, <2>2 DEF WrittenOff
<1>3. CASE /\ RunnerAlive /\ Completable(MyFile, upload.job) /\ file' = FileAs(MyFile, "verified")
  BY <1>f, <1>3 DEF Completable, FileAs
<1>4. CASE RunnerAlive /\ \E row \in FileRow :
             /\ file' = [file EXCEPT ![MyFile] = row]
             /\ row.job = file[MyFile].job
             /\ \/ row.status = file[MyFile].status
                \/ Live(MyFile, upload.job) /\ row.status \in Uploading
  BY <1>4, <1>f DEF Live, Uploading
<1> QED BY <1>1, <1>2, <1>3, <1>4 DEF FileWritten

\* Nobody but the API touches a row that it is about to activate.
LEMMA StagedRowStays ==
  ASSUME Backing, PublishNext, ApiAt("activate"), UNCHANGED api
  PROVE  /\ pub'[api.job] = pub[api.job]
         /\ worker'.pc \notin {"poll", "down"} => worker'.job # api.job
         /\ RunnerAlive' => upload'.job # api.job
<1>t. /\ PublishTypeOK /\ pub \in [Publish -> PubRow] /\ worker \in WorkerState
      /\ upload \in UploadState
  BY DEF Backing, PublishBase, PublishTypeOK
<1>a. /\ api.job \in Publish /\ pub[api.job].status = "staging" /\ pub[api.job].owned
      /\ \A f \in File : file[f].job # api.job
      /\ worker.pc \notin {"poll", "down"} => worker.job # api.job
      /\ RunnerAlive => upload.job # api.job
      /\ pub[api.job].file \in File
  BY DEF Backing, ApiSettled, PublishBase, ApiHasFile, HasFile, PubFiles
<1>n. ~ApiNext
  <2>1. ApiNext => ActivateAttempt
    BY DEF ApiNext, ApiAt, RequestPublish, EnqueuePublishJob, Unpublish, UnpublishFile,
           UnpublishJob, ModeratePost, SoftDeletePost, DeleteRemoteFile, TrashRemoteFile,
           RemoteFileDeleted, ApiDies, ApiIdle
  <2>2. ~ActivateAttempt
    BY DEF ActivateAttempt, ApiGoto, ApiIdle, ApiAt
  <2> QED BY <2>1, <2>2
<1>1. CASE RunnerNext \/ CommunityUnavailable \/ RunnerDies
  <2>1. RunnerAlive /\ (upload'.pc = "exited" \/ upload'.job = upload.job)
    BY <1>1, RunnerSteps DEF Backing
  <2>2. upload.job \in Publish
    BY <2>1 DEF Backing, PublishBase, UploadHasFile, HasFile
  <2>3. pub'[api.job] = pub[api.job]
    <3>1. CASE UNCHANGED pub
      BY <3>1
    <3>2. CASE RunnerStarts
      BY <1>a, <1>t, <2>1, <3>2 DEF RunnerStarts
    <3>3. CASE RunnerInterrupts \/ CommunityUnavailable
      BY <1>a, <1>t, <2>1, <3>3 DEF RunnerInterrupts, CommunityUnavailable, Interrupted
    <3>4. CASE FinishPublish \/ CancelPublish \/ FailPublish
      BY <1>a, <1>t, <2>1, <2>2, <3>4, ClosedRows
         DEF FinishPublish, CancelPublish, FailPublish, Status, Terminal
    <3>5. CASE UnexpectedFailure
      <4>1. UNCHANGED pub \/ \E s \in {"finished", "failed"} : pub' = Reconciled(upload.job, s)
        BY <3>5 DEF UnexpectedFailure
      <4> QED BY <1>a, <1>t, <2>1, <2>2, <4>1, ClosedRows DEF Status, Terminal
    <3> QED
      BY <1>1, <3>1, <3>2, <3>3, <3>4, <3>5
         DEF RunnerNext, RunnerChecks, PreviousRemote, ReuseRemote, DropRemote, MarkUploading,
             OpenSession, LinkSession, UploadChunk, AdvanceUpload, BeginVerification, VerifyRemote,
             CompleteAttempt, DiscardRemote, InvalidateFile, RunnerFails, RunnerDies
  <2>4. UNCHANGED worker
    BY <1>1, Frames
  <2> QED BY <1>a, <2>1, <2>3, <2>4 DEF RunnerAlive
<1>2. CASE WorkerNext \/ WorkerStops \/ WorkerDies
  <2>1. CASE ReconcileStale
    <3>1. PICK j \in Publish : pub[j].status \in InFlight /\ pub' = FlightClosed(j, TRUE, FALSE)
      BY <2>1 DEF ReconcileStale, Orphans
    <3>2. j # api.job
      BY <1>a, <3>1 DEF InFlight
    <3>3. pub'[api.job] = pub[api.job]
      BY <1>a, <1>t, <3>1, <3>2, ClosedRows DEF FlightClosed, Interrupted
    <3> QED BY <1>a, <2>1, <3>3 DEF ReconcileStale, RunnerAlive, NoUpload
  <2>2. CASE ReadAttempt
    <3>1. PICK j \in Publish : /\ worker'.job = j
                               /\ \/ /\ pub[j].status = "staging"
                                     /\ ~(pub[j].owned /\ AttemptState(pub[j].file, j) = "invalid")
                                  \/ j \in Unsettled
      BY <2>2 DEF ReadAttempt
    <3>2. AttemptState(pub[api.job].file, api.job) = "invalid"
      BY <1>a DEF AttemptState, Live, Linked
    <3>3. j # api.job
      BY <1>a, <3>1, <3>2 DEF Unsettled
    <3>4. UNCHANGED upload \/ upload' = NoUpload
      BY <2>2 DEF ReadAttempt
    <3> QED BY <1>a, <2>2, <3>1, <3>3, <3>4 DEF ReadAttempt, RunnerAlive, NoUpload
  <2>3. CASE ActOnAttempt
    BY <1>a, <1>t, <2>3 DEF ActOnAttempt, At, RunnerAlive, WorkerState
  <2>4. CASE SettlePublish
    <3> DEFINE w == worker.job
    <3>1. w \in Publish /\ w # api.job
      BY <1>a, <2>4 DEF SettlePublish, At, Backing, PublishBase, WorkerHasFile, HasFile
    <3>2. \/ \E s \in Status : pub' = PubAs(w, s) \/ pub' = Reconciled(w, s)
          \/ pub' = [PubAs(w, "queued") EXCEPT ![w].owned = FALSE]
          \/ pub' = Retried(w) \/ UNCHANGED pub
      BY <2>4 DEF SettlePublish, Status, Terminal
    <3>3. PubAs(w, "queued") \in [Publish -> PubRow] /\ PubAs(w, "queued")[api.job] = pub[api.job]
      BY <1>a, <1>t, <3>1, PubTypes, ClosedRows DEF Status
    <3> HIDE DEF w
    <3>4. pub'[api.job] = pub[api.job]
      <4>1. CASE \E s \in Status : pub' = PubAs(w, s) \/ pub' = Reconciled(w, s)
        BY <1>a, <1>t, <3>1, <4>1, ClosedRows
      <4>2. CASE pub' = [PubAs(w, "queued") EXCEPT ![w].owned = FALSE]
        BY <1>a, <3>1, <3>3, <4>2
      <4>3. CASE pub' = Retried(w) \/ UNCHANGED pub
        BY <1>a, <1>t, <3>1, <4>3 DEF Retried
      <4> QED BY <3>2, <4>1, <4>2, <4>3
    <3>5. UNCHANGED worker \/ worker' = WorkerAt("poll")
      BY <2>4 DEF SettlePublish, WorkerGoto
    <3> QED BY <1>a, <2>4, <3>4, <3>5 DEF SettlePublish, RunnerAlive, WorkerAt
  <2>5. CASE ClaimPublish
    BY <1>a, <1>t, <2>5 DEF ClaimPublish, WorkerAt, RunnerAlive
  <2>6. CASE SpawnUpload
    BY <1>a, <1>t, <2>6 DEF SpawnUpload, At, NoUpload, RunnerAlive, WorkerState
  <2>7. CASE UploadExited \/ WorkerStopped
    <3>1. worker.job \in Publish /\ worker.job # api.job
      BY <1>a, <2>7 DEF UploadExited, WorkerStopped, At, Backing, PublishBase, WorkerHasFile, HasFile
    <3>2. \E r, e \in BOOLEAN : pub' = FlightClosed(worker.job, r, e)
      <4>1. (pub[worker.job].status # "claiming") \in BOOLEAN
        OBVIOUS
      <4> QED BY <2>7, <4>1 DEF UploadExited, WorkerStopped
    <3>3. pub'[api.job] = pub[api.job]
      BY <1>a, <1>t, <3>1, <3>2, ClosedRows DEF FlightClosed, Interrupted
    <3>4. upload' = NoUpload /\ (worker' = WorkerAt("poll") \/ worker' = WorkerAt("down"))
      BY <2>7 DEF UploadExited, WorkerStopped, WorkerGoto
    <3> QED BY <3>3, <3>4 DEF NoUpload, RunnerAlive, WorkerAt
  <2>8. CASE WorkerStarts \/ WorkerDies
    BY <1>a, <2>8 DEF WorkerStarts, WorkerDies, WorkerGoto, WorkerAt, RunnerAlive
  <2>9. CASE WorkerStops
    BY <1>a, <1>t, <2>9 DEF WorkerStops, At, RunnerAlive, WorkerState, UploadState
  <2> QED
    BY <1>2, <2>1, <2>2, <2>3, <2>4, <2>5, <2>6, <2>7, <2>8, <2>9 DEF WorkerNext
<1> QED BY <1>1, <1>2, <1>n DEF PublishNext

\* Where a step of the API or of the worker leaves it.
LEMMA ApiPcs ==
  ASSUME ApiNext
  PROVE  \/ UNCHANGED api
         \/ api'.pc \in {"idle", "enqueue"}
         \/ RequestPublish /\ api'.pc = "activate"
         \/ Unpublish /\ api'.pc = "invalidate"
         \/ UnpublishFile /\ api'.pc = "flag"
         \/ DeleteRemoteFile /\ api'.pc = "trash"
         \/ TrashRemoteFile /\ api'.pc = "trashed"
<1>1. RequestPublish => UNCHANGED api \/ api'.pc = "activate"
  BY DEF RequestPublish, ApiGoto
<1>2. ActivateAttempt => api'.pc \in {"idle", "enqueue"}
  BY DEF ActivateAttempt, ApiGoto, ApiIdle
<1>3. Unpublish => UNCHANGED api \/ api'.pc = "invalidate"
  BY DEF Unpublish, ApiGoto
<1>4. UnpublishFile => api'.pc \in {"idle", "flag"}
  BY DEF UnpublishFile, ApiGoto, ApiIdle
<1>5. DeleteRemoteFile => api'.pc = "trash"
  BY DEF DeleteRemoteFile, ApiGoto
<1>6. TrashRemoteFile => api'.pc \in {"idle", "trashed"}
  BY DEF TrashRemoteFile, ApiGoto, ApiIdle
<1>7. EnqueuePublishJob \/ UnpublishJob \/ RemoteFileDeleted \/ ApiDies => api'.pc = "idle"
  BY DEF EnqueuePublishJob, UnpublishJob, RemoteFileDeleted, ApiDies, ApiIdle
<1>8. ModeratePost \/ SoftDeletePost => UNCHANGED api
  BY DEF ModeratePost, SoftDeletePost
<1> QED BY <1>1, <1>2, <1>3, <1>4, <1>5, <1>6, <1>7, <1>8 DEF ApiNext

\* The same of the worker.
LEMMA WorkerPcs ==
  ASSUME worker \in WorkerState, WorkerNext \/ WorkerStops \/ WorkerDies
  PROVE  \/ UNCHANGED worker
         \/ worker'.pc \notin {"act", "settle"}
         \/ ReadAttempt /\ worker'.pc = "act"
         \/ ActOnAttempt /\ worker'.pc = "settle"
<1>1. ReconcileStale => UNCHANGED worker
  BY DEF ReconcileStale
<1>2. ReadAttempt => worker'.pc = "act"
  BY DEF ReadAttempt
<1>3. ActOnAttempt => worker'.pc = "settle"
  BY DEF ActOnAttempt, WorkerState
<1>4. SettlePublish => UNCHANGED worker \/ worker' = WorkerAt("poll")
  BY DEF SettlePublish, WorkerGoto
<1>5. ClaimPublish => worker'.pc = "spawn"
  BY DEF ClaimPublish, WorkerAt
<1>6. SpawnUpload => worker'.pc = "watch"
  BY DEF SpawnUpload, WorkerState
<1>7. WorkerStops => worker'.pc = "stopping"
  BY DEF WorkerStops, WorkerState
<1>8. UploadExited => worker' = WorkerAt("poll")
  BY DEF UploadExited, WorkerGoto
<1>9. WorkerStarts => worker' = WorkerAt("poll")
  BY DEF WorkerStarts, WorkerGoto
<1>10. WorkerStopped => worker' = WorkerAt("down")
  BY DEF WorkerStopped, WorkerGoto
<1>11. WorkerDies => worker' = WorkerAt("down")
  BY DEF WorkerDies, WorkerGoto
<1> QED
  BY <1>1, <1>2, <1>3, <1>4, <1>5, <1>6, <1>7, <1>8, <1>9, <1>10, <1>11
     DEF WorkerNext, WorkerAt

\* The API's own bookkeeping is kept by every step,
LEMMA ApiSettledStep ==
  ASSUME Backing, PublishNext
  PROVE  ApiSettled'
<1>b. PublishBase /\ PublishNext
  BY DEF Backing
<1>1. ASSUME ApiAt("invalidate")' \/ ApiAt("flag")'
      PROVE  Gone(api.job)'
  <2>1. PICK j : j = api'.job
    OBVIOUS
  <2>2. Gone(j)'
    <3>1. CASE UNCHANGED api
      <4>1. Gone(j) /\ ~ActivateAttempt
        BY <1>1, <2>1, <3>1 DEF Backing, ApiSettled, ApiAt, ActivateAttempt
      <4> QED BY <1>b, <4>1, GoneStays
    <3>2. CASE Unpublish
      <4>1. ~ActivateAttempt
        BY <3>2 DEF Unpublish, ActivateAttempt, ApiAt
      <4>2. PICK p \in Post : /\ post' = PostAs(p, "unpublished")
                              /\ IF latest[p] = NoFile THEN UNCHANGED api
                                 ELSE ApiGoto("invalidate", latest[p], file[latest[p]].job)
        BY <3>2 DEF Unpublish
      <4>3. CASE latest[p] = NoFile
        BY <3>1, <4>2, <4>3
      <4>4. CASE latest[p] # NoFile
        <5>1. j = file[latest[p]].job
          BY <2>1, <4>2, <4>4 DEF ApiGoto
        <5> QED BY <1>b, <4>1, <4>2, <4>4, <5>1, UnpublishEnds
      <4> QED BY <4>3, <4>4
    <3>3. CASE UnpublishFile
      <4>1. api'.job = api.job
        BY <1>1, <3>3 DEF UnpublishFile, ApiGoto, ApiIdle, ApiAt
      <4>2. Gone(j) /\ ~ActivateAttempt
        BY <2>1, <3>3, <4>1 DEF UnpublishFile, Backing, ApiSettled, ApiAt, ActivateAttempt
      <4> QED BY <1>b, <4>2, GoneStays
    <3>4. ApiNext => UNCHANGED api \/ Unpublish \/ UnpublishFile
      BY <1>1, ApiPcs DEF ApiAt
    <3> QED BY <1>b, <3>1, <3>2, <3>3, <3>4, Frames DEF PublishNext
  <2> QED BY <2>1, <2>2 DEF Gone, Live, Linked
<1>2. ASSUME ApiAt("trash")' \/ ApiAt("trashed")'
      PROVE  file'[api'.file].status = "deleting"
  <2>1. CASE UNCHANGED api
    BY <1>2, <1>b, <2>1, DeletingStays DEF ApiAt
  <2>2. CASE DeleteRemoteFile
    <3>1. PICK p \in Post : /\ latest[p] # NoFile /\ file' = FileAs(latest[p], "deleting")
                            /\ ApiGoto("trash", latest[p], NoPublish)
      BY <2>2 DEF DeleteRemoteFile
    <3>2. latest[p] \in File /\ file \in [File -> FileRow]
      BY <3>1 DEF Backing, PublishBase, PublishTypeOK
    <3> QED BY <3>1, <3>2 DEF FileAs, FileRow, ApiGoto
  <2>3. CASE TrashRemoteFile
    BY <1>2, <2>3 DEF TrashRemoteFile, ApiGoto, ApiIdle, ApiAt, Backing, ApiSettled
  <2>4. ApiNext => UNCHANGED api \/ DeleteRemoteFile \/ TrashRemoteFile
    BY <1>2, ApiPcs DEF ApiAt
  <2> QED BY <1>b, <2>1, <2>2, <2>3, <2>4, Frames DEF PublishNext
<1>3. ASSUME ApiAt("activate")'
      PROVE  /\ pub'[api'.job].status = "staging" /\ pub'[api'.job].owned
             /\ ~pub'[api'.job].cancel
             /\ \A f \in File : file'[f].job # api'.job
             /\ worker'.pc \notin {"poll", "down"} => worker'.job # api'.job
             /\ RunnerAlive' => upload'.job # api'.job
  <2>1. CASE RequestPublish /\ ~UNCHANGED api
    <3>1. PICK f \in File, j \in Publish :
            /\ pub[j].status = "absent"
            /\ pub' = [pub EXCEPT ![j] = [EmptyPub EXCEPT !.status = "staging",
                                                          !.file = f, !.owned = TRUE]]
            /\ ApiGoto("activate", f, j)
      BY <2>1 DEF RequestPublish
    <3>2. api'.job = j /\ UNCHANGED <<file, worker, upload>>
      BY <2>1, <3>1 DEF ApiGoto, RequestPublish
    <3>3. pub'[j].status = "staging" /\ pub'[j].owned /\ ~pub'[j].cancel
      BY <3>1 DEF Backing, PublishBase, PublishTypeOK, EmptyPub
    <3>4. j # NoPublish
      BY DEF Publish, NoPublish
    <3>5. \A f1 \in File : file[f1].job # j
      BY <3>1, <3>4 DEF Backing, JobsExist, HasFile
    <3>6. worker.pc \notin {"poll", "down"} => worker.job # j
      BY <3>1 DEF Backing, PublishBase, PublishTypeOK, WorkerHasFile, HasFile, WorkerState, WorkerPc
    <3>7. RunnerAlive => upload.job # j
      BY <3>1 DEF Backing, PublishBase, UploadHasFile, HasFile
    <3> QED BY <3>2, <3>3, <3>5, <3>6, <3>7 DEF RunnerAlive
  <2>2. CASE UNCHANGED api
    <3>1. ApiAt("activate") /\ ~ActivateAttempt
      BY <1>3, <2>2 DEF ApiAt, ActivateAttempt, ApiGoto, ApiIdle
    <3>2. \A f \in File : file'[f].job = file[f].job
      BY <1>b, <3>1, FileChanges
    <3> QED BY <1>b, <2>2, <3>1, <3>2, StagedRowStays DEF Backing, ApiSettled
  <2> QED BY <1>3, <1>b, <2>1, <2>2, ActivationBegins, Frames DEF PublishNext
<1> QED BY <1>1, <1>2, <1>3 DEF ApiSettled

\* and the worker's,
LEMMA WorkerSettledStep ==
  ASSUME Backing, PublishNext
  PROVE  WorkerSettled'
<1>b. PublishBase
  BY DEF Backing
<1>n. ASSUME worker.pc \in {"act", "settle"}
      PROVE  ~(ActivateAttempt /\ worker.job = api.job)
  BY <1>n DEF Backing, ApiSettled, ActivateAttempt
<1>1. PICK j : j = worker'.job
  OBVIOUS
<1>2. ASSUME At("act")', worker'.verdict \notin {"retry", "queue", "drop_live", "refuse_live"}
      PROVE  Gone(j)'
  <2>1. CASE UNCHANGED worker
    <3>1. Gone(j) /\ ~(ActivateAttempt /\ j = api.job)
      BY <1>1, <1>2, <1>n, <2>1 DEF Backing, WorkerSettled, At
    <3> QED BY <1>b, <3>1, GoneStays
  <2>2. CASE ReadAttempt
    <3>1. j \in Publish /\ worker'.verdict \in {StagedVerdict(j), InterruptedVerdict(j)}
      BY <1>1, <2>2 DEF ReadAttempt, Unsettled
    <3>2. ~Live(pub[j].file, j)
      <4>1. Live(pub[j].file, j) => AttemptState(pub[j].file, j) = "active"
        BY DEF AttemptState, Live, Uploading
      <4>2. AttemptState(pub[j].file, j) = "active" =>
              /\ StagedVerdict(j) = "queue"
              /\ InterruptedVerdict(j) \in {"retry", "drop_live", "refuse_live"}
        BY DEF StagedVerdict, InterruptedVerdict
      <4> QED BY <1>2, <3>1, <4>1, <4>2
    <3>3. Gone(j) /\ ~ActivateAttempt
      BY <2>2, <3>2, GoneByFile DEF Backing, ReadAttempt, ActivateAttempt, ApiGoto, ApiIdle, ApiAt
    <3> QED BY <1>b, <3>3, GoneStays
  <2>3. WorkerNext \/ WorkerStops \/ WorkerDies => ReadAttempt \/ UNCHANGED worker
    BY <1>2, WorkerPcs DEF At, Backing, PublishBase, PublishTypeOK
  <2> QED BY <2>1, <2>2, <2>3, Frames DEF PublishNext
<1>3. ASSUME At("settle")', worker'.verdict \notin {"retry", "queue"}
      PROVE  Gone(j)'
  <2>1. CASE UNCHANGED worker
    <3>1. Gone(j) /\ ~(ActivateAttempt /\ j = api.job)
      BY <1>1, <1>3, <1>n, <2>1 DEF Backing, WorkerSettled, At
    <3> QED BY <1>b, <3>1, GoneStays
  <2>2. CASE ActOnAttempt
    <3>1. worker.pc = "act" /\ worker'.job = worker.job /\ worker'.verdict = worker.verdict
      BY <2>2 DEF ActOnAttempt, At, Backing, PublishBase, PublishTypeOK, WorkerState
    <3>2. ~(ActivateAttempt /\ j = api.job)
      BY <1>1, <1>n, <3>1
    <3>3. CASE Gone(j)
      BY <1>b, <3>2, <3>3, GoneStays
    <3>4. CASE ~Gone(j)
      <4>1. worker.verdict \in {"drop_live", "refuse_live"}
        BY <1>1, <1>3, <3>1, <3>4 DEF Backing, WorkerSettled, At
      <4>2. FailAttempt(pub[j].file, j)
        BY <1>1, <2>2, <3>1, <4>1 DEF ActOnAttempt
      <4> SUFFICES ASSUME NEW f \in File, Live(f, j)' PROVE FALSE
        BY DEF Gone
      <4>3. Live(f, j)
        BY <1>b, <3>2, LiveBegins
      <4>4. f = pub[j].file
        BY <4>3, FileParts DEF Backing, Attempted, Live, Linked
      <4>5. post'[f[1]].status = "failed"
        BY <4>2, <4>3, <4>4, FileParts DEF FailAttempt, PostAs, Backing, PublishBase, PublishTypeOK,
                                         PostRow
      <4> QED BY <4>5 DEF Live
    <3> QED BY <3>3, <3>4
  <2>3. WorkerNext \/ WorkerStops \/ WorkerDies => ActOnAttempt \/ UNCHANGED worker
    BY <1>3, WorkerPcs DEF At, Backing, PublishBase, PublishTypeOK
  <2> QED BY <2>1, <2>2, <2>3, Frames DEF PublishNext
<1> QED BY <1>1, <1>2, <1>3 DEF WorkerSettled, Gone, Live, Linked, At

\* The points from which a runner only closes its row.
GivesUp == {"finish", "cancel", "failed", "discard", "revoked", "abort"}

\* While its attempt is live and wanted, a runner comes there only by completing
\* or by failing it.
LEMMA RunnerPcs ==
  ASSUME upload \in UploadState, Live(MyFile, upload.job), ~pub[upload.job].cancel,
         upload.pc \notin GivesUp, RunnerNext \/ CommunityUnavailable \/ RunnerDies
  PROVE  \/ upload'.pc \notin GivesUp
         \/ CompleteAttempt /\ upload'.pc # "cancel"
         \/ RunnerFails
<1>x. RunnerExits => upload'.pc = "exited"
  BY DEF RunnerExits, NoUpload
<1>1. CASE RunnerStarts
  BY <1>1, <1>x DEF RunnerStarts, RunnerGoto, UploadState, GivesUp
<1>2. CASE RunnerChecks
  BY <1>2 DEF RunnerChecks, Checked, RunnerGoto, UploadState, GivesUp
<1>3. CASE PreviousRemote
  <2>1. upload'.pc = "reuse" \/ RunnerGoto("mark") \/ RunnerGoto("drop")
    BY <1>3 DEF PreviousRemote, UploadState
  <2> QED BY <2>1 DEF RunnerGoto, UploadState, GivesUp
<1>4. CASE ReuseRemote \/ MarkUploading \/ BeginVerification
  BY <1>4 DEF ReuseRemote, MarkUploading, BeginVerification, UpdateFile, RunnerGoto,
              UploadState, GivesUp
<1>5. CASE DropRemote \/ UploadChunk \/ VerifyRemote
  BY <1>5 DEF DropRemote, UploadChunk, VerifyRemote, RunnerGoto, UploadState, GivesUp
<1>6. CASE OpenSession
  <2>1. upload'.pc = "link" \/ RunnerGoto("error")
    BY <1>6 DEF OpenSession, UploadState
  <2> QED BY <2>1 DEF RunnerGoto, UploadState, GivesUp
<1>7. CASE LinkSession \/ AdvanceUpload
  BY <1>7 DEF LinkSession, AdvanceUpload, RunnerGoto, UploadState, GivesUp
<1>8. CASE CompleteAttempt
  BY <1>8 DEF CompleteAttempt, RunnerGoto, UploadState
<1>9. CASE UnexpectedFailure
  <2>1. RunnerGoto("fail") \/ RunnerExits
    BY <1>9 DEF UnexpectedFailure
  <2> QED BY <1>x, <2>1 DEF RunnerGoto, UploadState, GivesUp
<1>10. CASE RunnerInterrupts \/ CommunityUnavailable \/ RunnerDies
  BY <1>10, <1>x DEF RunnerInterrupts, CommunityUnavailable, RunnerDies, GivesUp
<1>11. ~FinishPublish /\ ~CancelPublish /\ ~FailPublish /\ ~DiscardRemote /\ ~InvalidateFile
  BY DEF FinishPublish, CancelPublish, FailPublish, DiscardRemote, InvalidateFile, RunnerAt, GivesUp
<1> QED
  BY <1>1, <1>2, <1>3, <1>4, <1>5, <1>6, <1>7, <1>8, <1>9, <1>10, <1>11 DEF RunnerNext

\* Moving its post on ends the attempt of a job.
LEMMA PostEndsAttempt ==
  ASSUME Backing, PublishNext, ~ActivateAttempt, NEW j, pub[j].file \in File,
         NEW s \in PostStatus, s # "publishing", post' = PostAs(pub[j].file[1], s)
  PROVE  Gone(j)'
<1> SUFFICES ASSUME NEW f \in File, Live(f, j)' PROVE FALSE
  BY DEF Gone
<1>1. Live(f, j)
  BY LiveBegins DEF Backing
<1>2. f = pub[j].file
  BY <1>1, FileParts DEF Backing, Attempted, Live, Linked
<1>3. post'[f[1]].status = s
  BY <1>2, FileParts DEF PostAs, Backing, PublishBase, PublishTypeOK, PostRow
<1> QED BY <1>3 DEF Live

\* A runner that comes to where it only closes its row leaves no live attempt.
LEMMA RunnerGivesUp ==
  ASSUME Backing, RunnerNext \/ CommunityUnavailable \/ RunnerDies, upload'.pc \in GivesUp,
         NEW j, j = upload.job
  PROVE  Gone(j)'
<1>b. PublishBase /\ PublishNext /\ RunnerAlive /\ j \in Publish /\ upload \in UploadState
  BY RunnerSteps DEF Backing, PublishNext, PublishBase, PublishTypeOK, UploadHasFile, HasFile
<1>n. ~ActivateAttempt
  <2>1. UNCHANGED api
    BY Frames
  <2> QED BY <2>1 DEF ActivateAttempt, ApiAt, ApiGoto, ApiIdle
<1>f. MyFile = pub[j].file /\ pub[j].file \in File
  BY <1>b, MyFileIsFile DEF MyFile
<1>1. CASE Gone(j)
  BY <1>1, <1>b, <1>n, GoneStays
<1>2. CASE ~Gone(j)
  <2>1. Live(MyFile, j) /\ ~pub[j].cancel /\ upload.pc \notin GivesUp
    BY <1>2, <1>b, <1>f, GoneByFile DEF Backing, Ended, Closed, UploadSettled, GivesUp
  <2>2. CASE RunnerFails
    <3>1. post' = PostAs(pub[j].file[1], "failed")
      BY <1>f, <2>1, <2>2 DEF RunnerFails, FailAttempt
    <3> QED BY <1>b, <1>f, <1>n, <3>1, PostEndsAttempt DEF PostStatus
  <2>3. CASE CompleteAttempt /\ upload'.pc # "cancel"
    <3>1. upload.pc = "complete" /\ Completable(MyFile, upload.job)
      BY <2>1, <2>3 DEF CompleteAttempt, RunnerAt, Backing, UploadSettled, Completable, Live
    <3>2. RunnerGoto("error") \/ post' = PostAs(pub[j].file[1], "published")
      BY <1>f, <2>3, <3>1 DEF CompleteAttempt
    <3>3. ~RunnerGoto("error")
      BY <1>b DEF RunnerGoto, UploadState, GivesUp
    <3> QED BY <1>b, <1>f, <1>n, <3>2, <3>3, PostEndsAttempt DEF PostStatus
  <2> QED BY <1>b, <2>1, <2>2, <2>3, RunnerPcs
<1> QED BY <1>1, <1>2

\* A runner comes to the verification of what it has sent only by marking its file.
LEMMA RunnerVerifies ==
  ASSUME PublishBase, RunnerNext \/ CommunityUnavailable \/ RunnerDies,
         upload'.pc \in {"stat", "complete"}
  PROVE  /\ UNCHANGED pub
         /\ \/ file'[MyFile].status = "verifying"
            \/ upload.pc = "stat" /\ UNCHANGED file
<1>b. MyFile \in File /\ upload \in UploadState /\ file \in [File -> FileRow]
  BY RunnerSteps, MyFileIsFile DEF PublishBase, PublishTypeOK
<1>x. ~RunnerExits
  BY DEF RunnerExits, NoUpload
<1>1. CASE ReuseRemote \/ BeginVerification
  <2> DEFINE row == [file[MyFile] EXCEPT !.status = "verifying", !.ref = upload.ref]
  <2>1. UNCHANGED pub
    BY <1>1 DEF ReuseRemote, BeginVerification
  <2>2. file' = [file EXCEPT ![MyFile] = row]
    <3>1. ~RunnerGoto("cancel") /\ ~RunnerGoto("discard")
      BY <1>b DEF RunnerGoto, UploadState
    <3> QED BY <1>1, <3>1 DEF ReuseRemote, BeginVerification, UpdateFile
  <2>3. row.status = "verifying"
    BY <1>b DEF FileRow
  <2> HIDE DEF row
  <2> QED BY <1>b, <2>1, <2>2, <2>3
<1>2. CASE VerifyRemote
  BY <1>2 DEF VerifyRemote, RunnerAt
<1>3. ~RunnerStarts /\ ~LinkSession /\ ~AdvanceUpload
  BY <1>b, <1>x DEF RunnerStarts, LinkSession, AdvanceUpload, RunnerGoto,
              UploadState
<1>4. ~RunnerChecks
  BY <1>b DEF RunnerChecks, Checked, RunnerGoto, UploadState
<1>5. ~PreviousRemote /\ ~OpenSession
  <2>1. PreviousRemote => upload'.pc = "reuse" \/ RunnerGoto("mark") \/ RunnerGoto("drop")
    BY <1>b DEF PreviousRemote, UploadState
  <2>2. OpenSession => upload'.pc = "link" \/ RunnerGoto("error")
    BY <1>b DEF OpenSession, UploadState
  <2> QED BY <1>b, <2>1, <2>2 DEF RunnerGoto, UploadState
<1>6. ~DropRemote /\ ~UploadChunk /\ ~DiscardRemote /\ ~InvalidateFile
  BY <1>b DEF DropRemote, UploadChunk, DiscardRemote, InvalidateFile, RunnerGoto,
              UploadState
<1>7. ~MarkUploading
  BY <1>b DEF MarkUploading, UpdateFile, RunnerGoto, UploadState
<1>8. ~CompleteAttempt
  BY <1>b DEF CompleteAttempt, RunnerGoto, UploadState
<1>9. ~RunnerFails
  BY <1>b DEF RunnerFails, RunnerGoto, UploadState
<1>10. ~UnexpectedFailure
  <2>1. UnexpectedFailure => RunnerGoto("fail") \/ RunnerExits
    BY DEF UnexpectedFailure
  <2> QED BY <1>b, <1>x, <2>1 DEF RunnerGoto, UploadState
<1>11. ~RunnerInterrupts /\ ~CommunityUnavailable /\ ~RunnerDies /\ ~FinishPublish
       /\ ~CancelPublish /\ ~FailPublish
  BY <1>x DEF RunnerInterrupts, CommunityUnavailable, RunnerDies, FinishPublish, CancelPublish,
              FailPublish
<1> QED
  BY <1>1, <1>2, <1>3, <1>4, <1>5, <1>6, <1>7, <1>8, <1>9, <1>10, <1>11 DEF RunnerNext

\* Another process leaves a runner where it is, or leaves none.
LEMMA RunnerLeftAlone ==
  ASSUME upload \in UploadState, ApiNext \/ WorkerNext \/ WorkerStops \/ WorkerDies
  PROVE  \/ upload'.pc = upload.pc /\ upload'.job = upload.job
         \/ upload'.pc \in {"off", "start"}
<1>1. CASE UNCHANGED upload
  BY <1>1
<1>2. CASE ReconcileStale \/ UploadExited \/ WorkerStopped \/ ReadAttempt
  <2>1. UNCHANGED upload \/ upload' = NoUpload
    BY <1>2 DEF ReconcileStale, UploadExited, WorkerStopped, ReadAttempt
  <2> QED BY <2>1 DEF NoUpload
<1>3. CASE SpawnUpload
  BY <1>3 DEF SpawnUpload, NoUpload
<1>4. CASE WorkerStops
  BY <1>4 DEF WorkerStops, UploadState
<1> QED
  BY <1>1, <1>2, <1>3, <1>4, Frames
     DEF WorkerNext, ActOnAttempt, SettlePublish, ClaimPublish, WorkerStarts, WorkerDies

\* The file of a live attempt that is being verified is touched by its runner only.
LEMMA VerifyingStays ==
  ASSUME Backing, ApiNext \/ WorkerNext \/ WorkerStops \/ WorkerDies,
         NEW f \in File, NEW j, Live(f, j)', file[f].status = "verifying",
         ~(ActivateAttempt /\ j = api.job)
  PROVE  file'[f].status = "verifying"
<1>b. PublishBase /\ PublishNext /\ file \in [File -> FileRow]
  BY DEF Backing, PublishNext, PublishBase, PublishTypeOK
<1>1. CASE ActivateAttempt
  <2>1. f # api.file
    BY <1>1, ActivateTouches DEF Live, Linked
  <2> QED BY <1>1, <2>1, ActivateTouches
<1>2. CASE ~ActivateAttempt
  <2>1. WrittenOff
    BY <1>2, <1>b, ApiWrites, WorkerWrites
  <2>2. file'[f].status \in Uploading
    BY DEF Live
  <2>3. CASE UNCHANGED file
    BY <2>3
  <2>4. CASE \E g \in File, s \in {"failed", "deleting", "deleted"} : file' = FileAs(g, s)
    BY <1>b, <2>2, <2>4 DEF FileAs, Uploading
  <2> QED BY <2>1, <2>3, <2>4 DEF WrittenOff
<1> QED BY <1>1, <1>2

\* and the runner's.
LEMMA UploadSettledStep ==
  ASSUME Backing, PublishNext
  PROVE  UploadSettled'
<1>b. PublishBase /\ upload \in UploadState
  BY DEF Backing, PublishBase, PublishTypeOK
<1> PICK j : j = upload'.job
  OBVIOUS
<1>1. ASSUME upload'.pc \in GivesUp
      PROVE  Gone(j)'
  <2>1. CASE RunnerNext \/ CommunityUnavailable \/ RunnerDies
    <3>1. j = upload.job
      BY <1>1, <1>b, <2>1, RunnerSteps DEF GivesUp
    <3> QED BY <1>1, <2>1, <3>1, RunnerGivesUp
  <2>2. CASE ApiNext \/ WorkerNext \/ WorkerStops \/ WorkerDies
    <3>1. upload.pc \in GivesUp /\ j = upload.job
      BY <1>1, <1>b, <2>2, RunnerLeftAlone DEF GivesUp
    <3>2. Gone(j) /\ ~(ActivateAttempt /\ j = api.job)
      BY <3>1 DEF Backing, UploadSettled, ApiSettled, ActivateAttempt, RunnerAlive, GivesUp
    <3> QED BY <1>b, <3>2, GoneStays
  <2> QED BY <2>1, <2>2 DEF PublishNext
<1> PICK f : f = pub'[j].file
  OBVIOUS
<1>2. ASSUME upload'.pc \in {"stat", "complete"}, Live(f, j)'
      PROVE  file'[f].status = "verifying"
  <2>1. CASE RunnerNext \/ CommunityUnavailable \/ RunnerDies
    <3>1. j = upload.job /\ RunnerAlive
      BY <1>2, <1>b, <2>1, RunnerSteps
    <3>2. UNCHANGED pub /\ (file'[MyFile].status = "verifying" \/ (upload.pc = "stat" /\ UNCHANGED file))
      BY <1>2, <1>b, <2>1, RunnerVerifies
    <3>3. MyFile = f /\ f \in File
      <4>1. MyFile = f
        BY <3>1, <3>2 DEF MyFile
      <4> QED BY <1>b, <3>1, <4>1, MyFileIsFile
    <3>4. CASE upload.pc = "stat" /\ UNCHANGED file
      <4>1. ~ActivateAttempt
        <5>1. UNCHANGED api
          BY <2>1, Frames
        <5> QED BY <5>1 DEF ActivateAttempt, ApiAt, ApiGoto, ApiIdle
      <4>2. Live(f, j)
        BY <1>2, <1>b, <3>3, <4>1, LiveBegins
      <4> QED BY <3>1, <3>3, <3>4, <4>2 DEF Backing, UploadSettled
    <3> QED BY <3>2, <3>3, <3>4
  <2>2. CASE ApiNext \/ WorkerNext \/ WorkerStops \/ WorkerDies
    <3>1. upload.pc \in {"stat", "complete"} /\ j = upload.job
      BY <1>2, <1>b, <2>2, RunnerLeftAlone
    <3>2. HasFile(j) /\ ~(ActivateAttempt /\ j = api.job)
      BY <3>1 DEF Backing, PublishBase, UploadHasFile, ApiSettled, ActivateAttempt, RunnerAlive
    <3>3. f = pub[j].file /\ f \in File
      BY <1>b, <3>2, FileOfRowStays DEF PublishBase, PubFiles, HasFile
    <3>4. Live(f, j)
      BY <1>2, <1>b, <3>2, <3>3, LiveBegins
    <3>5. file[f].status = "verifying"
      BY <3>1, <3>3, <3>4 DEF Backing, UploadSettled, MyFile
    <3> QED BY <1>2, <2>2, <3>2, <3>3, <3>5, VerifyingStays
  <2> QED BY <2>1, <2>2 DEF PublishNext
<1> QED BY <1>1, <1>2 DEF UploadSettled, GivesUp, Gone, MyFile, Live, Linked

\* All of it is inductive,
LEMMA BackingStep ==
  ASSUME Backing, [PublishNext]_publishVars
  PROVE  Backing'
<1>1. CASE PublishNext
  <2>1. PublishBase'
    BY <1>1, BaseStep DEF Backing
  <2> QED
    BY <1>1, <2>1, AttemptedStep, EndedStep, JobsExistStep, ApiSettledStep, UploadSettledStep,
       WorkerSettledStep DEF Backing
<1>2. CASE UNCHANGED publishVars
  <2>1. PublishBase'
    BY BaseStep DEF Backing
  <2>2. Attempted' /\ Ended' /\ JobsExist'
    BY <1>2 DEF publishVars, Backing, Attempted, Ended, JobsExist, Gone, Live, Linked, HasFile, Closed
  <2>3. ApiSettled'
    BY <1>2 DEF publishVars, Backing, ApiSettled, ApiAt, Gone, Live, Linked, RunnerAlive
  <2>4. UploadSettled'
    BY <1>2 DEF publishVars, Backing, UploadSettled, MyFile, Gone, Live, Linked
  <2>5. WorkerSettled'
    BY <1>2 DEF publishVars, Backing, WorkerSettled, At, Gone, Live, Linked
  <2> QED BY <2>1, <2>2, <2>3, <2>4, <2>5 DEF Backing
<1> QED BY <1>1, <1>2

\* holds at first
LEMMA BackingInit == PublishInit => Backing
<1> SUFFICES ASSUME PublishInit PROVE Backing
  OBVIOUS
<1>1. PublishBase
  BY BaseInit
<1>2. \A p \in Post : post[p].status = "draft" /\ latest[p] = NoFile
  BY DEF PublishInit
<1>3. \A f \in File : file[f].job = NoPublish
  BY DEF PublishInit, EmptyFile
<1>4. api.pc = "idle" /\ worker.pc = "poll" /\ upload.pc = "off"
  BY DEF PublishInit, ApiIdle, WorkerAt, NoUpload
<1>5. \A j : Gone(j)
  BY <1>2, FileParts DEF Gone, Live
<1>6. NoFile \notin File
  BY PublishAssumption DEF File
<1> QED
  BY <1>1, <1>2, <1>3, <1>4, <1>5, <1>6
     DEF Backing, Attempted, Ended, JobsExist, ApiSettled, UploadSettled, WorkerSettled, ApiAt, At

\* and so always.
LEMMA BackingAlways == PublishSpec => []Backing
  BY BackingInit, BackingStep, PTL DEF PublishSpec

\* A post that waits for its upload is waited for: the job linked to its latest
\* file is not over, whichever of the API, the worker and the runner died, was
\* refused or gave up in between, so some process will still end the attempt.
THEOREM PublishingBacked == PublishSpec => []PublishingIsBacked
<1>1. Backing => PublishingIsBacked
  <2> SUFFICES ASSUME Backing, NEW p \in Post, post[p].status = "publishing"
               PROVE  /\ latest[p] # NoFile /\ file[latest[p]].status \in Uploading
                      /\ pub[file[latest[p]].job].status \notin Terminal \union {"absent"}
    BY DEF PublishingIsBacked
  <2> DEFINE f == latest[p]
             j == file[f].job
  <2>1. f \in File /\ f[1] = p /\ file[f].status \in Uploading /\ j \in Publish
    BY DEF Backing, Attempted
  <2>2. Live(f, j)
    BY <2>1 DEF Live, Linked
  <2>3. ~Closed(pub[j])
    BY <2>1, <2>2 DEF Backing, Ended, Gone
  <2>4. f # NoFile
    BY <2>1, PublishAssumption DEF File
  <2> QED BY <2>1, <2>3, <2>4 DEF Closed
<1> QED BY <1>1, BackingAlways, PTL

(***************************************************************************)
(* What the feed offers can be read.                                       *)
(***************************************************************************)

\* Where a runner is at work on a file that is not verified yet, and where it holds a
\* remote file.
Delivering == {"snapshot", "previous", "reuse", "drop", "mark", "folder", "open", "link",
               "chunk", "upload", "uploaded", "sent", "verify", "stat", "complete",
               "discard", "revoked"}
Storing == {"reuse", "link", "chunk", "upload", "uploaded", "sent", "verify", "stat",
            "complete", "discard", "revoked"}
Unfinished == Uploading \union {"failed"}

\* A verified file is whole, and no two files name one remote file.
FileStored(f) ==
  /\ file[f].status = "verified" => file[f].ref \in Remote /\ remote[file[f].ref] = "complete"
  /\ file[f].ref # NoRemote => remote[file[f].ref] # "unused"

FilesStored ==
  /\ \A f \in File : FileStored(f)
  /\ \A f, g \in File : file[f].ref # NoRemote /\ file[f].ref = file[g].ref => f = g

\* The remote file of a runner is named by its own file only; what it is about to complete
\* is whole.
UploadStored ==
  /\ RunnerAlive /\ upload.ref # NoRemote =>
       /\ remote[upload.ref] # "unused"
       /\ \A f \in File : file[f].ref = upload.ref => f = MyFile
  /\ upload.pc \in Delivering => file[MyFile].status \in Unfinished
  /\ upload.pc \in Storing => upload.ref # NoRemote
  /\ upload.pc \in {"stat", "complete"} => file[MyFile].ref = upload.ref
  /\ upload.pc \in {"reuse", "complete"} => remote[upload.ref] = "complete"

Stored == FilesStored /\ UploadStored

\* The step keeps f's name of its remote file, and does not verify it, nor take it back
\* from a runner.
KeepsFile(f) ==
  /\ file'[f].ref = file[f].ref
  /\ file'[f].status = "verified" => file[f].status = "verified"
  /\ file[f].status \in Unfinished => file'[f].status \in Unfinished

\* Nothing is stored at first.
LEMMA StoredInit == PublishInit => Stored
BY DEF PublishInit, Stored, FilesStored, FileStored, UploadStored, EmptyFile, NoUpload, RunnerAlive,
       Delivering, Storing

\* Files stay stored as long as no remote file is touched and none is verified.
LEMMA KeptFilesStored ==
  ASSUME Stored, UNCHANGED remote, \A f \in File : KeepsFile(f)
  PROVE  FilesStored'
<1>1. ASSUME NEW f \in File PROVE FileStored(f)'
  <2>1. FileStored(f) /\ remote' = remote
    BY DEF Stored, FilesStored
  <2>2. /\ file'[f].ref = file[f].ref
        /\ file'[f].status = "verified" => file[f].status = "verified"
    BY DEF KeepsFile
  <2> QED BY <2>1, <2>2 DEF FileStored
<1>2. ASSUME NEW f \in File, NEW g \in File, file'[f].ref # NoRemote, file'[f].ref = file'[g].ref
      PROVE  f = g
  <2>1. file'[f].ref = file[f].ref /\ file'[g].ref = file[g].ref
    BY DEF KeepsFile
  <2> QED BY <1>2, <2>1 DEF Stored, FilesStored
<1> QED BY <1>1, <1>2 DEF FilesStored

\* A step that touches no remote file and verifies no file leaves everything stored, if
\* it leaves the runner its remote file and its place.
LEMMA StoredStays ==
  ASSUME Stored, UNCHANGED remote, \A f \in File : KeepsFile(f),
         RunnerAlive => MyFile \in File,
         \/ upload'.ref = NoRemote /\ upload'.pc \notin Delivering \union Storing
         \/ /\ RunnerAlive /\ upload'.ref = upload.ref /\ MyFile' = MyFile
            /\ \/ upload'.pc = upload.pc
               \/ upload'.pc \notin Delivering \union Storing
               \/ /\ upload'.pc \in Delivering \ {"stat", "complete", "reuse"}
                  /\ upload.pc \in Delivering \/ file[MyFile].status \in Unfinished
                  /\ upload'.pc \in Storing => upload.pc \in Storing
  PROVE  Stored'
<1>1. FilesStored'
  BY KeptFilesStored
<1>2. CASE upload'.ref = NoRemote /\ upload'.pc \notin Delivering \union Storing
  BY <1>1, <1>2 DEF Stored, UploadStored, Delivering, Storing
<1>3. CASE RunnerAlive /\ upload'.ref = upload.ref /\ MyFile' = MyFile
  <2>1. /\ upload.ref # NoRemote =>
             /\ remote'[upload'.ref] # "unused"
             /\ \A f \in File : file'[f].ref = upload'.ref => f = MyFile'
        /\ file[MyFile].status \in Unfinished => file'[MyFile'].status \in Unfinished
        /\ file[MyFile].ref = upload.ref => file'[MyFile'].ref = upload'.ref
    BY <1>3 DEF Stored, UploadStored, KeepsFile
  <2>2. CASE upload'.pc = upload.pc
    BY <1>1, <1>3, <2>1, <2>2 DEF Stored, UploadStored
  <2>3. CASE upload'.pc \notin Delivering \union Storing
    BY <1>1, <1>3, <2>1, <2>3 DEF Stored, UploadStored, Delivering, Storing
  <2>4. CASE /\ upload'.pc \in Delivering \ {"stat", "complete", "reuse"}
             /\ upload.pc \in Delivering \/ file[MyFile].status \in Unfinished
             /\ upload'.pc \in Storing => upload.pc \in Storing
    BY <1>1, <1>3, <2>1, <2>4 DEF Stored, UploadStored, Delivering, Storing
  <2> QED BY <1>2, <1>3, <2>2, <2>3, <2>4 DEF RunnerAlive, Delivering, Storing
<1> QED BY <1>2, <1>3

\* Writing files off keeps them.
LEMMA WrittenOffKeeps ==
  ASSUME Backing, PublishNext, WrittenOff, NEW f \in File
  PROVE  KeepsFile(f)
<1>1. file \in [File -> FileRow]
  BY DEF Backing, PublishBase, PublishTypeOK
<1>2. CASE UNCHANGED file
  BY <1>2 DEF KeepsFile
<1>3. ASSUME NEW g \in File, NEW s \in {"failed", "deleting", "deleted"}, file' = FileAs(g, s),
             s = "failed" \/ file[g].status \notin Unfinished
      PROVE  KeepsFile(f)
  BY <1>1, <1>3 DEF KeepsFile, FileAs, FileRow, Unfinished, Uploading
<1>4. CASE DeleteRemoteFile
  <2>1. PICK p \in Post : /\ latest[p] # NoFile /\ file[latest[p]].status = "verified"
                          /\ file' = FileAs(latest[p], "deleting")
    BY <1>4 DEF DeleteRemoteFile
  <2>2. latest[p] \in File
    BY <2>1 DEF Backing, PublishBase, PublishTypeOK
  <2> QED BY <1>3, <2>1, <2>2 DEF Unfinished, Uploading
<1>5. CASE RemoteFileDeleted
  <2>1. /\ api.file \in File /\ file[api.file].status = "deleting"
        /\ file' = FileAs(api.file, "deleted")
    BY <1>5 DEF RemoteFileDeleted, Backing, PublishBase, ApiHasFile, ApiAt, ApiSettled
  <2> QED BY <1>3, <2>1 DEF Unfinished, Uploading
<1> QED BY <1>2, <1>3, <1>4, <1>5 DEF WrittenOff

\* Requests and workers keep every file,
LEMMA OthersKeepFiles ==
  ASSUME Backing, ApiNext \/ WorkerNext \/ WorkerStops \/ WorkerDies, NEW f \in File
  PROVE  KeepsFile(f)
<1>b. PublishBase /\ file \in [File -> FileRow] /\ PublishNext
  BY DEF Backing, PublishBase, PublishTypeOK, PublishNext
<1>1. CASE ActivateAttempt
  <2> DEFINE row == [file[api.file] EXCEPT !.status = "pending", !.job = api.job]
  <2>1. /\ api.file \in File /\ \A h \in File \ {api.file} : file'[h] = file[h]
        /\ file' = [file EXCEPT ![api.file] = row]
    BY <1>1, ActivateTouches DEF ActivateAttempt
  <2>2. row.ref = file[api.file].ref /\ row.status = "pending"
    BY <1>b, <2>1 DEF FileRow
  <2> HIDE DEF row
  <2> QED BY <1>b, <2>1, <2>2 DEF KeepsFile, Unfinished, Uploading
<1> QED BY <1>b, <1>1, ApiWrites, WorkerWrites, WrittenOffKeeps

\* and leave a runner as it is, or leave one that has not begun, or none.
LEMMA OthersKeepUpload ==
  ASSUME PublishBase, ApiNext \/ WorkerNext \/ WorkerStops \/ WorkerDies
  PROVE  \/ upload'.pc = upload.pc /\ upload'.job = upload.job /\ upload'.ref = upload.ref
         \/ upload'.pc \in {"off", "start"} /\ upload'.ref = NoRemote
<1>1. CASE UNCHANGED upload
  BY <1>1
<1>2. CASE ReconcileStale \/ UploadExited \/ WorkerStopped \/ ReadAttempt
  <2>1. UNCHANGED upload \/ upload' = NoUpload
    BY <1>2 DEF ReconcileStale, UploadExited, WorkerStopped, ReadAttempt
  <2> QED BY <2>1 DEF NoUpload
<1>3. CASE SpawnUpload
  BY <1>3 DEF SpawnUpload, NoUpload
<1>4. CASE WorkerStops
  BY <1>4 DEF WorkerStops, PublishBase, PublishTypeOK, UploadState
<1> QED
  BY <1>1, <1>2, <1>3, <1>4, Frames
     DEF WorkerNext, ActOnAttempt, SettlePublish, ClaimPublish, WorkerStarts, WorkerDies

\* A live runner keeps its file.
LEMMA MyFileStays ==
  ASSUME PublishBase, PublishNext, RunnerAlive, upload'.job = upload.job
  PROVE  MyFile' = MyFile /\ MyFile \in File /\ upload.job \in Publish
<1>1. HasFile(upload.job) /\ MyFile \in File /\ upload.job \in Publish
  BY MyFileIsFile DEF PublishBase, UploadHasFile
<1>2. pub'[upload.job].file = pub[upload.job].file
  BY <1>1, FileOfRowStays
<1> QED BY <1>1, <1>2 DEF MyFile

\* Only the provider's deletion of a file that the user deletes touches a remote file
\* besides the runner.
LEMMA OthersStore ==
  ASSUME Backing, Stored, ApiNext \/ WorkerNext \/ WorkerStops \/ WorkerDies
  PROVE  Stored'
<1>b. /\ PublishBase /\ PublishNext /\ remote \in [Remote -> {"unused", "unusable", "complete"}]
      /\ file \in [File -> FileRow] /\ RunnerAlive => MyFile \in File
  BY MyFileIsFile DEF Backing, PublishBase, PublishTypeOK, PublishNext
<1>1. CASE UNCHANGED remote
  <2>1. CASE upload'.pc = upload.pc /\ upload'.job = upload.job /\ upload'.ref = upload.ref
    <3>1. CASE RunnerAlive
      BY <1>1, <1>b, <2>1, <3>1, MyFileStays, OthersKeepFiles, StoredStays
    <3>2. CASE ~RunnerAlive
      <4>1. FilesStored'
        BY <1>1, OthersKeepFiles, KeptFilesStored
      <4> QED BY <2>1, <3>2, <4>1 DEF Stored, UploadStored, RunnerAlive, Delivering, Storing
    <3> QED BY <3>1, <3>2
  <2>2. CASE upload'.pc \in {"off", "start"} /\ upload'.ref = NoRemote
    <3>1. upload'.pc \notin Delivering \union Storing
      BY <2>2 DEF Delivering, Storing
    <3>2. \A f \in File : KeepsFile(f)
      BY OthersKeepFiles
    <3>3. FilesStored'
      BY <1>1, <3>2, KeptFilesStored
    <3>4. UploadStored'
      BY <2>2, <3>1 DEF UploadStored, Delivering, Storing
    <3> QED BY <3>3, <3>4 DEF Stored
  <2> QED BY <1>b, <2>1, <2>2, OthersKeepUpload
<1>2. CASE TrashRemoteFile
  <2> DEFINE f == api.file
             r == file[f].ref
  <2>1. /\ f \in File /\ file[f].status = "deleting"
        /\ file' = file /\ upload' = upload /\ pub' = pub
        /\ remote' = remote \/ remote' = [remote EXCEPT ![r] = "unusable"]
    <3>1. f \in File /\ file[f].status = "deleting"
      BY <1>2 DEF TrashRemoteFile, ApiAt, Backing, PublishBase, ApiHasFile, ApiSettled
    <3> QED BY <1>2, <3>1 DEF TrashRemoteFile
  <2>2. CASE UNCHANGED remote
    BY <1>1, <2>2
  <2>3. CASE remote' = [remote EXCEPT ![r] = "unusable"]
    <3>1. \A q : remote'[q] = remote[q] \/ (q = r /\ remote'[q] = "unusable")
      BY <1>b, <2>3
    <3>2. ASSUME NEW g \in File, file[g].status = "verified" PROVE file[g].ref # r
      <4>1. g # f /\ file[g].ref # NoRemote
        BY <2>1, <3>2, PublishAssumption DEF Stored, FilesStored, FileStored, Remote
      <4> QED BY <2>1, <4>1 DEF Stored, FilesStored
    <3>3. FilesStored'
      BY <2>1, <3>1, <3>2 DEF Stored, FilesStored, FileStored
    <3>4. upload.pc \in {"reuse", "complete"} => upload.ref # r
      <4>1. upload.pc \in {"reuse", "complete"} => RunnerAlive /\ upload.ref # NoRemote /\ f # MyFile
        BY <2>1 DEF Stored, UploadStored, RunnerAlive, Delivering, Storing, Unfinished, Uploading
      <4> QED BY <2>1, <4>1 DEF Stored, UploadStored
    <3>5. MyFile' = MyFile /\ RunnerAlive' = RunnerAlive
      BY <2>1 DEF MyFile, RunnerAlive
    <3> HIDE DEF r
    <3>6. UploadStored'
      BY <2>1, <3>1, <3>4, <3>5 DEF Stored, UploadStored
    <3> QED BY <3>3, <3>6 DEF Stored
  <2> QED BY <2>1, <2>2, <2>3
<1> QED
  BY <1>1, <1>2, Frames
     DEF ApiNext, RequestPublish, ActivateAttempt, EnqueuePublishJob, Unpublish, UnpublishFile,
         UnpublishJob, ModeratePost, SoftDeletePost, DeleteRemoteFile, RemoteFileDeleted, ApiDies

\* Where a step leaves the runner that it takes on.
LEMMA RunnerGoes ==
  ASSUME upload \in UploadState
  PROVE  /\ \A pc : RunnerGoto(pc) =>
              upload'.pc = pc /\ upload'.job = upload.job /\ upload'.ref = upload.ref
         /\ RunnerExits => upload'.pc = "exited" /\ upload'.ref = NoRemote
BY DEF UploadState, RunnerGoto, RunnerExits, NoUpload

\* A runner that leaves the files and the provider alone, or writes its file off, leaves
\* everything stored,
LEMMA RunnerPasses ==
  ASSUME Backing, Stored, PublishNext, RunnerAlive, WrittenOff, UNCHANGED remote,
         \/ RunnerExits
         \/ \E pc : /\ RunnerGoto(pc)
                    /\ \/ pc \notin Delivering \union Storing
                       \/ /\ pc \in Delivering \ {"stat", "complete", "reuse"}
                          /\ upload.pc \in Delivering \/ file[MyFile].status \in Unfinished
                          /\ pc \in Storing => upload.pc \in Storing
  PROVE  Stored'
<1>b. upload \in UploadState /\ PublishBase /\ MyFile \in File
  BY MyFileIsFile DEF Backing, PublishBase, PublishTypeOK
<1>1. \A f \in File : KeepsFile(f)
  BY WrittenOffKeeps
<1>2. CASE RunnerExits
  <2>1. upload'.ref = NoRemote /\ upload'.pc \notin Delivering \union Storing
    BY <1>b, <1>2, RunnerGoes DEF Delivering, Storing
  <2> QED BY <1>b, <1>1, <2>1, StoredStays
<1>3. ASSUME NEW pc, RunnerGoto(pc),
             \/ pc \notin Delivering \union Storing
             \/ /\ pc \in Delivering \ {"stat", "complete", "reuse"}
                /\ upload.pc \in Delivering \/ file[MyFile].status \in Unfinished
                /\ pc \in Storing => upload.pc \in Storing
      PROVE  Stored'
  <2>1. upload'.pc = pc /\ upload'.job = upload.job /\ upload'.ref = upload.ref
    BY <1>b, <1>3, RunnerGoes
  <2>2. MyFile' = MyFile
    BY <1>b, <2>1, MyFileStays
  <2> QED BY <1>b, <1>1, <1>3, <2>1, <2>2, StoredStays
<1> QED BY <1>2, <1>3

\* so do most steps of a runner.
LEMMA PassingStores ==
  ASSUME Backing, Stored,
         \/ RunnerStarts \/ RunnerInterrupts \/ RunnerChecks \/ FinishPublish \/ InvalidateFile
         \/ CancelPublish \/ UnexpectedFailure \/ RunnerFails \/ FailPublish
         \/ CommunityUnavailable \/ RunnerDies
  PROVE  Stored'
<1>b. /\ PublishBase /\ RunnerAlive /\ PublishNext /\ MyFile \in File
      /\ UNCHANGED remote
  <2>1. RunnerNext \/ CommunityUnavailable \/ RunnerDies
    BY DEF RunnerNext
  <2>2. UNCHANGED remote
    BY DEF RunnerStarts, RunnerInterrupts, RunnerChecks, FinishPublish, InvalidateFile,
           CancelPublish, UnexpectedFailure, RunnerFails, FailPublish, CommunityUnavailable, RunnerDies
  <2> QED BY <2>1, <2>2, RunnerSteps, MyFileIsFile DEF Backing, PublishNext
<1> USE DEF Delivering, Storing
<1>1. CASE RunnerStarts
  <2>1. UNCHANGED file
    BY <1>1 DEF RunnerStarts
  <2>2. \/ RunnerExits \/ RunnerGoto("abort") \/ RunnerGoto("error")
        \/ RunnerGoto("snapshot") /\ file[MyFile].status \in Unfinished
    BY <1>1 DEF RunnerStarts, Live, Unfinished
  <2> QED BY <1>b, <2>1, <2>2, RunnerPasses DEF WrittenOff
<1>2. CASE RunnerChecks
  <2>1. UNCHANGED file
    BY <1>2 DEF RunnerChecks
  <2>2. \/ RunnerGoto("fail") \/ RunnerGoto("error") \/ RunnerGoto("abort")
        \/ upload.pc = "snapshot" /\ RunnerGoto("previous")
        \/ upload.pc = "folder" /\ RunnerGoto("open")
        \/ upload.pc = "chunk" /\ RunnerGoto("upload")
        \/ upload.pc = "sent" /\ RunnerGoto("verify")
    BY <1>2 DEF RunnerChecks, Checked, RunnerAt
  <2> QED BY <1>b, <2>1, <2>2, RunnerPasses DEF WrittenOff
<1>3. CASE InvalidateFile \/ RunnerFails
  <2>1. WrittenOff
    BY <1>b, <1>3, InvalidatedWrites, FailAttemptWrites DEF InvalidateFile, RunnerFails, WritesOff
  <2>2. RunnerGoto("cancel") \/ RunnerGoto("failed")
    BY <1>3 DEF InvalidateFile, RunnerFails
  <2> QED BY <1>b, <2>1, <2>2, RunnerPasses
<1>4. CASE \/ RunnerInterrupts \/ FinishPublish \/ CancelPublish \/ UnexpectedFailure
           \/ FailPublish \/ CommunityUnavailable \/ RunnerDies
  <2>1. UNCHANGED file
    BY <1>4 DEF RunnerInterrupts, FinishPublish, CancelPublish, UnexpectedFailure, FailPublish,
                CommunityUnavailable, RunnerDies
  <2>2. RunnerExits \/ RunnerGoto("fail")
    BY <1>4 DEF RunnerInterrupts, FinishPublish, CancelPublish, UnexpectedFailure, FailPublish,
                CommunityUnavailable, RunnerDies
  <2> QED BY <1>b, <2>1, <2>2, RunnerPasses DEF WrittenOff
<1> QED BY <1>1, <1>2, <1>3, <1>4

\* The step leaves the remote file alone, or it is one that only the runner's file may name,
\* and the provider knows it.
TouchesMine(q) ==
  \/ remote'[q] = remote[q]
  \/ remote'[q] # "unused" /\ \A f \in File \ {MyFile} : file[f].ref # q

\* A runner that delivers its file leaves the files stored.
LEMMA DeliveryStores ==
  ASSUME Backing, Stored, RunnerAlive, upload.pc \in Delivering,
         \A q \in Remote : TouchesMine(q),
         \A f \in File \ {MyFile} : file'[f] = file[f],
         file'[MyFile].status # "verified",
         file'[MyFile].ref \in {file[MyFile].ref, NoRemote, upload.ref}
  PROVE  FilesStored'
<1>b. /\ MyFile \in File /\ upload.ref \in Remote \union {NoRemote}
      /\ \A f \in File : file[f].ref \in Remote \union {NoRemote}
  BY MyFileIsFile DEF Backing, PublishBase, PublishTypeOK, FileRow, UploadState
<1>1. ASSUME NEW f \in File, f # MyFile PROVE FileStored(f)'
  <2>1. file'[f] = file[f] /\ FileStored(f)
    BY <1>1 DEF Stored, FilesStored
  <2>2. file[f].ref # NoRemote => remote'[file[f].ref] = remote[file[f].ref]
    <3>1. file[f].ref # NoRemote => TouchesMine(file[f].ref)
      BY <1>b
    <3> QED BY <1>1, <3>1 DEF TouchesMine
  <2>3. NoRemote \notin Remote
    BY PublishAssumption DEF Remote
  <2> QED BY <2>1, <2>2, <2>3 DEF FileStored
<1>2. ASSUME NEW f \in File, f = MyFile PROVE FileStored(f)'
  <2> DEFINE r == file'[MyFile].ref
  <2>1. r # NoRemote => r \in Remote /\ remote[r] # "unused"
    BY <1>b DEF Stored, FilesStored, FileStored, UploadStored
  <2>2. r # NoRemote => TouchesMine(r)
    BY <2>1
  <2>3. r # NoRemote => remote'[r] # "unused"
    BY <2>1, <2>2 DEF TouchesMine
  <2> HIDE DEF r
  <2>4. (file'[MyFile].status = "verified" => r \in Remote /\ remote'[r] = "complete")
        /\ (r # NoRemote => remote'[r] # "unused")
    BY <2>3
  <2> QED BY <1>2, <2>4 DEF FileStored, r
<1>3. ASSUME NEW f \in File, NEW g \in File, file'[f].ref # NoRemote, file'[f].ref = file'[g].ref
      PROVE  f = g
  <2>1. ASSUME NEW h \in File, h # MyFile, file'[h].ref # NoRemote
        PROVE  file'[h].ref # file'[MyFile].ref
    <3>1. file'[h].ref = file[h].ref
      BY <2>1
    <3>2. file[h].ref # file[MyFile].ref
      BY <1>b, <2>1, <3>1 DEF Stored, FilesStored
    <3>3. upload.ref # NoRemote => file[h].ref # upload.ref
      BY <2>1 DEF Stored, UploadStored
    <3> QED BY <2>1, <3>1, <3>2, <3>3
  <2>2. CASE f # MyFile /\ g # MyFile
    BY <1>3, <2>2 DEF Stored, FilesStored
  <2> QED BY <1>3, <2>1, <2>2
<1>4. \A f \in File : FileStored(f)'
  BY <1>1, <1>2
<1> QED BY <1>3, <1>4 DEF FilesStored

\* So it does when it goes on with the delivery, as long as it keeps to its remote file.
LEMMA DeliveryGoesOn ==
  ASSUME Backing, Stored, RunnerAlive, upload.pc \in Delivering, UNCHANGED pub,
         \A q \in Remote : TouchesMine(q),
         \A f \in File \ {MyFile} : file'[f] = file[f],
         file'[MyFile].status \in Unfinished,
         file'[MyFile].ref \in {file[MyFile].ref, NoRemote, upload.ref},
         NEW pc, RunnerGoto(pc), pc # "reuse",
         pc \in Storing => upload.ref # NoRemote,
         pc \in {"stat", "complete"} => file'[MyFile].ref = upload.ref,
         pc = "complete" => remote'[upload.ref] = "complete"
  PROVE  Stored'
<1>b. /\ upload \in UploadState /\ upload.ref \in Remote \union {NoRemote}
      /\ MyFile \in File
  BY MyFileIsFile DEF Backing, PublishBase, PublishTypeOK, UploadState
<1>1. upload'.pc = pc /\ upload'.job = upload.job /\ upload'.ref = upload.ref
  BY <1>b, RunnerGoes
<1>2. MyFile' = MyFile
  BY <1>1 DEF MyFile
<1>3. FilesStored'
  BY DeliveryStores DEF Unfinished, Uploading
<1>4. upload.ref # NoRemote => remote'[upload.ref] # "unused"
  <2>1. upload.ref # NoRemote => TouchesMine(upload.ref)
    BY <1>b
  <2> QED BY <2>1 DEF TouchesMine, Stored, UploadStored
<1>5. \A f \in File : upload.ref # NoRemote /\ file'[f].ref = upload.ref => f = MyFile
  BY DEF Stored, UploadStored
<1>6. UploadStored'
  BY <1>1, <1>2, <1>4, <1>5 DEF UploadStored
<1> QED BY <1>3, <1>6 DEF Stored

\* A runner that writes its file's row leaves the rest alone.
LEMMA RowWritten ==
  ASSUME Backing, RunnerAlive, NEW row, file' = [file EXCEPT ![MyFile] = row]
  PROVE  file'[MyFile] = row /\ \A f \in File \ {MyFile} : file'[f] = file[f]
BY MyFileIsFile DEF Backing, PublishBase, PublishTypeOK

\* One that writes nothing has nothing to fear.
LEMMA NothingTouched ==
  ASSUME UNCHANGED remote
  PROVE  \A q \in Remote : TouchesMine(q)
BY DEF TouchesMine

\* A runner that lays hands on its remote file touches what is its own.
LEMMA OwnTouched ==
  ASSUME Backing, Stored, RunnerAlive, NEW s \in {"unusable", "complete"},
         NEW r, r \in {upload.ref, file[MyFile].ref},
         remote' = [remote EXCEPT ![r] = s]
  PROVE  \A q \in Remote : TouchesMine(q)
<1>1. ASSUME NEW q \in Remote, q # r PROVE TouchesMine(q)
  BY <1>1 DEF TouchesMine, Backing, PublishBase, PublishTypeOK
<1>2. ASSUME r \in Remote PROVE TouchesMine(r)
  <2>1. remote'[r] = s /\ r # NoRemote
    BY <1>2, PublishAssumption DEF Backing, PublishBase, PublishTypeOK, Remote
  <2>2. \A f \in File \ {MyFile} : file[f].ref # r
    <3>1. MyFile \in File
      BY MyFileIsFile DEF Backing
    <3> QED BY <2>1, <3>1 DEF Stored, FilesStored, UploadStored
  <2> QED BY <2>1, <2>2 DEF TouchesMine
<1> QED BY <1>1, <1>2

\* A runner that only decides where to go on, delivers nothing or gives up, or finds what
\* an earlier one left.
LEMMA DecidingStores ==
  ASSUME Backing, Stored, PreviousRemote \/ VerifyRemote
  PROVE  Stored'
<1>b. /\ RunnerAlive /\ PublishNext /\ upload.pc \in Delivering /\ UNCHANGED <<remote, file, pub>>
      /\ MyFile \in File /\ file[MyFile].status \in Unfinished /\ upload \in UploadState
  <2>1. /\ RunnerAlive /\ PublishNext /\ upload.pc \in Delivering /\ UNCHANGED <<remote, file, pub>>
    BY DEF PreviousRemote, VerifyRemote, RunnerAt, RunnerAlive, Delivering, PublishNext, RunnerNext
  <2> QED BY <2>1, MyFileIsFile DEF Backing, Stored, UploadStored, PublishBase, PublishTypeOK
<1>1. CASE RunnerGoto("mark") \/ RunnerGoto("drop") \/ RunnerGoto("fail")
  BY <1>b, <1>1, RunnerPasses DEF WrittenOff, Delivering, Storing
<1>2. CASE VerifyRemote /\ RunnerGoto("complete")
  <2>1. remote[upload.ref] = "complete"
    <3>1. ~RunnerGoto("fail")
      BY <1>b, <1>2 DEF RunnerGoto, UploadState
    <3> QED BY <1>2, <3>1 DEF VerifyRemote
  <2>2. file[MyFile].ref = upload.ref /\ upload.ref # NoRemote
    BY <1>2 DEF VerifyRemote, RunnerAt, Stored, UploadStored, Storing
  <2>3. upload'.pc = "complete" /\ upload'.job = upload.job /\ upload'.ref = upload.ref
    BY <1>b, <1>2, RunnerGoes
  <2>4. MyFile' = MyFile
    BY <1>b, <2>3 DEF MyFile
  <2>5. FilesStored'
    BY <1>b, KeptFilesStored DEF KeepsFile
  <2>6. UploadStored'
    BY <1>b, <2>1, <2>2, <2>3, <2>4 DEF Stored, UploadStored, RunnerAlive
  <2> QED BY <2>5, <2>6 DEF Stored
<1>3. CASE PreviousRemote /\ ~RunnerGoto("mark") /\ ~RunnerGoto("drop")
  <2> DEFINE r == file[MyFile].ref
  <2>1. r # NoRemote /\ remote[r] = "complete" /\ upload' = [upload EXCEPT !.pc = "reuse", !.ref = r]
    BY <1>3 DEF PreviousRemote, PreviousUsable
  <2>2. upload'.pc = "reuse" /\ upload'.job = upload.job /\ upload'.ref = r
    BY <1>b, <2>1 DEF UploadState
  <2>3. MyFile' = MyFile
    BY <1>b, <2>2 DEF MyFile
  <2>4. FilesStored'
    BY <1>b, KeptFilesStored DEF KeepsFile
  <2>5. \A f \in File : file[f].ref = r => f = MyFile
    BY <1>b, <2>1 DEF Stored, FilesStored
  <2>6. UploadStored'
    BY <1>b, <2>1, <2>2, <2>3, <2>5 DEF UploadStored
  <2> QED BY <2>4, <2>6 DEF Stored
<1> QED BY <1>1, <1>2, <1>3 DEF VerifyRemote

\* A runner that updates its file's row, or is refused.
LEMMA UpdatingStores ==
  ASSUME Backing, Stored, ReuseRemote \/ MarkUploading \/ BeginVerification
  PROVE  Stored'
<1>b. /\ RunnerAlive /\ PublishNext /\ upload.pc \in Delivering /\ UNCHANGED <<remote, pub>>
      /\ MyFile \in File /\ file[MyFile] \in FileRow
  <2>1. RunnerAlive /\ PublishNext /\ upload.pc \in Delivering /\ UNCHANGED <<remote, pub>>
    BY DEF ReuseRemote, MarkUploading, BeginVerification, RunnerAt, RunnerAlive, Delivering,
           PublishNext, RunnerNext
  <2> QED BY <2>1, MyFileIsFile DEF Backing, PublishBase, PublishTypeOK
<1>1. CASE UNCHANGED file /\ RunnerGoto("cancel")
  BY <1>b, <1>1, RunnerPasses DEF WrittenOff, Delivering, Storing
<1>2. CASE BeginVerification /\ UNCHANGED file /\ RunnerGoto("discard")
  BY <1>b, <1>2, RunnerPasses DEF BeginVerification, RunnerAt, WrittenOff, Delivering, Storing
<1>3. ASSUME NEW pc \in {"complete", "stat"},
             (ReuseRemote /\ pc = "complete") \/ (BeginVerification /\ pc = "stat"),
             RunnerGoto(pc),
             file' = [file EXCEPT ![MyFile] = [file[MyFile] EXCEPT !.status = "verifying",
                                                                   !.ref = upload.ref]]
      PROVE  Stored'
  <2> DEFINE row == [file[MyFile] EXCEPT !.status = "verifying", !.ref = upload.ref]
  <2>1. row.status = "verifying" /\ row.ref = upload.ref
    BY <1>b DEF FileRow
  <2>2. file' = [file EXCEPT ![MyFile] = row]
    BY <1>3
  <2> HIDE DEF row
  <2>3. file'[MyFile] = row /\ \A f \in File \ {MyFile} : file'[f] = file[f]
    BY <1>b, <2>2, RowWritten
  <2>4. upload.ref # NoRemote /\ (pc = "complete" => remote[upload.ref] = "complete")
    BY <1>3 DEF ReuseRemote, BeginVerification, RunnerAt, Stored, UploadStored, Storing
  <2>5. row.status \in Unfinished
    BY <2>1 DEF Unfinished, Uploading
  <2> QED BY <1>b, <1>3, <2>1, <2>3, <2>4, <2>5, NothingTouched, DeliveryGoesOn
<1>4. ASSUME MarkUploading, RunnerGoto("folder"),
             file' = [file EXCEPT ![MyFile] = [file[MyFile] EXCEPT !.status = "uploading",
                                                 !.ref = NoRemote, !.session = FALSE]]
      PROVE  Stored'
  <2> DEFINE row == [file[MyFile] EXCEPT !.status = "uploading", !.ref = NoRemote,
                                         !.session = FALSE]
  <2>1. row.status = "uploading" /\ row.ref = NoRemote
    BY <1>b DEF FileRow
  <2>2. file' = [file EXCEPT ![MyFile] = row]
    BY <1>4
  <2> HIDE DEF row
  <2>3. file'[MyFile] = row /\ \A f \in File \ {MyFile} : file'[f] = file[f]
    BY <1>b, <2>2, RowWritten
  <2>4. row.status \in Unfinished /\ "folder" \notin Storing
    BY <2>1 DEF Unfinished, Uploading, Storing
  <2> QED BY <1>b, <1>4, <2>1, <2>3, <2>4, NothingTouched, DeliveryGoesOn
<1>5. CASE ReuseRemote
  BY <1>1, <1>3, <1>5 DEF ReuseRemote, UpdateFile
<1>6. CASE BeginVerification
  BY <1>2, <1>3, <1>6 DEF BeginVerification, UpdateFile
<1>7. CASE MarkUploading
  BY <1>1, <1>4, <1>7 DEF MarkUploading, UpdateFile
<1> QED BY <1>5, <1>6, <1>7

\* A runner that drops, completes or discards its remote file, or fails to.
LEMMA HandlingStores ==
  ASSUME Backing, Stored, DropRemote \/ UploadChunk \/ DiscardRemote
  PROVE  Stored'
<1>b. /\ RunnerAlive /\ PublishNext /\ upload.pc \in Delivering /\ UNCHANGED <<file, pub>>
      /\ MyFile \in File /\ file[MyFile].status \in Unfinished
  <2>1. RunnerAlive /\ PublishNext /\ upload.pc \in Delivering /\ UNCHANGED <<file, pub>>
    BY DEF DropRemote, UploadChunk, DiscardRemote, RunnerAt, RunnerAlive, Delivering,
           PublishNext, RunnerNext
  <2> QED BY <2>1, MyFileIsFile DEF Backing, Stored, UploadStored
<1>1. \A q \in Remote : TouchesMine(q)
  <2>1. CASE UNCHANGED remote
    BY <2>1, NothingTouched
  <2>2. ASSUME NEW r \in {upload.ref, file[MyFile].ref}, NEW s \in {"unusable", "complete"},
               remote' = [remote EXCEPT ![r] = s]
        PROVE  \A q \in Remote : TouchesMine(q)
    BY <1>b, <2>2, OwnTouched
  <2>3. \/ UNCHANGED remote
        \/ \E r \in {upload.ref, file[MyFile].ref}, s \in {"unusable", "complete"} :
             remote' = [remote EXCEPT ![r] = s]
    BY DEF DropRemote, UploadChunk, DiscardRemote
  <2> QED BY <2>1, <2>2, <2>3
<1>2. PICK pc : /\ RunnerGoto(pc)
                /\ \/ pc \in {"mark", "error", "fail", "cancel", "abort"}
                   \/ pc = "uploaded" /\ upload.pc = "upload"
  BY DEF DropRemote, UploadChunk, DiscardRemote, RunnerAt
<1>3. pc \notin {"reuse", "stat", "complete"} /\ (pc \in Storing => upload.ref # NoRemote)
  BY <1>2 DEF Storing, Stored, UploadStored
<1> QED BY <1>b, <1>1, <1>2, <1>3, DeliveryGoesOn

\* A runner that opens a session takes a remote file that nobody names.
LEMMA OpeningStores ==
  ASSUME Backing, Stored, OpenSession
  PROVE  Stored'
<1>b. /\ RunnerAlive /\ PublishNext /\ upload.pc \in Delivering /\ UNCHANGED <<file, pub>>
      /\ MyFile \in File /\ file[MyFile].status \in Unfinished /\ upload \in UploadState
      /\ remote \in [Remote -> {"unused", "unusable", "complete"}]
  <2>1. RunnerAlive /\ PublishNext /\ upload.pc \in Delivering /\ UNCHANGED <<file, pub>>
    BY DEF OpenSession, RunnerAt, RunnerAlive, Delivering, PublishNext, RunnerNext
  <2> QED BY <2>1, MyFileIsFile DEF Backing, Stored, UploadStored, PublishBase, PublishTypeOK
<1>1. CASE UNCHANGED remote /\ RunnerGoto("error")
  BY <1>b, <1>1, RunnerPasses DEF WrittenOff, Delivering, Storing
<1>2. ASSUME NEW r \in Remote, remote[r] = "unused", remote' = [remote EXCEPT ![r] = "unusable"],
             upload' = [upload EXCEPT !.pc = "link", !.ref = r]
      PROVE  Stored'
  <2>1. upload'.pc = "link" /\ upload'.job = upload.job /\ upload'.ref = r
    BY <1>b, <1>2 DEF UploadState
  <2>2. MyFile' = MyFile
    BY <1>b, <2>1 DEF MyFile
  <2>3. remote'[r] = "unusable" /\ \A q \in Remote \ {r} : remote'[q] = remote[q]
    BY <1>b, <1>2
  <2>4. r # NoRemote /\ \A f \in File : file[f].ref # r
    <3>1. r # NoRemote
      BY PublishAssumption DEF Remote
    <3> QED BY <1>2, <3>1 DEF Stored, FilesStored, FileStored
  <2>5. \A q \in Remote : TouchesMine(q)
    BY <2>3, <2>4 DEF TouchesMine
  <2>6. FilesStored'
    BY <1>b, <2>5, DeliveryStores DEF Unfinished, Uploading
  <2>7. UploadStored'
    BY <1>b, <2>1, <2>2, <2>3, <2>4 DEF UploadStored, Storing
  <2> QED BY <2>6, <2>7 DEF Stored
<1> QED BY <1>1, <1>2 DEF OpenSession

\* A runner that records its remote file under its own file.
LEMMA RecordingStores ==
  ASSUME Backing, Stored, LinkSession \/ AdvanceUpload
  PROVE  Stored'
<1>b. /\ RunnerAlive /\ PublishNext /\ upload.pc \in Delivering /\ UNCHANGED <<remote, pub>>
      /\ MyFile \in File /\ file[MyFile] \in FileRow /\ file[MyFile].status \in Unfinished
      /\ upload.ref # NoRemote
  <2>1. /\ RunnerAlive /\ PublishNext /\ upload.pc \in Delivering /\ UNCHANGED <<remote, pub>>
        /\ upload.pc \in Storing
    BY DEF LinkSession, AdvanceUpload, RunnerAt, RunnerAlive, Delivering, Storing, PublishNext,
           RunnerNext
  <2> QED BY <2>1, MyFileIsFile DEF Backing, Stored, UploadStored, PublishBase, PublishTypeOK
<1>1. /\ file'[MyFile].status = file[MyFile].status
      /\ file'[MyFile].ref \in {file[MyFile].ref, NoRemote, upload.ref}
      /\ \A f \in File \ {MyFile} : file'[f] = file[f]
  <2>1. CASE UNCHANGED file
    BY <2>1
  <2>2. CASE file' = [file EXCEPT ![MyFile] = [file[MyFile] EXCEPT !.ref = upload.ref]]
    <3> DEFINE row == [file[MyFile] EXCEPT !.ref = upload.ref]
    <3>1. row.status = file[MyFile].status /\ row.ref = upload.ref
      BY <1>b DEF FileRow
    <3>2. file' = [file EXCEPT ![MyFile] = row]
      BY <2>2
    <3> HIDE DEF row
    <3> QED BY <1>b, <3>1, <3>2, RowWritten
  <2>3. ASSUME NEW ref \in {upload.ref, NoRemote},
               file' = [file EXCEPT ![MyFile] = [file[MyFile] EXCEPT !.session = TRUE, !.ref = ref]]
        PROVE  /\ file'[MyFile].status = file[MyFile].status
               /\ file'[MyFile].ref \in {file[MyFile].ref, NoRemote, upload.ref}
               /\ \A f \in File \ {MyFile} : file'[f] = file[f]
    <3> DEFINE row == [file[MyFile] EXCEPT !.session = TRUE, !.ref = ref]
    <3>1. row.status = file[MyFile].status /\ row.ref = ref
      BY <1>b DEF FileRow
    <3>2. file' = [file EXCEPT ![MyFile] = row]
      BY <2>3
    <3> HIDE DEF row
    <3> QED BY <1>b, <2>3, <3>1, <3>2, RowWritten
  <2> DEFINE ref == IF earlyId THEN upload.ref ELSE NoRemote
  <2>4. \/ UNCHANGED file
        \/ file' = [file EXCEPT ![MyFile] = [file[MyFile] EXCEPT !.ref = upload.ref]]
        \/ file' = [file EXCEPT ![MyFile] = [file[MyFile] EXCEPT !.session = TRUE, !.ref = ref]]
    BY DEF LinkSession, AdvanceUpload, Referenced
  <2>5. ref \in {upload.ref, NoRemote}
    OBVIOUS
  <2> HIDE DEF ref
  <2> QED BY <2>1, <2>2, <2>3, <2>4, <2>5
<1>2. PICK pc \in {"chunk", "revoked", "sent", "discard"} : RunnerGoto(pc)
  BY DEF LinkSession, AdvanceUpload
<1>3. pc \notin {"reuse", "stat", "complete"}
  OBVIOUS
<1> QED BY <1>b, <1>1, <1>2, <1>3, NothingTouched, DeliveryGoesOn

\* A runner verifies its file when all of it is there.
LEMMA CompletionStores ==
  ASSUME Backing, Stored, CompleteAttempt
  PROVE  Stored'
<1>b. /\ RunnerAlive /\ PublishNext /\ upload.pc = "complete" /\ UNCHANGED <<remote, pub>>
      /\ MyFile \in File /\ file \in [File -> FileRow] /\ upload \in UploadState
  <2>1. RunnerAlive /\ PublishNext /\ upload.pc = "complete" /\ UNCHANGED <<remote, pub>>
    BY DEF CompleteAttempt, RunnerAt, RunnerAlive, PublishNext, RunnerNext
  <2> QED BY <2>1, MyFileIsFile DEF Backing, PublishBase, PublishTypeOK
<1>1. CASE UNCHANGED file /\ (RunnerGoto("error") \/ RunnerGoto("abort"))
  BY <1>b, <1>1, RunnerPasses DEF WrittenOff, Delivering, Storing
<1>2. CASE file' = FileAs(MyFile, "verified") /\ RunnerGoto("finish")
  <2>1. upload'.pc = "finish" /\ upload'.job = upload.job /\ upload'.ref = upload.ref
    BY <1>b, <1>2, RunnerGoes
  <2>2. MyFile' = MyFile
    BY <1>b, <2>1 DEF MyFile
  <2>3. file[MyFile].ref = upload.ref /\ upload.ref # NoRemote /\ remote[upload.ref] = "complete"
    BY <1>b DEF Stored, UploadStored, Storing
  <2>4. upload.ref \in Remote
    BY <1>b, <2>3 DEF UploadState
  <2>5. file'[MyFile].ref = upload.ref /\ \A f \in File \ {MyFile} : file'[f] = file[f]
    BY <1>b, <1>2, <2>3 DEF FileAs, FileRow
  <2>6. ASSUME NEW f \in File PROVE FileStored(f)'
    BY <1>b, <2>3, <2>4, <2>5 DEF Stored, FilesStored, FileStored
  <2>7. \A f \in File : file'[f].ref = file[f].ref
    BY <2>3, <2>5
  <2>8. FilesStored'
    BY <2>6, <2>7 DEF Stored, FilesStored
  <2>9. UploadStored'
    BY <1>b, <2>1, <2>2, <2>7 DEF Stored, UploadStored, Delivering, Storing
  <2> QED BY <2>8, <2>9 DEF Stored
<1> QED BY <1>1, <1>2 DEF CompleteAttempt

\* Every step leaves everything stored, and so it always is.
LEMMA StoredStep ==
  ASSUME Backing, Stored, [PublishNext]_publishVars
  PROVE  Stored'
<1>1. CASE UNCHANGED publishVars
  BY <1>1 DEF publishVars, Stored, FilesStored, FileStored, UploadStored, RunnerAlive, MyFile
<1>2. CASE ApiNext \/ WorkerNext \/ WorkerStops \/ WorkerDies
  BY <1>2, OthersStore
<1>3. CASE RunnerNext \/ CommunityUnavailable \/ RunnerDies
  BY <1>3, PassingStores, DecidingStores, UpdatingStores, HandlingStores, OpeningStores,
     RecordingStores, CompletionStores DEF RunnerNext
<1> QED BY <1>1, <1>2, <1>3 DEF PublishNext

\* A post that is in the feed can be read: the provider holds all of its latest file,
\* whatever an earlier run, a revoked one or a retry did to the remote files.
THEOREM FeedReadable == PublishSpec => []FeedIsReadable
<1>1. Backing /\ Stored => FeedIsReadable
  <2> SUFFICES ASSUME Backing, Stored, NEW p \in Post, latest[p] # NoFile,
                      file[latest[p]].status = "verified"
               PROVE  /\ file[latest[p]].ref # NoRemote
                      /\ remote[file[latest[p]].ref] = "complete"
    BY DEF FeedIsReadable
  <2>1. latest[p] \in File
    BY DEF Backing, PublishBase, PublishTypeOK
  <2>2. NoRemote \notin Remote
    BY PublishAssumption DEF Remote
  <2> QED BY <2>1, <2>2 DEF Stored, FilesStored, FileStored
<1>2. PublishSpec => []Stored
  <2>1. Backing /\ Stored /\ [PublishNext]_publishVars => Stored'
    BY StoredStep
  <2> QED BY <2>1, StoredInit, BackingAlways, PTL DEF PublishSpec
<1> QED BY <1>1, <1>2, BackingAlways, PTL

(***************************************************************************)
(* Jobs tell the truth.                                                    *)
(***************************************************************************)

\* The job's upload came through, whatever became of its file since; or it has none that
\* is verified.
Delivered(j) ==
  \E f \in File : file[f].job = j /\ file[f].status \in {"verified", "deleting", "deleted"}
Undelivered(j) == \A f \in File : file[f].job = j => file[f].status # "verified"

\* A row of which no run has verified a file: it failed, or waits to be run, or its
\* runner ended before it began.
Unserved(row) ==
  \/ row.status \in {"failed", "staging", "queued", "claiming", "resumable"} \union Holds
  \/ row.status = "interrupted" /\ ~row.recov

RowsTrue ==
  \A j \in Publish : /\ pub[j].status = "finished" => Delivered(j)
                     /\ Unserved(pub[j]) => Undelivered(j)

\* A runner delivers while its row runs, and says what it did.
UploadTrue ==
  /\ upload.pc \in Delivering => pub[upload.job].status = "running"
  /\ upload.pc = "finish" => Delivered(upload.job)
  /\ upload.pc = "failed" => Undelivered(upload.job)

\* The worker decides about a row that no runner is at, and on what still holds when it
\* writes the row.
WorkerTrue ==
  /\ RunnerAlive => pub[upload.job].status # "staging"
  /\ At("spawn") => pub[worker.job].status # "staging"
  /\ At("act") \/ At("settle") =>
       /\ RunnerAlive => upload.job # worker.job
       /\ worker.verdict = "completed" => Delivered(worker.job)
       /\ worker.verdict \in {"failed", "queue", "refuse", "refuse_live", "retry"} =>
            Undelivered(worker.job)

Truth == RowsTrue /\ UploadTrue /\ WorkerTrue

\* Nothing is claimed at first.
LEMMA TruthInit == PublishInit => Truth
BY DEF PublishInit, Truth, RowsTrue, UploadTrue, WorkerTrue, EmptyPub, Unserved, Holds, NoUpload,
       WorkerAt, At, RunnerAlive, Delivering

\* An attempt goes on with a file of which nothing is left to deliver only if none was.
LEMMA ClassifiedFile ==
  ASSUME NEW f \in File, Classify(f) = "none"
  PROVE  file[f].status \notin {"verified", "deleting", "deleted"}
<1> DEFINE active == {g \in File : g[1] = f[1] /\ file[g].status \in Uploading}
<1>1. active = {}
  BY DEF Classify
<1>2. CASE file[f].status = "verified"
  BY <1>1, <1>2 DEF Classify
<1>3. CASE file[f].status \in {"deleting", "deleted"}
  BY <1>1, <1>3 DEF Classify
<1> QED BY <1>2, <1>3

\* What is delivered stays delivered,
LEMMA DeliveredStays ==
  ASSUME Backing, PublishNext, NEW j, Delivered(j)
  PROVE  Delivered(j)'
<1>1. PICK f \in File : file[f].job = j /\ file[f].status \in {"verified", "deleting", "deleted"}
  BY DEF Delivered
<1>2. CASE ActivateAttempt
  <2>1. f # api.file
    BY <1>1, <1>2, ClassifiedFile DEF ActivateAttempt
  <2>2. file'[f] = file[f]
    BY <1>2, <2>1, ActivateTouches
  <2> QED BY <1>1, <2>2 DEF Delivered
<1>3. CASE ~ActivateAttempt
  <2>1. file'[f].job = j /\ FileWritten
    BY <1>1, <1>3, FileChanges DEF Backing
  <2>2. file \in [File -> FileRow] /\ file[f].status \notin Uploading
    BY <1>1 DEF Backing, PublishBase, PublishTypeOK, Uploading
  <2>3. file'[f].status \in {"verified", "deleting", "deleted"}
    <3>0. ASSUME NEW g, NEW s \in {"failed", "deleting", "deleted"}, file' = FileAs(g, s),
                 s # "failed" \/ file[g].status \in Uploading
          PROVE  file'[f].status \in {"verified", "deleting", "deleted"}
      BY <1>1, <2>2, <3>0 DEF FileAs
    <3>1. CASE WrittenOff
      <4>1. CASE UNCHANGED file
        BY <1>1, <4>1
      <4>2. CASE DeleteRemoteFile \/ RemoteFileDeleted
        BY <3>0, <4>2 DEF DeleteRemoteFile, RemoteFileDeleted
      <4>3. CASE \E g \in File : file' = FileAs(g, "failed") /\ file[g].status \in Uploading
        BY <3>0, <4>3
      <4> QED BY <3>1, <4>1, <4>2, <4>3 DEF WrittenOff
    <3>2. CASE Completable(MyFile, upload.job) /\ file' = FileAs(MyFile, "verified")
      BY <1>1, <2>2, <3>2 DEF FileAs
    <3>3. ASSUME NEW row \in FileRow, file' = [file EXCEPT ![MyFile] = row],
                 \/ row.status = file[MyFile].status
                 \/ Live(MyFile, upload.job) /\ row.status \in Uploading
          PROVE  file'[f].status = file[f].status
      BY <2>2, <3>3 DEF Live
    <3> QED BY <1>1, <2>1, <3>1, <3>2, <3>3 DEF FileWritten
  <2> QED BY <2>1, <2>3 DEF Delivered
<1> QED BY <1>2, <1>3

\* and what is not is delivered by its own runner only.
LEMMA UndeliveredStays ==
  ASSUME Backing, PublishNext, NEW j, Undelivered(j), ~(CompleteAttempt /\ j = upload.job)
  PROVE  Undelivered(j)'
<1> SUFFICES ASSUME NEW f \in File, file'[f].job = j PROVE file'[f].status # "verified"
  BY DEF Undelivered
<1>1. CASE ActivateAttempt
  <2>1. CASE f = api.file
    BY <1>1, <2>1, ActivateTouches
  <2>2. CASE f # api.file
    BY <1>1, <2>2, ActivateTouches DEF Undelivered
  <2> QED BY <2>1, <2>2
<1>2. CASE ~ActivateAttempt
  <2>1. file[f].job = j /\ FileWritten /\ file[f].status # "verified"
    BY <1>2, FileChanges DEF Backing, Undelivered
  <2>2. file \in [File -> FileRow]
    BY DEF Backing, PublishBase, PublishTypeOK
  <2>0. ASSUME NEW g, NEW s \in {"failed", "deleting", "deleted"}, file' = FileAs(g, s)
        PROVE  file'[f].status # "verified"
    BY <2>0, <2>1, <2>2 DEF FileAs
  <2>3. CASE WrittenOff
    <3>1. UNCHANGED file \/ \E g \in File, s \in {"failed", "deleting", "deleted"} : file' = FileAs(g, s)
      BY <2>3 DEF WrittenOff
    <3> QED BY <2>0, <2>1, <3>1
  <2>4. CASE CompleteAttempt /\ Completable(MyFile, upload.job) /\ file' = FileAs(MyFile, "verified")
    <3>1. f # MyFile
      BY <2>1, <2>4 DEF Completable, Linked
    <3> QED BY <2>1, <2>2, <2>4, <3>1 DEF FileAs
  <2>5. ASSUME NEW row \in FileRow, file' = [file EXCEPT ![MyFile] = row],
               \/ row.status = file[MyFile].status
               \/ Live(MyFile, upload.job) /\ row.status \in Uploading
        PROVE  file'[f].status # "verified"
    BY <2>1, <2>2, <2>5 DEF Uploading
  <2> QED BY <2>1, <2>3, <2>4, <2>5 DEF FileWritten
<1> QED BY <1>1, <1>2

\* The table claims no more than the jobs table does, or than is the case.
Grounded(t) ==
  \A i \in Publish :
    /\ t[i].status = "finished" => pub[i].status = "finished" \/ Delivered(i)
    /\ Unserved(t[i]) => Unserved(pub[i]) \/ Undelivered(i)
    /\ t[i].status = "staging" => pub[i].status \in {"absent", "staging"}

\* A table is grounded if the row that is new in it is,
LEMMA GroundedRow ==
  ASSUME PublishTypeOK, NEW j, NEW row,
         row.status = "finished" => pub[j].status = "finished" \/ Delivered(j),
         Unserved(row) => Unserved(pub[j]) \/ Undelivered(j),
         row.status = "staging" => pub[j].status \in {"absent", "staging"}
  PROVE  Grounded([pub EXCEPT ![j] = row])
<1> DEFINE t == [pub EXCEPT ![j] = row]
<1>1. ASSUME NEW i \in Publish PROVE t[i] = IF i = j THEN row ELSE pub[i]
  BY DEF PublishTypeOK
<1>2. Grounded(pub)
  BY DEF Grounded
<1> HIDE DEF t
<1>3. Grounded(t)
  BY <1>1, <1>2 DEF Grounded
<1> QED BY <1>3 DEF t

\* whatever becomes of the flag of a row,
LEMMA GroundedFlag ==
  ASSUME NEW t \in [Publish -> PubRow], Grounded(t), NEW j
  PROVE  Grounded([t EXCEPT ![j].owned = FALSE])
<1> DEFINE row == [t[j] EXCEPT !.owned = FALSE]
           u == [t EXCEPT ![j] = row]
<1>1. j \in Publish => row.status = t[j].status /\ row.recov = t[j].recov
  BY DEF PubRow
<1>2. ASSUME NEW i \in Publish PROVE u[i] = IF i = j THEN row ELSE t[i]
  OBVIOUS
<1> HIDE DEF row, u
<1>3. Grounded(u)
  BY <1>1, <1>2 DEF Grounded, Unserved
<1> QED BY <1>3 DEF u, row

\* as it is when it is over,
LEMMA GroundedOver ==
  ASSUME PublishTypeOK, NEW j, NEW s \in Terminal,
         s = "finished" => Delivered(j), s = "failed" => Undelivered(j)
  PROVE  Grounded(Over(j, s)) /\ Grounded(Reconciled(j, s))
<1> DEFINE row == [EmptyPub EXCEPT !.status = s, !.file = pub[j].file]
<1>1. row.status = s
  BY DEF EmptyPub
<1>2. s \notin {"staging", "queued", "claiming", "resumable", "interrupted"} \union Holds
  BY DEF Terminal, Holds
<1> HIDE DEF row
<1>3. Grounded([pub EXCEPT ![j] = row])
  BY <1>1, <1>2, GroundedRow DEF Unserved
<1>4. Grounded(pub)
  BY DEF Grounded
<1> QED BY <1>3, <1>4 DEF Over, Reconciled, row

\* after a transition,
LEMMA GroundedPubAs ==
  ASSUME PublishTypeOK, NEW j \in Publish,
         NEW s \in {"finished", "failed", "cancelled", "queued", "resumable"},
         s = "finished" => Delivered(j), s \in {"failed", "resumable"} => Undelivered(j)
  PROVE  Grounded(PubAs(j, s))
<1>1. Grounded(pub)
  BY DEF Grounded
<1>2. CASE s \in Terminal
  BY <1>1, <1>2, GroundedOver DEF PubAs
<1>3. CASE s \notin Terminal /\ TransitionAllowed(pub[j].status, s)
  <2> DEFINE row == [pub[j] EXCEPT !.status = s]
  <2>1. row.status = s /\ row.recov = pub[j].recov
    BY <1>3 DEF PublishTypeOK, PubRow
  <2>2. s \in {"queued", "resumable"}
    BY <1>3 DEF Terminal
  <2>3. s = "queued" => Unserved(pub[j])
    BY <1>3 DEF TransitionAllowed, Unserved, Terminal, Holds
  <2> HIDE DEF row
  <2>4. Grounded([pub EXCEPT ![j] = row])
    BY <2>1, <2>2, <2>3, GroundedRow DEF Unserved
  <2> QED BY <1>3, <2>4 DEF PubAs, row
<1>4. CASE s \notin Terminal /\ ~TransitionAllowed(pub[j].status, s)
  BY <1>1, <1>4 DEF PubAs
<1> QED BY <1>2, <1>3, <1>4

\* when its runner is gone, which had not begun if the row cannot be recovered,
LEMMA GroundedInterrupted ==
  ASSUME PublishTypeOK, NEW j \in Publish, NEW r \in BOOLEAN, NEW e \in BOOLEAN,
         r \/ pub[j].status = "claiming"
  PROVE  Grounded(Interrupted(j, r, e)) /\ Grounded(FlightClosed(j, r, e))
<1> DEFINE row == [pub[j] EXCEPT !.status = "interrupted", !.recov = r, !.exited = e]
<1>0. Grounded(pub)
  BY DEF Grounded
<1>1. row.status = "interrupted" /\ row.recov = r
  BY DEF PublishTypeOK, PubRow
<1> HIDE DEF row
<1>3. Grounded(Interrupted(j, r, e))
  <2>1. Unserved(row) => Unserved(pub[j])
    BY <1>1 DEF Unserved, Holds
  <2>2. Grounded([pub EXCEPT ![j] = row])
    BY <1>1, <2>1, GroundedRow
  <2> QED BY <2>2 DEF Interrupted, row
<1>4. Grounded(CancelledInFlight(j))
  BY <1>0, GroundedOver DEF CancelledInFlight, Terminal
<1> QED BY <1>3, <1>4 DEF FlightClosed

\* and when it is run again.
LEMMA GroundedRetried ==
  ASSUME PublishTypeOK, NEW j \in Publish, Undelivered(j)
  PROVE  Grounded(Retried(j))
<1> DEFINE row == [pub[j] EXCEPT !.status = "queued", !.exited = FALSE, !.recov = FALSE,
                        !.attempt = pub[j].attempt + (IF pub[j].exited THEN 1 ELSE 0)]
<1>1. row.status = "queued"
  BY DEF PublishTypeOK, PubRow
<1> HIDE DEF row
<1>2. Grounded([pub EXCEPT ![j] = row])
  BY <1>1, GroundedRow
<1> QED BY <1>2 DEF Retried, row

\* A table with the statuses of the old one is grounded.
LEMMA GroundedSame ==
  ASSUME NEW t, \A i \in Publish : t[i].status = pub[i].status /\ t[i].recov = pub[i].recov
  PROVE  Grounded(t)
BY DEF Grounded, Unserved

\* A request claims nothing of an upload,
LEMMA GroundedByApi ==
  ASSUME Backing, Truth, ApiNext
  PROVE  Grounded(pub')
<1>t. PublishTypeOK /\ pub \in [Publish -> PubRow]
  BY DEF Backing, PublishBase, PublishTypeOK
<1>1. CASE UNCHANGED pub
  BY <1>1, GroundedSame
<1>2. CASE RequestPublish
  <2>1. ASSUME NEW f \in File, NEW j \in Publish, pub[j].status = "absent",
               pub' = [pub EXCEPT ![j] = [EmptyPub EXCEPT !.status = "staging", !.file = f,
                                                          !.owned = TRUE]]
        PROVE  Grounded(pub')
    <3> DEFINE row == [EmptyPub EXCEPT !.status = "staging", !.file = f, !.owned = TRUE]
    <3>1. row.status = "staging"
      BY DEF EmptyPub
    <3>2. Undelivered(j)
      BY <2>1 DEF Undelivered, Backing, JobsExist, HasFile, Publish, NoPublish
    <3> HIDE DEF row
    <3>3. Grounded([pub EXCEPT ![j] = row])
      BY <1>t, <2>1, <3>1, <3>2, GroundedRow
    <3> QED BY <2>1, <3>3 DEF row
  <2> QED BY <1>1, <1>2, <2>1 DEF RequestPublish
<1>3. CASE ActivateAttempt
  <2>1. Grounded(pub)
    BY GroundedSame
  <2> QED BY <1>1, <1>3, <1>t, <2>1, GroundedFlag DEF ActivateAttempt
<1>4. CASE EnqueuePublishJob
  <2>1. api.job \in Publish
    BY <1>4 DEF EnqueuePublishJob, ApiAt, Backing, PublishBase, ApiHasFile, HasFile
  <2>2. PubAs(api.job, "queued") \in [Publish -> PubRow] /\ Grounded(PubAs(api.job, "queued"))
    BY <1>t, <2>1, PubTypes, GroundedPubAs
  <2> QED BY <1>4, <2>2, GroundedFlag DEF EnqueuePublishJob
<1>5. CASE UnpublishJob \/ ApiDies
  <2>1. \A i \in Publish : pub'[i].status = pub[i].status /\ pub'[i].recov = pub[i].recov
    BY <1>5, <1>t DEF UnpublishJob, ApiDies, PubRow
  <2> QED BY <2>1, GroundedSame
<1> QED
  BY <1>1, <1>2, <1>3, <1>4, <1>5
     DEF ApiNext, Unpublish, UnpublishFile, ModeratePost, SoftDeletePost, DeleteRemoteFile,
         TrashRemoteFile, RemoteFileDeleted

\* What the community database says of an attempt is so.
LEMMA AttemptStateTrue ==
  ASSUME Backing, NEW j \in Publish, HasFile(j)
  PROVE  /\ AttemptState(pub[j].file, j) = "completed" => Delivered(j)
         /\ AttemptState(pub[j].file, j) \in {"failed", "active"} => Undelivered(j)
<1> DEFINE f == pub[j].file
<1>1. f \in File
  BY DEF Backing, PublishBase, PubFiles, HasFile
<1>2. AttemptState(f, j) = "completed" => file[f].job = j /\ file[f].status = "verified"
  BY DEF AttemptState, Linked
<1>3. AttemptState(f, j) \in {"failed", "active"} => file[f].status # "verified"
  BY DEF AttemptState, Live, Uploading
<1>4. \A g \in File : file[g].job = j => g = f
  BY DEF Backing, JobsExist, NoPublish, Publish
<1> HIDE DEF f
<1> QED BY <1>1, <1>2, <1>3, <1>4 DEF Delivered, Undelivered, f

\* a runner claims what it did,
LEMMA GroundedByRunner ==
  ASSUME Backing, Truth, RunnerNext \/ CommunityUnavailable \/ RunnerDies
  PROVE  Grounded(pub')
<1>t. PublishTypeOK /\ pub \in [Publish -> PubRow]
  BY DEF Backing, PublishBase, PublishTypeOK
<1>a. upload.job \in Publish /\ HasFile(upload.job)
  BY RunnerSteps DEF Backing, PublishBase, UploadHasFile, HasFile
<1>1. CASE UNCHANGED pub
  BY <1>1, GroundedSame
<1>2. CASE RunnerStarts
  <2> DEFINE row == [pub[upload.job] EXCEPT !.status = "running"]
  <2>1. row.status = "running"
    BY <1>a, <1>t DEF PubRow
  <2>2. UNCHANGED pub \/ pub' = [pub EXCEPT ![upload.job] = row]
    BY <1>2 DEF RunnerStarts
  <2> HIDE DEF row
  <2>3. ~Unserved(row)
    BY <2>1 DEF Unserved, Holds
  <2> QED BY <1>1, <1>t, <2>1, <2>2, <2>3, GroundedRow
<1>3. CASE RunnerInterrupts \/ CommunityUnavailable
  BY <1>3, <1>a, <1>t, GroundedInterrupted DEF RunnerInterrupts, CommunityUnavailable
<1>4. CASE FinishPublish \/ FailPublish
  <2>1. FinishPublish => Delivered(upload.job)
    BY DEF FinishPublish, RunnerAt, Truth, UploadTrue
  <2>2. FailPublish => Undelivered(upload.job)
    BY DEF FailPublish, RunnerAt, Truth, UploadTrue
  <2> QED BY <1>4, <1>a, <1>t, <2>1, <2>2, GroundedPubAs DEF FinishPublish, FailPublish
<1>5. CASE CancelPublish
  <2>1. Grounded(Over(upload.job, "cancelled")) /\ Grounded(pub)
    BY <1>t, GroundedOver, GroundedSame DEF Terminal
  <2> QED BY <1>5, <2>1 DEF CancelPublish, CancelledInFlight
<1>6. CASE UnexpectedFailure
  <2>1. \/ UNCHANGED pub
        \/ AttemptState(MyFile, upload.job) = "completed" /\ pub' = Reconciled(upload.job, "finished")
        \/ AttemptState(MyFile, upload.job) = "failed" /\ pub' = Reconciled(upload.job, "failed")
    BY <1>6 DEF UnexpectedFailure
  <2>2. /\ AttemptState(MyFile, upload.job) = "completed" => Delivered(upload.job)
        /\ AttemptState(MyFile, upload.job) = "failed" => Undelivered(upload.job)
    BY <1>a, AttemptStateTrue DEF MyFile
  <2> QED BY <1>1, <1>t, <2>1, <2>2, GroundedOver DEF Terminal
<1> QED
  BY <1>1, <1>2, <1>3, <1>4, <1>5, <1>6
     DEF RunnerNext, RunnerChecks, PreviousRemote, ReuseRemote, DropRemote, MarkUploading,
         OpenSession, LinkSession, UploadChunk, AdvanceUpload, BeginVerification, VerifyRemote,
         CompleteAttempt, DiscardRemote, InvalidateFile, RunnerFails, RunnerDies

\* and the worker what the community database said.
LEMMA GroundedByWorker ==
  ASSUME Backing, Truth, WorkerNext \/ WorkerStops \/ WorkerDies
  PROVE  Grounded(pub')
<1>t. PublishTypeOK /\ pub \in [Publish -> PubRow]
  BY DEF Backing, PublishBase, PublishTypeOK
<1>1. CASE UNCHANGED pub
  BY <1>1, GroundedSame
<1>2. CASE ReconcileStale
  BY <1>2, <1>t, GroundedInterrupted DEF ReconcileStale, Orphans
<1>3. CASE UploadExited \/ WorkerStopped
  <2> DEFINE r == pub[worker.job].status # "claiming"
  <2>1. worker.job \in Publish
    BY <1>3 DEF UploadExited, WorkerStopped, At, Backing, PublishBase, WorkerHasFile, HasFile
  <2>2. r \in BOOLEAN /\ (r \/ pub[worker.job].status = "claiming")
    OBVIOUS
  <2>3. pub' = FlightClosed(worker.job, r, TRUE) \/ pub' = FlightClosed(worker.job, TRUE, FALSE)
    BY <1>3 DEF UploadExited, WorkerStopped
  <2> HIDE DEF r
  <2> QED BY <1>t, <2>1, <2>2, <2>3, GroundedInterrupted
<1>4. CASE SettlePublish
  <2> DEFINE w == worker.job
             v == worker.verdict
  <2>1. /\ w \in Publish
        /\ v = "completed" => Delivered(w)
        /\ v \in {"failed", "queue", "refuse", "refuse_live", "retry"} => Undelivered(w)
    BY <1>4 DEF SettlePublish, At, Backing, PublishBase, WorkerHasFile, HasFile, Truth, WorkerTrue
  <2>2. \/ UNCHANGED pub
        \/ v = "completed" /\ pub' = Reconciled(w, "finished")
        \/ v = "failed" /\ pub' = Reconciled(w, "failed")
        \/ v = "queue" /\ pub' = [PubAs(w, "queued") EXCEPT ![w].owned = FALSE]
        \/ v = "retry" /\ (pub' = PubAs(w, "resumable") \/ pub' = Retried(w))
        \/ v \in {"refuse", "refuse_live"} /\ (pub' = PubAs(w, "failed") \/ pub' = PubAs(w, "cancelled"))
        \/ pub' = PubAs(w, "cancelled")
    BY <1>4 DEF SettlePublish
  <2> HIDE DEF w, v
  <2>3. PubAs(w, "queued") \in [Publish -> PubRow] /\ Grounded(PubAs(w, "queued"))
    BY <1>t, <2>1, PubTypes, GroundedPubAs
  <2>4. Grounded([PubAs(w, "queued") EXCEPT ![w].owned = FALSE])
    BY <2>3, GroundedFlag
  <2>5. Grounded(PubAs(w, "cancelled"))
    BY <1>t, <2>1, GroundedPubAs
  <2>6. /\ v = "completed" => Grounded(Reconciled(w, "finished"))
        /\ v = "failed" => Grounded(Reconciled(w, "failed"))
    BY <1>t, <2>1, GroundedOver DEF Terminal
  <2>7. v = "retry" => Grounded(PubAs(w, "resumable")) /\ Grounded(Retried(w))
    BY <1>t, <2>1, GroundedPubAs, GroundedRetried
  <2>8. v \in {"refuse", "refuse_live"} => Grounded(PubAs(w, "failed"))
    BY <1>t, <2>1, GroundedPubAs
  <2> QED BY <1>1, <2>2, <2>4, <2>5, <2>6, <2>7, <2>8
<1>5. CASE ClaimPublish
  <2>1. PICK j \in Publish : pub[j].status = "queued" /\ pub' = [pub EXCEPT ![j].status = "claiming"]
    BY <1>5 DEF ClaimPublish
  <2> DEFINE row == [pub[j] EXCEPT !.status = "claiming"]
  <2>2. row.status = "claiming" /\ Unserved(pub[j])
    BY <1>t, <2>1 DEF PubRow, Unserved
  <2>3. pub' = [pub EXCEPT ![j] = row]
    BY <2>1
  <2> HIDE DEF row
  <2> QED BY <1>t, <2>2, <2>3, GroundedRow
<1> QED
  BY <1>1, <1>2, <1>3, <1>4, <1>5
     DEF WorkerNext, ReadAttempt, ActOnAttempt, SpawnUpload, WorkerStarts, WorkerStops, WorkerDies

\* Nobody else writes the row of a runner that delivers.
LEMMA RunningRowStays ==
  ASSUME Backing, Truth, ApiNext \/ WorkerNext \/ WorkerStops \/ WorkerDies, RunnerAlive',
         upload'.pc = upload.pc, upload'.job = upload.job, pub[upload.job].status = "running"
  PROVE  pub'[upload.job].status = "running"
<1> PICK j : j = upload.job
  OBVIOUS
<1>t. PublishTypeOK /\ pub \in [Publish -> PubRow] /\ RunnerAlive /\ j \in Publish
  BY DEF Backing, PublishBase, PublishTypeOK, RunnerAlive, UploadHasFile, HasFile
<1>r. pub[j].status = "running"
  OBVIOUS
<1>1. CASE UNCHANGED pub
  BY <1>1, <1>r
<1>2. CASE RequestPublish
  <2>1. UNCHANGED pub \/ \E i \in Publish : \E row : pub[i].status = "absent" /\ pub' = [pub EXCEPT ![i] = row]
    BY <1>2 DEF RequestPublish
  <2> QED BY <1>t, <1>r, <2>1
<1>3. CASE ActivateAttempt \/ UnpublishJob \/ ApiDies
  BY <1>3, <1>t, <1>r DEF ActivateAttempt, UnpublishJob, ApiDies, PubRow
<1>4. CASE EnqueuePublishJob
  <2>1. PubAs(api.job, "queued")[j] = pub[j]
    <3>1. api.job # j => PubAs(api.job, "queued")[j] = pub[j]
      BY <1>t, <1>4, ClosedRows DEF EnqueuePublishJob, ApiAt, Backing, PublishBase, ApiHasFile,
                                   HasFile, Status
    <3>2. api.job = j => PubAs(api.job, "queued") = pub
      BY <1>r DEF PubAs, TransitionAllowed, Holds
    <3> QED BY <3>1, <3>2
  <2>2. PubAs(api.job, "queued") \in [Publish -> PubRow]
    BY <1>t, PubTypes
  <2> QED BY <1>t, <1>r, <1>4, <2>1, <2>2 DEF EnqueuePublishJob, PubRow
<1>5. CASE SettlePublish
  <2> DEFINE w == worker.job
  <2>1. w \in Publish /\ w # j
    BY <1>t, <1>5 DEF SettlePublish, At, Backing, PublishBase, WorkerHasFile, HasFile, Truth,
                      WorkerTrue
  <2>2. \/ \E s \in Status : pub' = PubAs(w, s) \/ pub' = Reconciled(w, s)
        \/ pub' = [PubAs(w, "queued") EXCEPT ![w].owned = FALSE]
        \/ pub' = Retried(w) \/ UNCHANGED pub
    BY <1>5 DEF SettlePublish, Status, Terminal
  <2> HIDE DEF w
  <2>3. PubAs(w, "queued") \in [Publish -> PubRow] /\ PubAs(w, "queued")[j] = pub[j]
    BY <1>t, <2>1, PubTypes, ClosedRows DEF Status
  <2>4. CASE \E s \in Status : pub' = PubAs(w, s) \/ pub' = Reconciled(w, s)
    BY <1>t, <1>r, <2>1, <2>4, ClosedRows
  <2>5. CASE pub' = [PubAs(w, "queued") EXCEPT ![w].owned = FALSE]
    BY <1>t, <1>r, <2>1, <2>3, <2>5
  <2>6. CASE pub' = Retried(w) \/ UNCHANGED pub
    BY <1>t, <1>r, <2>1, <2>6 DEF Retried
  <2> QED BY <2>2, <2>4, <2>5, <2>6
<1>6. CASE ClaimPublish
  <2>1. PICK i \in Publish : pub[i].status = "queued" /\ pub' = [pub EXCEPT ![i].status = "claiming"]
    BY <1>6 DEF ClaimPublish
  <2>2. i # j
    BY <1>r, <2>1
  <2> QED BY <1>t, <1>r, <2>1, <2>2
<1>7. ~ReconcileStale /\ ~UploadExited /\ ~WorkerStopped
  <2>1. upload' # NoUpload
    BY DEF NoUpload, RunnerAlive
  <2> QED BY <2>1 DEF ReconcileStale, UploadExited, WorkerStopped
<1> QED
  BY <1>1, <1>2, <1>3, <1>4, <1>5, <1>6, <1>7
     DEF ApiNext, Unpublish, UnpublishFile, ModeratePost, SoftDeletePost, DeleteRemoteFile,
         TrashRemoteFile, RemoteFileDeleted, WorkerNext, ReadAttempt, ActOnAttempt, SpawnUpload,
         WorkerStarts, WorkerStops, WorkerDies

\* A runner comes to where it delivers from its claimed row only, keeps its row from there
\* on, and is done only by completing or by failing its attempt.
LEMMA DeliveryPcs ==
  ASSUME Backing, RunnerNext \/ CommunityUnavailable \/ RunnerDies,
         upload'.pc \in Delivering \union {"finish", "failed"}
  PROVE  \/ upload'.pc \in Delivering /\ pub'[upload.job].status = "running"
         \/ upload'.pc \in Delivering /\ upload.pc \in Delivering /\ UNCHANGED pub
         \/ CompleteAttempt /\ upload'.pc = "finish"
         \/ RunnerFails /\ upload'.pc = "failed"
<1>b. upload \in UploadState
  BY DEF Backing, PublishBase, PublishTypeOK
<1>x. ~RunnerExits
  BY DEF RunnerExits, NoUpload, Delivering
<1> USE DEF Delivering
<1>1. CASE RunnerStarts
  <2>1. upload.job \in Publish
    BY <1>1, MyFileIsFile DEF Backing, RunnerStarts, RunnerAt, RunnerAlive
  <2>2. ~RunnerGoto("abort") /\ ~RunnerGoto("error")
    BY <1>b DEF RunnerGoto, UploadState
  <2>3. RunnerGoto("snapshot") /\ pub' = [pub EXCEPT ![upload.job].status = "running"]
    BY <1>1, <1>x, <2>2 DEF RunnerStarts
  <2>4. pub'[upload.job].status = "running"
    BY <2>1, <2>3 DEF Backing, PublishBase, PublishTypeOK, PubRow
  <2>5. upload'.pc = "snapshot"
    BY <1>b, <2>3, RunnerGoes
  <2> QED BY <2>4, <2>5
<1>2. CASE \/ RunnerChecks \/ PreviousRemote \/ ReuseRemote \/ DropRemote \/ MarkUploading
           \/ OpenSession \/ LinkSession \/ UploadChunk \/ AdvanceUpload \/ BeginVerification
           \/ VerifyRemote
  <2>1. upload.pc \in Delivering /\ UNCHANGED pub
    BY <1>2 DEF RunnerChecks, PreviousRemote, ReuseRemote, DropRemote, MarkUploading, OpenSession,
                LinkSession, UploadChunk, AdvanceUpload, BeginVerification, VerifyRemote, RunnerAt
  <2>2. upload'.pc \notin {"finish", "failed"}
    <3>1. CASE PreviousRemote \/ OpenSession
      <4>1. upload'.pc \in {"reuse", "link"} \/ RunnerGoto("mark") \/ RunnerGoto("drop") \/ RunnerGoto("error")
        BY <1>b, <3>1 DEF PreviousRemote, OpenSession, UploadState
      <4> QED BY <1>b, <4>1, RunnerGoes
    <3>2. CASE RunnerChecks
      BY <1>b, <3>2 DEF RunnerChecks, Checked, RunnerGoto, UploadState
    <3>3. CASE ReuseRemote \/ MarkUploading \/ BeginVerification
      BY <1>b, <3>3 DEF ReuseRemote, MarkUploading, BeginVerification, UpdateFile, RunnerGoto,
                        UploadState
    <3>4. CASE DropRemote \/ UploadChunk \/ VerifyRemote \/ LinkSession \/ AdvanceUpload
      BY <1>b, <3>4 DEF DropRemote, UploadChunk, VerifyRemote, LinkSession, AdvanceUpload,
                        RunnerGoto, UploadState
    <3> QED BY <1>2, <3>1, <3>2, <3>3, <3>4
  <2> QED BY <2>1, <2>2
<1>3. CASE CompleteAttempt
  BY <1>b, <1>3 DEF CompleteAttempt, RunnerGoto, UploadState
<1>4. CASE RunnerFails
  BY <1>b, <1>4 DEF RunnerFails, RunnerGoto, UploadState
<1>5. ~DiscardRemote /\ ~InvalidateFile
  BY <1>b DEF DiscardRemote, InvalidateFile, RunnerGoto, UploadState
<1>6. ~UnexpectedFailure
  <2>1. UnexpectedFailure => RunnerGoto("fail") \/ RunnerExits
    BY DEF UnexpectedFailure
  <2> QED BY <1>b, <1>x, <2>1, RunnerGoes
<1>7. ~RunnerInterrupts /\ ~CommunityUnavailable /\ ~RunnerDies /\ ~FinishPublish
      /\ ~CancelPublish /\ ~FailPublish
  BY <1>x DEF RunnerInterrupts, CommunityUnavailable, RunnerDies, FinishPublish, CancelPublish,
              FailPublish
<1> QED BY <1>1, <1>2, <1>3, <1>4, <1>5, <1>6, <1>7 DEF RunnerNext

\* The rows stay true,
LEMMA RowsTrueStep ==
  ASSUME Backing, Truth, PublishNext
  PROVE  RowsTrue'
<1>1. Grounded(pub')
  BY GroundedByApi, GroundedByRunner, GroundedByWorker DEF PublishNext
<1> SUFFICES ASSUME NEW j \in Publish
             PROVE  /\ pub'[j].status = "finished" => Delivered(j)'
                    /\ Unserved(pub'[j]) => Undelivered(j)'
  BY DEF RowsTrue, Unserved
<1>2. /\ pub'[j].status = "finished" => Delivered(j)
      /\ Unserved(pub'[j]) => Undelivered(j)
  BY <1>1 DEF Grounded, Truth, RowsTrue
<1>3. CASE CompleteAttempt /\ j = upload.job
  <2>1. pub'[j].status = "running"
    BY <1>3 DEF CompleteAttempt, RunnerAt, Truth, UploadTrue, Delivering
  <2> QED BY <2>1 DEF Unserved, Holds
<1>4. CASE ~(CompleteAttempt /\ j = upload.job)
  BY <1>2, <1>4, DeliveredStays, UndeliveredStays
<1> QED BY <1>3, <1>4

\* so does what a runner says,
LEMMA UploadTrueStep ==
  ASSUME Backing, Truth, PublishNext
  PROVE  UploadTrue'
<1>b. upload \in UploadState
  BY DEF Backing, PublishBase, PublishTypeOK
<1> PICK j : j = upload'.job
  OBVIOUS
<1> SUFFICES /\ upload'.pc \in Delivering => pub'[j].status = "running"
             /\ upload'.pc = "finish" => Delivered(j)'
             /\ upload'.pc = "failed" => Undelivered(j)'
  BY DEF UploadTrue, Delivered, Undelivered
<1>1. CASE RunnerNext \/ CommunityUnavailable \/ RunnerDies
  <2> SUFFICES ASSUME upload'.pc \in Delivering \union {"finish", "failed"}
               PROVE  /\ upload'.pc \in Delivering => pub'[j].status = "running"
                      /\ upload'.pc = "finish" => Delivered(j)'
                      /\ upload'.pc = "failed" => Undelivered(j)'
    OBVIOUS
  <2>1. j = upload.job /\ RunnerAlive /\ MyFile \in File
    BY <1>1, RunnerSteps, MyFileIsFile DEF Backing, Delivering
  <2>2. CASE upload'.pc \in Delivering
    BY <1>1, <2>1, <2>2, DeliveryPcs DEF Truth, UploadTrue, Delivering
  <2>3. CASE CompleteAttempt /\ upload'.pc = "finish"
    <3>1. Linked(MyFile, j) /\ file' = FileAs(MyFile, "verified")
      <4>1. ~RunnerGoto("error") /\ ~RunnerGoto("abort")
        BY <1>b, <2>3 DEF RunnerGoto, UploadState
      <4> QED BY <2>1, <2>3, <4>1 DEF CompleteAttempt, Completable
    <3>2. file'[MyFile].job = j /\ file'[MyFile].status = "verified"
      BY <2>1, <3>1 DEF FileAs, Linked, Backing, PublishBase, PublishTypeOK, FileRow
    <3> QED BY <2>1, <2>3, <3>2 DEF Delivered, Delivering
  <2>4. CASE RunnerFails /\ upload'.pc = "failed"
    <3>1. Live(MyFile, j)
      <4>1. ~RunnerGoto("cancel")
        BY <1>b, <2>4 DEF RunnerGoto, UploadState
      <4> QED BY <2>1, <2>4, <4>1 DEF RunnerFails
    <3>2. Undelivered(j)
      BY <2>1, <3>1 DEF Undelivered, Live, Linked, Uploading, Backing, JobsExist, MyFile,
                        NoPublish, PublishBase, UploadHasFile, HasFile, Publish
    <3>3. upload.pc = "fail"
      BY <2>4 DEF RunnerFails, RunnerAt
    <3> QED BY <2>4, <3>2, <3>3, UndeliveredStays DEF CompleteAttempt, RunnerAt, Delivering
  <2> QED BY <1>1, <2>2, <2>3, <2>4, DeliveryPcs
<1>2. CASE ApiNext \/ WorkerNext \/ WorkerStops \/ WorkerDies
  <2>1. ~CompleteAttempt
    <3>1. CompleteAttempt => upload'.pc \in {"error", "finish", "abort"}
      BY <1>b DEF CompleteAttempt, RunnerGoto, UploadState
    <3>2. CompleteAttempt => upload.pc = "complete"
      BY DEF CompleteAttempt, RunnerAt
    <3> QED BY <1>2, <1>b, <3>1, <3>2, RunnerLeftAlone
  <2>2. CASE upload'.pc = upload.pc /\ upload'.job = upload.job
    <3>1. /\ upload.pc \in Delivering => pub[j].status = "running"
          /\ upload.pc = "finish" => Delivered(j)
          /\ upload.pc = "failed" => Undelivered(j)
      BY <2>2 DEF Truth, UploadTrue
    <3>2. upload.pc \in Delivering => pub'[j].status = "running"
      BY <1>2, <2>2, <3>1, RunningRowStays DEF RunnerAlive, Delivering
    <3> QED BY <2>1, <2>2, <3>1, <3>2, DeliveredStays, UndeliveredStays
  <2>3. CASE upload'.pc \in {"off", "start"}
    BY <2>3 DEF Delivering
  <2> QED BY <1>2, <1>b, <2>2, <2>3, RunnerLeftAlone
<1> QED BY <1>1, <1>2 DEF PublishNext

\* What the worker reads of an attempt is so,
LEMMA ReadAttemptTrue ==
  ASSUME Backing, Truth, ReadAttempt
  PROVE  /\ worker'.verdict = "completed" => Delivered(worker'.job)
         /\ worker'.verdict \in {"failed", "queue", "refuse", "refuse_live", "retry"} =>
              Undelivered(worker'.job)
         /\ RunnerAlive' => upload'.job # worker'.job
<1> PICK j \in Publish :
      \/ /\ pub[j].status = "staging"
         /\ worker' = [pc |-> "act", job |-> j, verdict |-> StagedVerdict(j)]
         /\ UNCHANGED upload
      \/ /\ j \in Unsettled
         /\ worker' = [pc |-> "act", job |-> j, verdict |-> InterruptedVerdict(j)]
         /\ upload' = IF upload.job = j THEN NoUpload ELSE upload
  BY DEF ReadAttempt
<1>1. HasFile(j)
  BY DEF HasFile, Unsettled
<1> DEFINE state == AttemptState(pub[j].file, j)
<1>2. /\ state = "completed" => Delivered(j)
      /\ state \in {"failed", "active"} => Undelivered(j)
  BY <1>1, AttemptStateTrue
<1>3. state \in {"active", "completed", "failed", "invalid"}
  BY DEF AttemptState
<1>4. CASE /\ worker' = [pc |-> "act", job |-> j, verdict |-> StagedVerdict(j)] /\ UNCHANGED upload
           /\ pub[j].status = "staging"
  <2>1. StagedVerdict(j) = (CASE state = "active" -> "queue" [] state = "invalid" -> "unlinked"
                              [] OTHER -> state)
    BY DEF StagedVerdict
  <2>2. /\ StagedVerdict(j) = "completed" => state = "completed"
        /\ StagedVerdict(j) \in {"failed", "queue", "refuse", "refuse_live", "retry"} =>
             state \in {"failed", "active"}
    BY <1>3, <2>1
  <2>3. RunnerAlive' => upload'.job # j
    BY <1>4 DEF Truth, WorkerTrue, RunnerAlive
  <2> QED BY <1>2, <1>4, <2>2, <2>3
<1>5. CASE /\ worker' = [pc |-> "act", job |-> j, verdict |-> InterruptedVerdict(j)]
           /\ upload' = (IF upload.job = j THEN NoUpload ELSE upload) /\ j \in Unsettled
  <2>1. /\ InterruptedVerdict(j) = "completed" => state = "completed"
        /\ InterruptedVerdict(j) \in {"failed", "queue", "refuse_live", "retry"} =>
             state \in {"failed", "active"}
        /\ InterruptedVerdict(j) = "refuse" => ~Recoverable(j)
    BY <1>3 DEF InterruptedVerdict
  <2>2. ~Recoverable(j) => Undelivered(j)
    BY <1>5 DEF Recoverable, Unsettled, Truth, RowsTrue, Unserved
  <2>3. RunnerAlive' => upload'.job # j
    BY <1>5 DEF RunnerAlive, NoUpload
  <2> HIDE DEF state
  <2> QED BY <1>2, <1>5, <2>1, <2>2, <2>3
<1> QED BY <1>4, <1>5

\* and so is what it decides on it until it has written the row.
LEMMA WorkerTrueStep ==
  ASSUME Backing, Truth, PublishNext
  PROVE  WorkerTrue'
<1>b. PublishBase /\ upload \in UploadState /\ worker \in WorkerState
  BY DEF Backing, PublishBase, PublishTypeOK
<1>1. ASSUME NEW j, HasFile(j), pub[j].status # "staging"
      PROVE  pub'[j].status # "staging"
  <2>1. Grounded(pub')
    BY GroundedByApi, GroundedByRunner, GroundedByWorker DEF PublishNext
  <2> QED BY <1>1, <2>1 DEF Grounded, HasFile
<1>2. CASE ApiNext \/ RunnerNext \/ CommunityUnavailable \/ RunnerDies
  <2>1. UNCHANGED worker /\ (RunnerAlive' => RunnerAlive /\ upload'.job = upload.job)
    <3>1. ApiNext => UNCHANGED <<worker, upload>>
      BY Frames
    <3>2. RunnerNext \/ CommunityUnavailable \/ RunnerDies => UNCHANGED worker
      BY Frames
    <3> QED BY <1>2, <1>b, <3>1, <3>2, RunnerSteps DEF RunnerAlive
  <2>2. RunnerAlive' => pub'[upload'.job].status # "staging"
    BY <1>1, <1>b, <2>1 DEF Truth, WorkerTrue, PublishBase, UploadHasFile
  <2>3. At("spawn")' => pub'[worker'.job].status # "staging"
    BY <1>1, <1>b, <2>1 DEF Truth, WorkerTrue, PublishBase, WorkerHasFile, At
  <2> PICK j : j = worker.job
    OBVIOUS
  <2>4. ASSUME worker.pc \in {"act", "settle"}
        PROVE  /\ RunnerAlive' => upload'.job # j
               /\ worker.verdict = "completed" => Delivered(j)'
               /\ worker.verdict \in {"failed", "queue", "refuse", "refuse_live", "retry"} =>
                    Undelivered(j)'
    <3>1. /\ RunnerAlive => upload.job # j
          /\ worker.verdict = "completed" => Delivered(j)
          /\ worker.verdict \in {"failed", "queue", "refuse", "refuse_live", "retry"} =>
               Undelivered(j)
      BY <2>4 DEF Truth, WorkerTrue, At
    <3>2. ~(CompleteAttempt /\ j = upload.job)
      BY <3>1 DEF CompleteAttempt, RunnerAt, RunnerAlive
    <3>3. /\ worker.verdict = "completed" => Delivered(j)'
          /\ worker.verdict \in {"failed", "queue", "refuse", "refuse_live", "retry"} =>
               Undelivered(j)'
      BY <3>1, <3>2, DeliveredStays, UndeliveredStays
    <3> QED BY <2>1, <3>1, <3>3
  <2> QED BY <2>1, <2>2, <2>3, <2>4 DEF WorkerTrue, At, Delivered, Undelivered
<1>3. CASE WorkerNext \/ WorkerStops \/ WorkerDies
  <2>0. ~CompleteAttempt
    <3>1. CompleteAttempt => UNCHANGED worker /\ upload'.pc \in {"error", "finish", "abort"}
                             /\ upload.pc = "complete"
      BY <1>b DEF CompleteAttempt, RunnerAt, RunnerGoto, UploadState
    <3> QED BY <1>3, <1>b, <3>1, RunnerLeftAlone
  <2>1. RunnerAlive' => pub'[upload'.job].status # "staging"
    <3>1. CASE SpawnUpload
      <4>1. upload'.job = worker.job /\ At("spawn")
        BY <3>1 DEF SpawnUpload, NoUpload
      <4> QED BY <1>1, <1>b, <4>1 DEF Truth, WorkerTrue, PublishBase, WorkerHasFile, At
    <3>2. CASE ~SpawnUpload
      <4>1. RunnerAlive' => RunnerAlive /\ upload'.job = upload.job
        <5>1. CASE UNCHANGED upload
          BY <5>1 DEF RunnerAlive
        <5>2. CASE upload' = NoUpload
          BY <5>2 DEF RunnerAlive, NoUpload
        <5>3. CASE WorkerStops
          BY <1>b, <5>3 DEF WorkerStops, RunnerAlive, UploadState
        <5> QED
          BY <1>3, <3>2, <5>1, <5>2, <5>3
             DEF WorkerNext, WorkerDies, ReconcileStale, ReadAttempt, ActOnAttempt, SettlePublish,
                 ClaimPublish, UploadExited, WorkerStopped, WorkerStarts
      <4> QED BY <1>1, <1>b, <4>1 DEF Truth, WorkerTrue, PublishBase, UploadHasFile
    <3> QED BY <3>1, <3>2
  <2>2. At("spawn")' => pub'[worker'.job].status # "staging"
    <3>1. CASE ClaimPublish
      BY <1>b, <3>1 DEF ClaimPublish, WorkerAt, PublishBase, PublishTypeOK, PubRow
    <3>2. CASE UNCHANGED worker
      BY <1>1, <1>b, <3>2 DEF Truth, WorkerTrue, PublishBase, WorkerHasFile, At
    <3>3. CASE ~ClaimPublish /\ ~UNCHANGED worker
      <4>1. \/ worker' \in {WorkerAt("poll"), WorkerAt("down")}
            \/ ReadAttempt \/ ActOnAttempt \/ SpawnUpload \/ WorkerStops
        BY <1>3, <3>3
           DEF WorkerNext, WorkerDies, ReconcileStale, SettlePublish, UploadExited, WorkerStopped,
               WorkerStarts, WorkerGoto
      <4>2. worker'.pc # "spawn"
        BY <1>b, <4>1 DEF ReadAttempt, ActOnAttempt, SpawnUpload, WorkerStops, WorkerAt, WorkerState
      <4> QED BY <4>2 DEF At
    <3> QED BY <3>1, <3>2, <3>3
  <2> PICK j : j = worker'.job
    OBVIOUS
  <2>3. ASSUME worker'.pc \in {"act", "settle"}
        PROVE  /\ RunnerAlive' => upload'.job # j
               /\ worker'.verdict = "completed" => Delivered(j)
               /\ worker'.verdict \in {"failed", "queue", "refuse", "refuse_live", "retry"} =>
                    Undelivered(j)
    <3>1. CASE ReadAttempt
      BY <3>1, ReadAttemptTrue
    <3>2. CASE ActOnAttempt \/ UNCHANGED worker
      <4>1. /\ worker.pc \in {"act", "settle"} /\ worker'.job = worker.job
            /\ worker'.verdict = worker.verdict
        BY <1>b, <2>3, <3>2 DEF ActOnAttempt, At, WorkerState
      <4>2. RunnerAlive' => RunnerAlive /\ upload'.job = upload.job
        <5>1. UNCHANGED upload \/ upload' = NoUpload
          BY <1>3, <2>3, <4>1
             DEF WorkerNext, WorkerDies, WorkerStops, ReconcileStale, ReadAttempt, ActOnAttempt,
                 SettlePublish, ClaimPublish, SpawnUpload, UploadExited, WorkerStopped, WorkerStarts, At
        <5> QED BY <5>1 DEF RunnerAlive, NoUpload
      <4> QED BY <4>1, <4>2 DEF Truth, WorkerTrue, At
    <3> QED BY <1>3, <1>b, <2>3, <3>1, <3>2, WorkerPcs
  <2>4. ASSUME worker'.pc \in {"act", "settle"}
        PROVE  /\ worker'.verdict = "completed" => Delivered(j)'
               /\ worker'.verdict \in {"failed", "queue", "refuse", "refuse_live", "retry"} =>
                    Undelivered(j)'
    BY <2>0, <2>3, <2>4, DeliveredStays, UndeliveredStays
  <2> QED BY <2>1, <2>2, <2>3, <2>4 DEF WorkerTrue, At, Delivered, Undelivered
<1> QED BY <1>2, <1>3 DEF PublishNext

\* All of it is inductive, and so it always is.
LEMMA TruthStep ==
  ASSUME Backing, Truth, [PublishNext]_publishVars
  PROVE  Truth'
<1>1. CASE PublishNext
  BY <1>1, RowsTrueStep, UploadTrueStep, WorkerTrueStep DEF Truth
<1>2. CASE UNCHANGED publishVars
  BY <1>2 DEF publishVars, Truth, RowsTrue, UploadTrue, WorkerTrue, Delivered, Undelivered,
              Unserved, RunnerAlive, At
<1> QED BY <1>1, <1>2

\* What a finished or failed publish job says of its upload is true, whichever of the
\* runner, its worker and the recovery of a later worker wrote the row, and whatever died
\* between the community database and the row.
THEOREM TrueJobs == PublishSpec => []JobsTellTheTruth
<1>1. Backing /\ Truth => JobsTellTheTruth
  <2> SUFFICES ASSUME Backing, Truth, NEW j \in Publish
               PROVE  /\ pub[j].status = "finished" =>
                           /\ file[pub[j].file].job = j
                           /\ file[pub[j].file].status \in {"verified", "deleting", "deleted"}
                      /\ pub[j].status = "failed" =>
                           ~(file[pub[j].file].job = j /\ file[pub[j].file].status = "verified")
    BY DEF JobsTellTheTruth
  <2>1. \A f \in File : file[f].job = j => f = pub[j].file
    BY DEF Backing, JobsExist, NoPublish, Publish
  <2>2. pub[j].status = "failed" => pub[j].file \in File
    BY DEF Backing, PublishBase, PubFiles
  <2> QED BY <2>1, <2>2 DEF Truth, RowsTrue, Unserved, Delivered, Undelivered
<1>2. PublishSpec => []Truth
  <2>1. Backing /\ Truth /\ [PublishNext]_publishVars => Truth'
    BY TruthStep
  <2> QED BY <2>1, TruthInit, BackingAlways, PTL DEF PublishSpec
<1> QED BY <1>1, <1>2, BackingAlways, PTL

===============================================================================
