--------------------------- MODULE CommunityPublish ---------------------------
(***************************************************************************)
(* Publication of a finished chapter: the owner's and the moderator's      *)
(* requests (community_service.py), the upload runner                      *)
(* (community_publish_runner.py), the worker that starts and recovers it   *)
(* (worker_service.py), and the two databases and the storage provider     *)
(* they share.  No transaction spans community.sqlite3, jobs.sqlite3 and   *)
(* the provider, and any of the three processes may die between two of     *)
(* them: one action is one transaction or one provider call.               *)
(*                                                                         *)
(* The answers of the provider and of the publication metadata service     *)
(* are not determined here: every call may fail.                           *)
(***************************************************************************)
EXTENDS Naturals, FiniteSets, JobStatus

CONSTANTS
  Post,        \* publications
  Sha,         \* contents the owner may publish
  MaxPublish,  \* bound: number of publish jobs ever created
  MaxRemote,   \* bound: number of upload sessions ever opened
  MaxOutage,   \* bound: number of process deaths, worker stops and database failures
  MaxAttempt,  \* COMMUNITY_RUNNER_MAX_ATTEMPTS
  Demands,     \* sets of requests <<operation, post>>; a behaviour makes those of one set
  NoFile, NoRemote

ASSUME PublishAssumption ==
  /\ MaxPublish \in Nat /\ MaxRemote \in Nat /\ MaxOutage \in Nat
  /\ MaxAttempt \in Nat \ {0}
  /\ Demands \subseteq SUBSET ({"publish", "unpublish", "moderate", "delete", "trash"} \X Post)
  /\ NoFile \notin Post \X Sha
  /\ NoRemote \notin Nat

File == Post \X Sha          \* rows of community_files, one per (post, sha)
Publish == 1 .. MaxPublish   \* publish jobs, numbered by created_at
Remote == 1 .. MaxRemote     \* files of the storage provider
NoPublish == 0

VARIABLES
  post,       \* post[p]: status, moderation_status and deleted_at
  file,       \* file[f]: upload_status, upload_job_id, storage_file_id, session_ref
  latest,     \* latest[p]: the post's most recently created file
  remote,     \* remote[r]: what the provider holds; "unusable" is in part, or no more
  pub,        \* pub[j]: the row of publish job j in the jobs table
  api,        \* the request holding the API's _community_lock
  worker,     \* the worker process
  upload,     \* the runner process of the job the worker started
  earlyId,    \* whether the provider names a file when its session opens
  asked,      \* what users and moderators ask for, fixed at the start
  outages,    \* process deaths and stops so far
  withdrawn   \* history: jobs whose post left PUBLISHING by another's hand

publishVars == <<post, file, latest, remote, pub, api, worker, upload, earlyId, asked,
                 outages, withdrawn>>

(***************************************************************************)
(* State.                                                                  *)
(***************************************************************************)

PostStatus == {"draft", "publishing", "published", "unpublished", "blocked",
               "failed", "deleted"}
Uploading == {"pending", "uploading", "verifying"}
FileStatus == Uploading \union {"verified", "failed", "deleting", "deleted"}

EmptyFile == [status |-> "none", job |-> NoPublish, ref |-> NoRemote, session |-> FALSE]

EmptyPub == [status |-> "absent", file |-> NoFile, cancel |-> FALSE, owned |-> FALSE,
             recov |-> FALSE, exited |-> FALSE, attempt |-> 1]

ApiIdle == [pc |-> "idle", file |-> NoFile, job |-> NoPublish]
WorkerAt(pc) == [pc |-> pc, job |-> NoPublish, verdict |-> "none"]
NoUpload == [pc |-> "off", job |-> NoPublish, ref |-> NoRemote, stop |-> FALSE]

PublishInit ==
  /\ post = [p \in Post |-> [status |-> "draft", mod |-> "pending", gone |-> FALSE]]
  /\ file = [f \in File |-> EmptyFile]
  /\ latest = [p \in Post |-> NoFile]
  /\ remote = [r \in Remote |-> "unused"]
  /\ pub = [j \in Publish |-> EmptyPub]
  /\ api = ApiIdle
  /\ worker = WorkerAt("poll")
  /\ upload = NoUpload
  /\ earlyId \in BOOLEAN /\ asked \in Demands
  /\ outages = 0
  /\ withdrawn = {}

(***************************************************************************)
(* The community database.                                                 *)
(***************************************************************************)

Linked(f, j) == latest[f[1]] = f /\ file[f].job = j

Live(f, j) ==
  Linked(f, j) /\ post[f[1]].status = "publishing" /\ file[f].status \in Uploading

\* publish_attempt_state
AttemptState(f, j) ==
  CASE Live(f, j) -> "active"
    [] /\ Linked(f, j) /\ post[f[1]].status = "published"
       /\ file[f].status = "verified" /\ file[f].ref # NoRemote -> "completed"
    [] /\ Linked(f, j) /\ post[f[1]].status = "failed"
       /\ file[f].status = "failed" -> "failed"
    [] OTHER -> "invalid"

BugBlockingSha(p, s) ==
  \E q \in Post \ {p} : post[q].status = "published" /\ file[<<q, s>>].status = "verified"

\* blocking_sha_exists: a live or completed upload of another post
BlockingSha(p, s) ==
  \E q \in Post \ {p} :
    \/ post[q].status = "published" /\ file[<<q, s>>].status = "verified"
    \/ post[q].status = "publishing" /\ file[<<q, s>>].status \in Uploading

\* _classify_publish_attempt; "none" lets the attempt go on
Classify(f) ==
  LET p == f[1]
      active == {g \in File : g[1] = p /\ file[g].status \in Uploading} IN
  IF post[p].status \in {"blocked", "deleted"} THEN "not_publishable"
  ELSE IF BlockingSha(p, f[2]) THEN "duplicate"
  ELSE IF active # {}
    THEN IF post[p].status = "publishing" /\ f \in active THEN "active" ELSE "conflict"
  ELSE IF file[f].status # "none" /\ latest[p] # f THEN "unavailable"
  ELSE CASE file[f].status = "verified" ->
              IF post[p].status = "unpublished" THEN "republish"
              ELSE IF post[p].status = "published" THEN "completed" ELSE "conflict"
         [] file[f].status \in {"deleting", "deleted"} -> "unavailable"
         [] file[f].status = "failed" ->
              IF post[p].status # "failed" THEN "conflict"
              ELSE IF file[f].ref = NoRemote /\ ~file[f].session THEN "unavailable" ELSE "none"
         [] OTHER -> "none"

PostAs(p, status) == [post EXCEPT ![p].status = status]
FileAs(f, status) == [file EXCEPT ![f].status = status]

BugInvalidated(f, j) == IF file[f].job = j THEN FileAs(f, "invalid") ELSE file

\* invalidate_publish_file: by file and job, whatever the post has become
Invalidated(f, j) ==
  IF file[f].job = j /\ file[f].status \in Uploading THEN FileAs(f, "failed") ELSE file

\* fail_publish_attempt
FailAttempt(f, j) ==
  IF Live(f, j)
  THEN file' = FileAs(f, "failed") /\ post' = PostAs(f[1], "failed")
  ELSE UNCHANGED <<file, post>>

\* jobs whose post is taken from them by a user or a moderator
Withdraw(p) ==
  withdrawn' = withdrawn \union {j \in Publish : pub[j].file # NoFile /\ Live(pub[j].file, j)
                                                 /\ pub[j].file[1] = p}

(***************************************************************************)
(* The jobs database.                                                      *)
(***************************************************************************)

\* Of a row that is over nothing but its status and its file is read again.
Over(j, status) == [pub EXCEPT ![j] = [EmptyPub EXCEPT !.status = status, !.file = pub[j].file]]

\* transition: a pair that is not allowed raises and writes nothing
PubAs(j, status) ==
  IF ~TransitionAllowed(pub[j].status, status) THEN pub
  ELSE IF status \in Terminal THEN Over(j, status) ELSE [pub EXCEPT ![j].status = status]

\* reconcile_community_publish_terminal
Reconciled(j, status) ==
  IF pub[j].status \in InFlight \union {"staging", "interrupted", "resumable"}
  THEN Over(j, status) ELSE pub

\* _cancel_job and its like: a row in flight passes through CANCELLING
CancelledInFlight(j) == IF pub[j].status \in InFlight THEN Over(j, "cancelled") ELSE pub

\* a retry counts a runner's exit, not a worker's
Retried(j) ==
  [pub EXCEPT ![j] = [pub[j] EXCEPT !.status = "queued", !.exited = FALSE, !.recov = FALSE,
                        !.attempt = pub[j].attempt + (IF pub[j].exited THEN 1 ELSE 0)]]

Interrupted(j, recoverable, exited) ==
  [pub EXCEPT ![j] = [@ EXCEPT !.status = "interrupted", !.recov = recoverable,
                               !.exited = exited]]

\* what the worker makes of a row that has lost its runner
FlightClosed(j, recoverable, exited) ==
  IF pub[j].cancel \/ pub[j].status \notin InFlight THEN CancelledInFlight(j)
  ELSE Interrupted(j, recoverable, exited)

(***************************************************************************)
(* Requests of the owner and of moderators, one at a time.                 *)
(***************************************************************************)

ApiAt(pc) == api.pc = pc
ApiGoto(pc, f, j) == api' = [pc |-> pc, file |-> f, job |-> j]

\* request_publish: prepare_publish_attempt classifies, and republishes a verified
\* file of an unpublished post; else create_job inserts a STAGING row leased by
\* this process (nothing relies on what prepare saw: activation looks again) ...
RequestPublish ==
  /\ ApiAt("idle")
  /\ \E f \in {g \in File : <<"publish", g[1]>> \in asked} :
       \/ /\ Classify(f) = "none"
          /\ \E j \in Publish :
               /\ pub[j].status = "absent"
               /\ \A i \in Publish : i < j => pub[i].status # "absent"
               /\ pub' = [pub EXCEPT ![j] = [EmptyPub EXCEPT !.status = "staging",
                                                             !.file = f, !.owned = TRUE]]
               /\ ApiGoto("activate", f, j)
          /\ UNCHANGED post
       \/ /\ Classify(f) = "republish"
          /\ post' = PostAs(f[1], "published") /\ UNCHANGED <<pub, api>>
  /\ UNCHANGED <<file, latest, remote, worker, upload, earlyId, asked, outages, withdrawn>>

\* ... activate_publish_attempt classifies again, which under the lock finds the same,
\* and links file, job and post ...
ActivateAttempt ==
  /\ ApiAt("activate") /\ Classify(api.file) = "none"
  /\ LET f == api.file IN
       /\ file' = [file EXCEPT ![f] = [@ EXCEPT !.status = "pending", !.job = api.job]]
       /\ latest' = [latest EXCEPT ![f[1]] = f]
       /\ post' = PostAs(f[1], "publishing")
       /\ \/ ApiGoto("enqueue", f, api.job) /\ UNCHANGED pub
          \/ \* the commit reported an error: only the lease is released
             api' = ApiIdle /\ pub' = [pub EXCEPT ![api.job].owned = FALSE]
  /\ UNCHANGED <<remote, worker, upload, earlyId, asked, outages, withdrawn>>

\* ... and the job becomes claimable, unless the worker recovered it first.
EnqueuePublishJob ==
  /\ ApiAt("enqueue")
  /\ pub' = [PubAs(api.job, "queued") EXCEPT ![api.job].owned = FALSE]
  /\ api' = ApiIdle
  /\ UNCHANGED <<post, file, latest, remote, worker, upload, earlyId, asked, outages, withdrawn>>

\* unpublish: the post, then its latest file, then the job of that file
Unpublish ==
  /\ ApiAt("idle")
  /\ \E p \in Post :
       /\ <<"unpublish", p>> \in asked
       /\ post[p].status \notin {"blocked", "deleted"}
       /\ post' = PostAs(p, "unpublished")
       /\ Withdraw(p)
       /\ IF latest[p] = NoFile THEN UNCHANGED api
          ELSE ApiGoto("invalidate", latest[p], file[latest[p]].job)
  /\ UNCHANGED <<file, latest, remote, pub, worker, upload, earlyId, asked, outages>>

UnpublishFile ==
  /\ ApiAt("invalidate")
  /\ IF file[api.file].status \in Uploading
     THEN file' = Invalidated(api.file, api.job) /\ ApiGoto("flag", api.file, api.job)
     ELSE api' = ApiIdle /\ UNCHANGED file
  /\ UNCHANGED <<post, latest, remote, pub, worker, upload, earlyId, asked, outages, withdrawn>>

\* request_cancel
UnpublishJob ==
  /\ ApiAt("flag")
  /\ pub' = IF pub[api.job].status \in Terminal THEN pub
            ELSE [pub EXCEPT ![api.job].cancel = TRUE]
  /\ api' = ApiIdle
  /\ UNCHANGED <<post, file, latest, remote, worker, upload, earlyId, asked, outages, withdrawn>>

\* moderate_post: hide and restore both publish, whatever the post was
ModeratePost ==
  /\ ApiAt("idle")
  /\ \E p \in Post, to \in {<<"published", "hidden">>, <<"published", "approved">>,
                             <<"blocked", "removed">>} :
       /\ <<"moderate", p>> \in asked
       /\ post' = [post EXCEPT ![p] = [@ EXCEPT !.status = to[1], !.mod = to[2]]]
       /\ Withdraw(p)
  /\ UNCHANGED <<file, latest, remote, pub, api, worker, upload, earlyId, asked, outages>>

SoftDeletePost ==
  /\ ApiAt("idle")
  /\ \E p \in Post :
       /\ <<"delete", p>> \in asked
       /\ ~post[p].gone
       /\ post' = [post EXCEPT ![p] = [@ EXCEPT !.status = "deleted", !.gone = TRUE]]
       /\ Withdraw(p)
  /\ UNCHANGED <<file, latest, remote, pub, api, worker, upload, earlyId, asked, outages>>

\* delete_remote_file: DELETING, the provider call (which may raise), DELETED
DeleteRemoteFile ==
  /\ ApiAt("idle")
  /\ \E p \in Post :
       /\ <<"trash", p>> \in asked
       /\ latest[p] # NoFile /\ file[latest[p]].status = "verified"
       /\ file' = FileAs(latest[p], "deleting")
       /\ ApiGoto("trash", latest[p], NoPublish)
  /\ UNCHANGED <<post, latest, remote, pub, worker, upload, earlyId, asked, outages, withdrawn>>

TrashRemoteFile ==
  /\ ApiAt("trash")
  /\ \/ /\ remote' = [remote EXCEPT ![file[api.file].ref] = "unusable"]
        /\ ApiGoto("trashed", api.file, NoPublish)
     \/ api' = ApiIdle /\ UNCHANGED remote
  /\ UNCHANGED <<post, file, latest, pub, worker, upload, earlyId, asked, outages, withdrawn>>

RemoteFileDeleted ==
  /\ ApiAt("trashed")
  /\ file' = FileAs(api.file, "deleted")
  /\ api' = ApiIdle
  /\ UNCHANGED <<post, latest, remote, pub, worker, upload, earlyId, asked, outages, withdrawn>>

\* The API process dies, and with it the lease of every row it was staging.
ApiDies ==
  /\ ~ApiAt("idle") /\ outages < MaxOutage
  /\ api' = ApiIdle
  /\ pub' = [j \in Publish |-> [pub[j] EXCEPT !.owned = FALSE]]
  /\ outages' = outages + 1
  /\ UNCHANGED <<post, file, latest, remote, worker, upload, earlyId, asked, withdrawn>>

ApiNext ==
  \/ RequestPublish \/ ActivateAttempt \/ EnqueuePublishJob
  \/ Unpublish \/ UnpublishFile \/ UnpublishJob \/ ModeratePost
  \/ SoftDeletePost \/ DeleteRemoteFile \/ TrashRemoteFile \/ RemoteFileDeleted \/ ApiDies

(***************************************************************************)
(* The upload runner.                                                      *)
(***************************************************************************)

RunnerAt(pc) == upload.pc = pc
RunnerGoto(pc) == upload' = [upload EXCEPT !.pc = pc]
MyFile == pub[upload.job].file
RunnerExits == upload' = [NoUpload EXCEPT !.pc = "exited"]

\* update_current_publish_file: FALSE, and no write, once the attempt is not live
UpdateFile(fields, done, refused) ==
  IF Live(MyFile, upload.job)
  THEN file' = [file EXCEPT ![MyFile] = fields] /\ RunnerGoto(done)
  ELSE UNCHANGED file /\ RunnerGoto(refused)

\* Every check of cancel_requested and publish_attempt_is_current
Checked(next) ==
  RunnerGoto(IF ~pub[upload.job].cancel /\ Live(MyFile, upload.job) THEN next ELSE "abort")

\* Only a claimed row is run.  It goes to RUNNING between the first two checks, unless
\* EnqueuePublishJob put it back into the queue after the runner had read it.
RunnerStarts ==
  /\ RunnerAt("start")
  /\ \/ pub[upload.job].status # "claiming" /\ RunnerExits /\ UNCHANGED pub
     \/ /\ pub[upload.job].status \in {"claiming", "queued"}
        /\ IF pub[upload.job].cancel \/ ~Live(MyFile, upload.job)
           THEN RunnerGoto("abort") /\ UNCHANGED pub
           ELSE IF pub[upload.job].status = "claiming"
           THEN pub' = [pub EXCEPT ![upload.job].status = "running"] /\ RunnerGoto("snapshot")
           ELSE RunnerGoto("error") /\ UNCHANGED pub
  /\ UNCHANGED <<post, file, latest, remote, api, worker, earlyId, asked, outages, withdrawn>>

\* A stop signal is polled while the PDF is copied and between two chunks.
RunnerInterrupts ==
  /\ RunnerAt("snapshot") \/ RunnerAt("chunk")
  /\ upload.stop
  /\ pub' = Interrupted(upload.job, TRUE, FALSE)
  /\ RunnerExits
  /\ UNCHANGED <<post, file, latest, remote, api, worker, earlyId, asked, outages, withdrawn>>

\* Checks that only decide where to go on.  Before the first write: the PDF may
\* have changed, the provider be impossible to build, the metadata reservation
\* refused.
RunnerChecks ==
  /\ \/ /\ RunnerAt("snapshot")
        /\ RunnerGoto("fail") \/ RunnerGoto("error") \/ Checked("previous")
     \/ RunnerAt("folder") /\ (RunnerGoto("error") \/ Checked("open"))
     \/ RunnerAt("chunk") /\ Checked("upload")
     \/ RunnerAt("sent") /\ (RunnerGoto("fail") \/ Checked("verify"))
  /\ UNCHANGED <<post, file, latest, remote, pub, api, worker, earlyId, asked, outages, withdrawn>>

BugPreviousUsable(r) == remote[r] # "unused"

\* stat_file of what an earlier run of this attempt left behind
PreviousUsable(r) == remote[r] = "complete"

\* A complete remote file is taken as it is; anything else is started again.
PreviousRemote ==
  /\ RunnerAt("previous")
  /\ LET r == file[MyFile].ref IN
       IF r = NoRemote
       THEN RunnerGoto("mark")
       ELSE \/ PreviousUsable(r) /\ upload' = [upload EXCEPT !.pc = "reuse", !.ref = r]
            \/ RunnerGoto("drop")
  /\ UNCHANGED <<post, file, latest, remote, pub, api, worker, earlyId, asked, outages, withdrawn>>

ReuseRemote ==
  /\ RunnerAt("reuse")
  /\ UpdateFile([file[MyFile] EXCEPT !.status = "verifying", !.ref = upload.ref],
                "complete", "cancel")
  /\ UNCHANGED <<post, latest, remote, pub, api, worker, earlyId, asked, outages, withdrawn>>

\* delete_file, then abandon_resumable_session; an error other than 404 raises
DropRemote ==
  /\ RunnerAt("drop")
  /\ \/ remote' = [remote EXCEPT ![file[MyFile].ref] = "unusable"] /\ RunnerGoto("mark")
     \/ RunnerGoto("error") /\ UNCHANGED remote
  /\ UNCHANGED <<post, file, latest, pub, api, worker, earlyId, asked, outages, withdrawn>>

\* what an earlier run left is forgotten, and the upload begins
MarkUploading ==
  /\ RunnerAt("mark")
  /\ UpdateFile([file[MyFile] EXCEPT !.status = "uploading", !.ref = NoRemote,
                                     !.session = FALSE],
                "folder", "cancel")
  /\ UNCHANGED <<post, latest, remote, pub, api, worker, earlyId, asked, outages, withdrawn>>

OpenSession ==
  /\ RunnerAt("open")
  /\ \/ \E r \in Remote :
          /\ remote[r] = "unused" /\ \A q \in Remote : q < r => remote[q] # "unused"
          /\ remote' = [remote EXCEPT ![r] = "unusable"]
          /\ upload' = [upload EXCEPT !.pc = "link", !.ref = r]
     \/ RunnerGoto("error") /\ UNCHANGED remote
  /\ UNCHANGED <<post, file, latest, pub, api, worker, earlyId, asked, outages, withdrawn>>

\* record_publish_remote_reference: guarded by the job only, so that the remote
\* file of a revoked attempt stays traceable
Referenced ==
  IF file[MyFile].job = upload.job THEN [file EXCEPT ![MyFile].ref = upload.ref] ELSE file

\* the session's file is recorded where its name is known, then linked
LinkSession ==
  /\ RunnerAt("link")
  /\ IF ~pub[upload.job].cancel /\ Live(MyFile, upload.job)
     THEN /\ file' = [file EXCEPT ![MyFile] = [@ EXCEPT !.session = TRUE,
                        !.ref = IF earlyId THEN upload.ref ELSE NoRemote]]
          /\ RunnerGoto("chunk")
     ELSE /\ file' = IF earlyId THEN Referenced ELSE file
          /\ RunnerGoto("revoked")
  /\ UNCHANGED <<post, latest, remote, pub, api, worker, earlyId, asked, outages, withdrawn>>

\* The last chunk completes the remote file; a failed or partial one fails the attempt.
UploadChunk ==
  /\ RunnerAt("upload")
  /\ \/ remote' = [remote EXCEPT ![upload.ref] = "complete"] /\ RunnerGoto("uploaded")
     \/ RunnerGoto("fail") /\ UNCHANGED remote
  /\ UNCHANGED <<post, file, latest, pub, api, worker, earlyId, asked, outages, withdrawn>>

AdvanceUpload ==
  /\ RunnerAt("uploaded")
  /\ file' = Referenced
  /\ RunnerGoto(IF Live(MyFile, upload.job) THEN "sent" ELSE "discard")
  /\ UNCHANGED <<post, latest, remote, pub, api, worker, earlyId, asked, outages, withdrawn>>

BeginVerification ==
  /\ RunnerAt("verify")
  /\ UpdateFile([file[MyFile] EXCEPT !.status = "verifying", !.ref = upload.ref],
                "stat", "discard")
  /\ UNCHANGED <<post, latest, remote, pub, api, worker, earlyId, asked, outages, withdrawn>>

\* stat_file
VerifyRemote ==
  /\ RunnerAt("stat")
  /\ \/ RunnerGoto("fail")
     \/ remote[upload.ref] = "complete" /\ RunnerGoto("complete")
  /\ UNCHANGED <<post, file, latest, remote, pub, api, worker, earlyId, asked, outages, withdrawn>>

BugCompletable(f, j) == Linked(f, j) /\ file[f].status = "verifying"

Completable(f, j) ==
  Linked(f, j) /\ post[f[1]].status = "publishing" /\ file[f].status = "verifying"

BugCompleteAttempt ==
  /\ RunnerAt("complete")
  /\ \/ RunnerGoto("error") /\ UNCHANGED <<file, post>>
     \/ /\ IF Completable(MyFile, upload.job)
           THEN file' = FileAs(MyFile, "verified") /\ post' = PostAs(MyFile[1], "published")
           ELSE UNCHANGED <<file, post>>
        /\ RunnerGoto("finish")
  /\ UNCHANGED <<latest, remote, pub, api, worker, earlyId, asked, outages, withdrawn>>

\* _finalize_publish: the metadata service records and finalises, or refuses;
\* complete_publish_attempt then verifies the file and publishes the post together
CompleteAttempt ==
  /\ RunnerAt("complete")
  /\ \/ RunnerGoto("error") /\ UNCHANGED <<file, post>>
     \/ IF Completable(MyFile, upload.job)
        THEN /\ file' = FileAs(MyFile, "verified")
             /\ post' = PostAs(MyFile[1], "published")
             /\ RunnerGoto("finish")
        ELSE RunnerGoto("abort") /\ UNCHANGED <<file, post>>
  /\ UNCHANGED <<latest, remote, pub, api, worker, earlyId, asked, outages, withdrawn>>

FinishPublish ==
  /\ RunnerAt("finish")
  /\ pub' = PubAs(upload.job, "finished")
  /\ RunnerExits
  /\ UNCHANGED <<post, file, latest, remote, api, worker, earlyId, asked, outages, withdrawn>>

\* _discard_remote_file, best effort; only the refusal of the session's own
\* link goes on to invalidate the file
DiscardRemote ==
  /\ \/ RunnerAt("discard") /\ RunnerGoto("cancel")
     \/ RunnerAt("revoked") /\ RunnerGoto("abort")
  /\ \/ remote' = [remote EXCEPT ![upload.ref] = "unusable"]
     \/ UNCHANGED remote
  /\ UNCHANGED <<post, file, latest, pub, api, worker, earlyId, asked, outages, withdrawn>>

InvalidateFile ==
  /\ RunnerAt("abort")
  /\ file' = Invalidated(MyFile, upload.job)
  /\ RunnerGoto("cancel")
  /\ UNCHANGED <<post, latest, remote, pub, api, worker, earlyId, asked, outages, withdrawn>>

CancelPublish ==
  /\ RunnerAt("cancel")
  /\ pub' = CancelledInFlight(upload.job)
  /\ RunnerExits
  /\ UNCHANGED <<post, file, latest, remote, api, worker, earlyId, asked, outages, withdrawn>>

\* _fail_unexpected first asks the community database, which is authoritative
UnexpectedFailure ==
  /\ RunnerAt("error")
  /\ CASE AttemptState(MyFile, upload.job) = "completed" ->
            pub' = Reconciled(upload.job, "finished") /\ RunnerExits
       [] AttemptState(MyFile, upload.job) = "failed" ->
            pub' = Reconciled(upload.job, "failed") /\ RunnerExits
       [] OTHER -> RunnerGoto("fail") /\ UNCHANGED pub
  /\ UNCHANGED <<post, file, latest, remote, api, worker, earlyId, asked, outages, withdrawn>>

\* the community database cannot be written: the row stays recoverable
CommunityUnavailable ==
  /\ RunnerAt("error") /\ outages < MaxOutage
  /\ pub' = Interrupted(upload.job, TRUE, FALSE)
  /\ RunnerExits
  /\ outages' = outages + 1
  /\ UNCHANGED <<post, file, latest, remote, api, worker, earlyId, asked, withdrawn>>

\* _fail: the attempt first, then the job
RunnerFails ==
  /\ RunnerAt("fail")
  /\ FailAttempt(MyFile, upload.job)
  /\ RunnerGoto(IF Live(MyFile, upload.job) THEN "failed" ELSE "cancel")
  /\ UNCHANGED <<latest, remote, pub, api, worker, earlyId, asked, outages, withdrawn>>

FailPublish ==
  /\ RunnerAt("failed")
  /\ pub' = PubAs(upload.job, "failed")
  /\ RunnerExits
  /\ UNCHANGED <<post, file, latest, remote, api, worker, earlyId, asked, outages, withdrawn>>

RunnerNext ==
  \/ RunnerStarts \/ RunnerInterrupts \/ RunnerChecks \/ PreviousRemote \/ ReuseRemote
  \/ DropRemote \/ MarkUploading \/ OpenSession \/ LinkSession \/ UploadChunk
  \/ AdvanceUpload \/ BeginVerification \/ VerifyRemote
  \/ CompleteAttempt \/ FinishPublish \/ DiscardRemote \/ InvalidateFile \/ CancelPublish
  \/ UnexpectedFailure \/ RunnerFails \/ FailPublish

RunnerAlive == upload.pc \notin {"off", "exited"}

RunnerDies ==
  /\ RunnerAlive /\ outages < MaxOutage
  /\ RunnerExits
  /\ outages' = outages + 1
  /\ UNCHANGED <<post, file, latest, remote, pub, api, worker, earlyId, asked, withdrawn>>

(***************************************************************************)
(* The worker: every poll takes care of the orphans of a dead worker, then *)
(* of staged and interrupted rows, and claims one row only after that.     *)
(***************************************************************************)

At(pc) == worker.pc = pc
WorkerGoto(pc) == worker' = WorkerAt(pc)

Orphans == {j \in Publish : pub[j].status \in InFlight}
BugUnsettled == {j \in Publish : pub[j].status = "resumable"}
Unsettled == {j \in Publish : pub[j].status \in {"interrupted", "resumable"}}

\* _reconcile_stale: the orphaned runner is killed before its row is touched
ReconcileStale ==
  /\ At("poll")
  /\ \E j \in Orphans : pub' = FlightClosed(j, TRUE, FALSE)
  /\ upload' = NoUpload
  /\ UNCHANGED <<post, file, latest, remote, api, worker, earlyId, asked, outages, withdrawn>>

StagedVerdict(j) ==
  LET state == AttemptState(pub[j].file, j) IN
  CASE state = "active" -> "queue" [] state = "invalid" -> "unlinked" [] OTHER -> state

Recoverable(j) == pub[j].recov \/ pub[j].status = "resumable"

\* What _recover_interrupted_community_publishes decides from one reading.  A
\* live attempt that is not retried is failed, any other file invalidated.
InterruptedVerdict(j) ==
  LET state == AttemptState(pub[j].file, j)
      exhausted == pub[j].exited /\ pub[j].attempt >= MaxAttempt IN
  CASE state \in {"completed", "failed"} -> state
    [] state = "invalid" -> IF Recoverable(j) THEN "drop" ELSE "refuse"
    [] state = "active" ->
         IF pub[j].cancel /\ Recoverable(j) THEN "drop_live"
         ELSE IF pub[j].cancel \/ ~Recoverable(j) \/ exhausted THEN "refuse_live" ELSE "retry"

\* A staged row whose API process lives and has not linked it is left alone; the runner
\* of an interrupted one is ended first.
ReadAttempt ==
  /\ At("poll") /\ Orphans = {}
  /\ \E j \in Publish :
       \/ /\ pub[j].status = "staging"
          /\ ~(pub[j].owned /\ AttemptState(pub[j].file, j) = "invalid")
          /\ worker' = [pc |-> "act", job |-> j, verdict |-> StagedVerdict(j)]
          /\ UNCHANGED upload
       \/ /\ j \in Unsettled
          /\ worker' = [pc |-> "act", job |-> j, verdict |-> InterruptedVerdict(j)]
          /\ upload' = IF upload.job = j THEN NoUpload ELSE upload
  /\ UNCHANGED <<post, file, latest, remote, pub, api, earlyId, asked, outages, withdrawn>>

BugActOnAttempt ==
  /\ At("act")
  /\ worker' = [worker EXCEPT !.pc = "settle"]
  /\ LET f == pub[worker.job].file IN
       IF worker.verdict \in {"drop", "refuse", "unlinked"}
       THEN file' = Invalidated(f, worker.job) /\ UNCHANGED post
       ELSE UNCHANGED <<file, post>>
  /\ UNCHANGED <<latest, remote, pub, api, upload, earlyId, asked, outages, withdrawn>>

\* the community database first ...
ActOnAttempt ==
  /\ At("act")
  /\ worker' = [worker EXCEPT !.pc = "settle"]
  /\ LET f == pub[worker.job].file IN
       CASE worker.verdict \in {"drop_live", "refuse_live"} -> FailAttempt(f, worker.job)
         [] worker.verdict \in {"drop", "refuse", "unlinked"} ->
              file' = Invalidated(f, worker.job) /\ UNCHANGED post
         [] OTHER -> UNCHANGED <<file, post>>
  /\ UNCHANGED <<latest, remote, pub, api, upload, earlyId, asked, outages, withdrawn>>

\* What a staged row comes to goes through transition(), whatever the row has become; an
\* interrupted one is read again, and left alone if it no longer is.
Settles(j, verdict) ==
  verdict \in {"completed", "failed", "queue", "unlinked"} \/ j \in Unsettled

\* ... then the job; a retry goes through RESUMABLE
SettlePublish ==
  /\ At("settle")
  /\ LET j == worker.job
         again == worker.verdict = "retry" /\ pub[j].status = "interrupted" IN
       /\ pub' =
            IF ~Settles(j, worker.verdict) THEN pub
            ELSE CASE worker.verdict = "completed" -> Reconciled(j, "finished")
              [] worker.verdict = "failed" -> Reconciled(j, "failed")
              [] worker.verdict = "queue" -> [PubAs(j, "queued") EXCEPT ![j].owned = FALSE]
              [] worker.verdict = "retry" -> IF again THEN PubAs(j, "resumable") ELSE Retried(j)
              [] worker.verdict \in {"refuse", "refuse_live"} ->
                   PubAs(j, IF pub[j].status = "interrupted" THEN "failed" ELSE "cancelled")
              [] OTHER -> PubAs(j, "cancelled")
       /\ IF again THEN UNCHANGED worker ELSE WorkerGoto("poll")
  /\ UNCHANGED <<post, file, latest, remote, api, upload, earlyId, asked, outages, withdrawn>>

\* claim_next_job: any row, since a retry's queued_at may lie in the future
ClaimPublish ==
  /\ At("poll") /\ Orphans = {} /\ Unsettled = {}
  /\ \E j \in Publish :
       /\ pub[j].status = "queued"
       /\ pub' = [pub EXCEPT ![j].status = "claiming"]
       /\ worker' = [WorkerAt("spawn") EXCEPT !.job = j]
  /\ UNCHANGED <<post, file, latest, remote, api, upload, earlyId, asked, outages, withdrawn>>

SpawnUpload ==
  /\ At("spawn")
  /\ upload' = [NoUpload EXCEPT !.pc = "start", !.job = worker.job]
  /\ worker' = [worker EXCEPT !.pc = "watch"]
  /\ UNCHANGED <<post, file, latest, remote, pub, api, earlyId, asked, outages, withdrawn>>

\* _reconcile_runner_exit: a runner that never left CLAIMING is not retried
UploadExited ==
  /\ At("watch") /\ RunnerAt("exited")
  /\ pub' = FlightClosed(worker.job, pub[worker.job].status # "claiming", TRUE)
  /\ upload' = NoUpload
  /\ WorkerGoto("poll")
  /\ UNCHANGED <<post, file, latest, remote, api, earlyId, asked, outages, withdrawn>>

\* A stop signals the runner's tree, which may interrupt its row itself or be
\* killed first; _stop_active_runner then closes what is still in flight.
WorkerStops ==
  /\ At("watch") /\ outages < MaxOutage
  /\ upload' = [upload EXCEPT !.stop = TRUE]
  /\ worker' = [worker EXCEPT !.pc = "stopping"]
  /\ outages' = outages + 1
  /\ UNCHANGED <<post, file, latest, remote, pub, api, earlyId, asked, withdrawn>>

WorkerStopped ==
  /\ At("stopping")
  /\ upload' = NoUpload
  /\ pub' = FlightClosed(worker.job, TRUE, FALSE)
  /\ WorkerGoto("down")
  /\ UNCHANGED <<post, file, latest, remote, api, earlyId, asked, outages, withdrawn>>

\* A worker that dies leaves its runner alive.
WorkerDies ==
  /\ ~At("down") /\ outages < MaxOutage
  /\ WorkerGoto("down")
  /\ outages' = outages + 1
  /\ UNCHANGED <<post, file, latest, remote, pub, api, upload, earlyId, asked, withdrawn>>

WorkerStarts ==
  /\ At("down") /\ WorkerGoto("poll")
  /\ UNCHANGED <<post, file, latest, remote, pub, api, upload, earlyId, asked, outages, withdrawn>>

WorkerNext ==
  \/ ReconcileStale \/ ReadAttempt \/ ActOnAttempt \/ SettlePublish \/ ClaimPublish
  \/ SpawnUpload \/ UploadExited \/ WorkerStopped \/ WorkerStarts

(***************************************************************************)
(* Specification.                                                          *)
(***************************************************************************)

PublishNext ==
  \/ ApiNext \/ RunnerNext \/ WorkerNext
  \/ CommunityUnavailable \/ RunnerDies \/ WorkerStops \/ WorkerDies

\* The supervisor restarts a worker, a worker polls forever and a live runner
\* runs; a delayed row or a staged row in its grace is not skipped forever.
\* No request is ever promised to come.
PublishFairness ==
  /\ WF_publishVars(RunnerNext) /\ WF_publishVars(WorkerNext)
  /\ SF_publishVars(ReadAttempt) /\ SF_publishVars(ClaimPublish)

PublishSpec == PublishInit /\ [][PublishNext]_publishVars /\ PublishFairness

(***************************************************************************)
(* Properties.                                                             *)
(***************************************************************************)

ApiPc == {"idle", "activate", "enqueue", "invalidate", "flag",
          "trash", "trashed"}
WorkerPc == {"down", "poll", "act", "settle", "spawn", "watch", "stopping"}
RunnerPc == {"off", "exited", "start", "snapshot", "previous", "reuse", "drop", "mark",
             "folder", "open", "link", "chunk", "upload", "uploaded", "sent", "verify",
             "stat", "complete", "finish", "discard", "revoked", "abort", "cancel",
             "error", "fail", "failed"}
Verdict == {"none", "completed", "failed", "queue", "unlinked", "drop", "refuse",
            "drop_live", "refuse_live", "retry"}

PostRow == [status : PostStatus, mod : {"pending", "approved", "hidden", "removed"},
            gone : BOOLEAN]
FileRow == [status : FileStatus \union {"none"}, job : Publish \union {NoPublish},
            ref : Remote \union {NoRemote}, session : BOOLEAN]
PubRow == [status : Status \union {"absent"}, file : File \union {NoFile}, cancel : BOOLEAN,
           owned : BOOLEAN, recov : BOOLEAN, exited : BOOLEAN, attempt : Nat]
ApiState == [pc : ApiPc, file : File \union {NoFile}, job : Publish \union {NoPublish}]
WorkerState == [pc : WorkerPc, job : Publish \union {NoPublish}, verdict : Verdict]
UploadState == [pc : RunnerPc, job : Publish \union {NoPublish},
                ref : Remote \union {NoRemote}, stop : BOOLEAN]

PublishTypeOK ==
  /\ post \in [Post -> PostRow]
  /\ file \in [File -> FileRow]
  /\ latest \in [Post -> File \union {NoFile}]
  /\ remote \in [Remote -> {"unused", "unusable", "complete"}]
  /\ pub \in [Publish -> PubRow]
  /\ api \in ApiState /\ worker \in WorkerState /\ upload \in UploadState
  /\ earlyId \in BOOLEAN /\ asked \in Demands
  /\ outages \in 0 .. MaxOutage /\ withdrawn \subseteq Publish

\* A post that is in the feed can be read: its latest file was verified and the
\* provider holds all of it (feed, resolve_readable_file), whatever an earlier
\* run, a revoked one or a retry did to the remote files.
FeedIsReadable ==
  \A p \in Post :
    /\ post[p].status = "published" /\ latest[p] # NoFile
    /\ file[latest[p]].status = "verified"
    => /\ file[latest[p]].ref # NoRemote
       /\ remote[file[latest[p]].ref] = "complete"

\* What a finished or failed publish job says of its upload is true, whichever
\* process wrote it and whatever died in between.
JobsTellTheTruth ==
  \A j \in Publish :
    /\ pub[j].status = "finished" =>
         file[pub[j].file].job = j /\ file[pub[j].file].status \in {"verified", "deleting", "deleted"}
    /\ pub[j].status = "failed" =>
         ~(file[pub[j].file].job = j /\ file[pub[j].file].status = "verified")

Carries(p, s) ==
  post[p].status = "published" /\ latest[p] = <<p, s>> /\ file[<<p, s>>].status = "verified"

\* Two publications never carry the same content, unless a moderator put one of
\* them back (moderate_post publishes without looking).  What a post carries is its
\* latest file: an older one of it stays verified.
NoDuplicate ==
  \A p, q \in Post, s \in Sha :
    p # q /\ Carries(p, s) /\ Carries(q, s) => post[p].mod # "pending" \/ post[q].mod # "pending"

\* A post waiting for its upload has one: the job linked to its latest file is
\* not over, so a runner or the worker's recovery will still end the attempt.
PublishingIsBacked ==
  \A p \in Post :
    post[p].status = "publishing" =>
      /\ latest[p] # NoFile /\ file[latest[p]].status \in Uploading
      /\ pub[file[latest[p]].job].status \notin Terminal \union {"absent"}

\* An upload whose post was unpublished, deleted or moderated while it ran
\* never publishes it, however late its provider answers.
WithdrawnNeverPublished ==
  [][\A f \in File : file[f].status # "verified" /\ file'[f].status = "verified"
                       => file[f].job \notin withdrawn]_publishVars

\* No attempt stays in progress: every PUBLISHING post is published, failed or
\* withdrawn in the end, across deaths of the API, the worker and the runner.
AttemptEnds == \A p \in Post : []<>(post[p].status # "publishing")

===============================================================================
