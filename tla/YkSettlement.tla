----------------------------- MODULE YkSettlement -----------------------------
(***************************************************************************)
(* The payment of one translated chapter: the YK reservation and its       *)
(* requests on the server (the settlement migrations and the               *)
(* translation-execute function under src/supabase), the pipeline's calls  *)
(* (yomu_backend_provider.py), the files in the output directory that      *)
(* outlive every process (yk_reservation.py), and the runner and the       *)
(* worker that settle the reservation when the attempt is over             *)
(* (job_runner.py, worker_service.py).                                     *)
(*                                                                         *)
(* Every attempt on the chapter uses the same output directory, hence the  *)
(* same reservation.  An attempt is one row of JobQueue; what the queue    *)
(* does before a runner exists is left to that module.                     *)
(***************************************************************************)
EXTENDS Naturals, JobStatus

CONSTANTS
  Batches,       \* translation requests of the chapter, in the order they are sent
  FirstBatches,  \* how many of them translate_many sends first; the rest are retries
  MaxYkFaults    \* bound: deaths, timeouts and lost answers

ASSUME YkAssumption ==
  /\ Batches \in Nat /\ FirstBatches \in 1 .. Batches
  /\ MaxYkFaults \in Nat

Request == 1 .. Batches
First == 1 .. FirstBatches

VARIABLES
  reservation,  \* yk_reservations.status
  request,      \* request[q]: the translation_requests row of batch q
  edge,         \* edge[q]: the translation-execute call at work on q
  settling,     \* settle_translation_job: the call in progress
  yk,           \* .yk_reservation.json: its state
  cached,       \* results in .translation_results
  marked,       \* requests named in .translation_ready.json
  chapter,      \* the row of the current attempt: status and cancel_requested
  pipe,         \* the pipeline process: where it is and its next batch
  closer,       \* the process that settles, on whose behalf and to what end
  ykFaults

server == <<reservation, request, edge, settling>>
files == <<yk, cached, marked>>
ykVars == <<server, files, chapter, pipe, closer, ykFaults>>

(***************************************************************************)
(* State.                                                                  *)
(***************************************************************************)

SettledYk == {"consumed", "released"}
Busy == {"count", "lock"}  \* a settlement's transaction; its advisory lock lets one in

\* a request is "started" once the provider may have been called, "resulted" once
\* its result is stored; both have the status processing
RequestStatus == {"absent", "processing", "started", "resulted", "completed", "failed"}

NoSettling == [pc |-> "off", action |-> "none", counted |-> {}]
NoPipe == [pc |-> "off", next |-> 1]
NoCloser == [pc |-> "idle", by |-> "none", goal |-> "none", state |-> "none"]

SettleInit ==
  /\ reservation = "none"
  /\ request = [q \in Request |-> "absent"]
  /\ edge = [q \in Request |-> "off"]
  /\ settling = NoSettling
  /\ yk = "none" /\ cached = {} /\ marked = {}
  /\ chapter = [status |-> "queued", cancel |-> FALSE]
  /\ pipe = NoPipe
  /\ closer = NoCloser
  /\ ykFaults = 0

YkFault == ykFaults < MaxYkFaults /\ ykFaults' = ykFaults + 1

(***************************************************************************)
(* translation-execute: each step is one RPC.  The call goes on when its   *)
(* client has given up, and may end between any two steps.  A step waits   *)
(* for the row of its request while a settlement holds it.                 *)
(***************************************************************************)

Free(q) == q \notin settling.counted
Edge(q, pc) == edge' = [edge EXCEPT ![q] = pc]
Row(q, status) == request' = [request EXCEPT ![q] = status]

\* begin_translation_request: a claim that expired before the provider was called
\* is taken over, a stored result only has to be committed, a completed one is
\* replayed, and whatever the provider may have done is never done twice
BeginRequest(q) ==
  /\ edge[q] = "sent" /\ Free(q)
  /\ CASE request[q] = "absent" /\ reservation = "reserved" ->
            Row(q, "processing") /\ Edge(q, "claimed")
       [] request[q] = "processing" ->
            (Edge(q, "claimed") \/ Edge(q, "off")) /\ UNCHANGED request
       [] request[q] = "resulted" -> Edge(q, "commit") /\ UNCHANGED request
       [] OTHER -> Edge(q, "off") /\ UNCHANGED request
  /\ UNCHANGED <<reservation, settling, files, chapter, pipe, closer, ykFaults>>

\* mark_translation_provider_started
StartProvider(q) ==
  /\ edge[q] = "claimed" /\ Free(q)
  /\ Row(q, "started") /\ Edge(q, "called")
  /\ UNCHANGED <<reservation, settling, files, chapter, pipe, closer, ykFaults>>

\* persist_translation_result, or record_translation_failure of a refusal
ProviderAnswers(q) ==
  /\ edge[q] = "called" /\ Free(q)
  /\ \/ Row(q, "resulted") /\ Edge(q, "commit")
     \/ Row(q, "failed") /\ Edge(q, "off")
  /\ UNCHANGED <<reservation, settling, files, chapter, pipe, closer, ykFaults>>

\* commit_translation_batch_success
CommitBatch(q) ==
  /\ edge[q] = "commit" /\ Free(q)
  /\ IF request[q] = "resulted" /\ reservation = "reserved"
     THEN Row(q, "completed") ELSE UNCHANGED request
  /\ Edge(q, "off")
  /\ UNCHANGED <<reservation, settling, files, chapter, pipe, closer, ykFaults>>

EdgeDies(q) ==
  /\ edge[q] # "off" /\ YkFault
  /\ Edge(q, "off")
  /\ UNCHANGED <<reservation, request, settling, files, chapter, pipe, closer>>

EdgeNext ==
  \E q \in Request : BeginRequest(q) \/ StartProvider(q) \/ ProviderAnswers(q)
                     \/ CommitBatch(q) \/ EdgeDies(q)

(***************************************************************************)
(* The pipeline: translate_many for the first batches, then a              *)
(* translate_strict for each retry it decides on, then the commit.         *)
(***************************************************************************)

PipeAt(pc) == pipe.pc = pc /\ chapter.status = "running"
PipeGoto(pc, next) == pipe' = [pc |-> pc, next |-> next]

CallOf(q) == IF q \in First THEN First ELSE {q}
LastOf(q) == IF q \in First THEN FirstBatches ELSE q

\* the call is over: a retry may follow, or the commit
CallReturns ==
  LET next == LastOf(pipe.next) + 1 IN
  \/ PipeGoto("commit", next)
  \/ next \in Request /\ PipeGoto("call", next)

\* An error ends the first call's pipeline.  In a retry only a systemic one does,
\* and the layout retries commit before they raise it.
Raises(systemic) ==
  IF pipe.next \in First THEN PipeGoto("failed", pipe.next)
  ELSE IF systemic
       THEN PipeGoto("failed", pipe.next) \/ PipeGoto("rescue", pipe.next)
       ELSE CallReturns

\* A worker claims the row and starts the runner, the runner its pipeline; a
\* settlement that an earlier attempt asked for may still be at work
StartPipeline ==
  /\ chapter.status = "queued"
  /\ chapter' = [chapter EXCEPT !.status = "running"]
  /\ PipeGoto("call", 1)
  /\ UNCHANGED <<server, files, closer, ykFaults>>

\* download, OCR and cleaning may fail before the first call
FailBeforeTranslation ==
  /\ PipeAt("call") /\ pipe.next = 1
  /\ PipeGoto("failed", 1)
  /\ UNCHANGED <<server, files, chapter, closer, ykFaults>>

\* a settled reservation only replays what is cached
TranslateMany ==
  /\ PipeAt("call")
  /\ IF yk \notin SettledYk THEN PipeGoto("reserve", pipe.next)
     ELSE IF CallOf(pipe.next) \subseteq cached THEN CallReturns ELSE Raises(TRUE)
  /\ UNCHANGED <<server, files, chapter, closer, ykFaults>>

Reserved == IF reservation = "none" THEN "reserved" ELSE reservation

\* reserve_translation_yk is idempotent: whatever exists is returned
ReserveYk ==
  /\ PipeAt("reserve")
  /\ \/ reservation' = Reserved /\ PipeGoto("record", pipe.next)
     \/ reservation = "none" /\ PipeGoto("failed", pipe.next) /\ UNCHANGED reservation
  /\ UNCHANGED <<request, edge, settling, files, chapter, closer, ykFaults>>

ReserveLost ==
  /\ PipeAt("reserve") /\ YkFault
  /\ reservation' \in {reservation, Reserved}
  /\ Raises(TRUE)
  /\ UNCHANGED <<request, edge, settling, files, chapter, closer>>

RecordReservation ==
  /\ PipeAt("record")
  /\ yk' = IF yk = "none" THEN "held" ELSE yk
  /\ PipeGoto("send", pipe.next)
  /\ UNCHANGED <<server, cached, marked, chapter, closer, ykFaults>>

NextBatch(q) == IF q = LastOf(q) THEN PipeGoto("mark", q) ELSE PipeGoto("send", q + 1)

\* _translate_batch_with_reservation: a cached batch is not asked for again; an
\* earlier call still at work on it is taken over or answers that it is in progress
SendBatch ==
  /\ PipeAt("send")
  /\ LET q == pipe.next IN
       \/ q \in cached /\ NextBatch(q) /\ UNCHANGED edge
       \/ /\ q \notin cached /\ edge[q] \in {"off", "sent", "claimed", "commit"}
          /\ PipeGoto("wait", q)
          /\ IF edge[q] = "off" THEN Edge(q, "sent") ELSE UNCHANGED edge
       \/ q \notin cached /\ edge[q] # "off" /\ Raises(FALSE) /\ UNCHANGED edge
  /\ UNCHANGED <<reservation, request, settling, files, chapter, closer, ykFaults>>

BugReceiveBatch ==
  /\ PipeAt("wait") /\ edge[pipe.next] = "off"
  /\ IF request[pipe.next] = "completed" THEN NextBatch(pipe.next) ELSE Raises(FALSE)
  /\ UNCHANGED <<server, files, chapter, closer, ykFaults>>

\* The result is on disk before the next batch is sent.
ReceiveBatch ==
  /\ PipeAt("wait")
  /\ LET q == pipe.next IN
       /\ edge[q] = "off"
       /\ IF request[q] = "completed"
          THEN cached' = cached \union {q} /\ NextBatch(q)
          ELSE Raises(FALSE) /\ UNCHANGED cached
  /\ UNCHANGED <<server, yk, marked, chapter, closer, ykFaults>>

\* the transport's timeout, or a reservation the server no longer accepts
BatchRefused ==
  /\ PipeAt("wait")
  /\ IF edge[pipe.next] = "off"
     THEN request[pipe.next] = "absent" /\ UNCHANGED ykFaults
     ELSE YkFault
  /\ Raises(TRUE)
  /\ UNCHANGED <<server, files, chapter, closer>>

\* mark_translation_ready adds the call's requests to the marker
MarkReady ==
  /\ PipeAt("mark")
  /\ marked' = marked \union CallOf(pipe.next)
  /\ CallReturns
  /\ UNCHANGED <<server, yk, cached, chapter, closer, ykFaults>>

\* commit_translation_success; "rescue" is the one that raises afterwards
CommitTranslation ==
  /\ PipeAt("commit") \/ PipeAt("rescue")
  /\ closer.pc = "idle"
  /\ closer' = [pc |-> "settle", by |-> "pipeline", goal |-> "none", state |-> "none"]
  /\ UNCHANGED <<server, files, chapter, pipe, ykFaults>>

CommitReturns ==
  /\ closer.pc = "close" /\ closer.by = "pipeline"
  /\ PipeGoto(IF closer.state = "consumed" /\ pipe.pc = "commit" THEN "render" ELSE "failed",
              pipe.next)
  /\ closer' = NoCloser
  /\ UNCHANGED <<server, files, chapter, ykFaults>>

RenderChapter ==
  /\ PipeAt("render")
  /\ PipeGoto("done", pipe.next) \/ PipeGoto("failed", pipe.next)
  /\ UNCHANGED <<server, files, chapter, closer, ykFaults>>

PipelineNext ==
  \/ StartPipeline \/ FailBeforeTranslation \/ TranslateMany \/ ReserveYk \/ ReserveLost
  \/ RecordReservation \/ SendBatch \/ ReceiveBatch \/ BatchRefused \/ MarkReady
  \/ CommitTranslation \/ CommitReturns \/ RenderChapter

(***************************************************************************)
(* Settlement.                                                             *)
(***************************************************************************)

CloserAt(pc) == closer.pc = pc

BugSettleAction == IF closer.goal \in {"none", "finished"} THEN "consume" ELSE "release"

\* translation_ready, not the output, decides
SettleAction == IF marked # {} THEN "consume" ELSE "release"

\* settle
AskSettlement ==
  /\ CloserAt("settle")
  /\ IF yk = "held"
     THEN /\ settling.pc \notin Busy
          /\ settling' = [pc |-> "count", action |-> SettleAction, counted |-> {}]
          /\ closer' = [closer EXCEPT !.pc = "wait"]
     ELSE /\ closer' = [closer EXCEPT !.pc = "close", !.state = yk]
          /\ UNCHANGED settling
  /\ UNCHANGED <<reservation, request, edge, files, chapter, pipe, ykFaults>>

\* settle_translation_job locks the request rows it counts, then the reservation; a
\* request it has not seen may begin, be answered and be completed in between ...
CountRequests ==
  /\ settling.pc = "count"
  /\ settling' = [settling EXCEPT !.pc = "lock",
                                 !.counted = {q \in Request : request[q] # "absent"}]
  /\ UNCHANGED <<reservation, request, edge, files, chapter, pipe, closer, ykFaults>>

Outcome(action) == IF action = "consume" THEN "consumed" ELSE "released"

BugUntouched == \A q \in settling.counted :
  request[q] \notin {"processing", "started", "resulted"}

\* nothing counted is in flight, or has an output of the provider
Untouched == \A q \in settling.counted : request[q] = "failed"

AllCompleted(Q) == \A q \in Q : request[q] = "completed"

\* ... finalize_translation_job counts again under the lock, a release does not.
LockReservation ==
  /\ settling.pc = "lock"
  /\ LET outcome == Outcome(settling.action)
         consume == settling.action = "consume"
         now == {q \in Request : request[q] # "absent"}
         done == /\ consume => AllCompleted(settling.counted)
                 /\ IF reservation # "reserved" THEN reservation = outcome
                    ELSE IF consume THEN settling.counted # {} /\ AllCompleted(now)
                         ELSE Untouched IN
       /\ reservation' = IF done THEN outcome ELSE reservation
       /\ settling' = [settling EXCEPT !.pc = IF done THEN "done" ELSE "refused",
                                      !.counted = {}]
  /\ UNCHANGED <<request, edge, files, chapter, pipe, closer, ykFaults>>

SettlementAnswered ==
  /\ CloserAt("wait") /\ settling.pc \in {"done", "refused"}
  /\ closer' = IF settling.pc = "done"
               THEN [closer EXCEPT !.pc = "write", !.state = Outcome(settling.action)]
               ELSE [closer EXCEPT !.pc = "close", !.state = "error"]
  /\ settling' = NoSettling
  /\ UNCHANGED <<reservation, request, edge, files, chapter, pipe, ykFaults>>

\* no authentication, no connection, or an answer that never comes
SettlementLost ==
  /\ CloserAt("settle") \/ CloserAt("wait")
  /\ yk = "held" /\ YkFault
  /\ closer' = [closer EXCEPT !.pc = "close", !.state = "error"]
  /\ UNCHANGED <<server, files, chapter, pipe>>

BugWriteSettlement ==
  /\ CloserAt("write")
  /\ yk' = IF closer.state = "consumed" THEN "consume" ELSE "release"
  /\ closer' = [closer EXCEPT !.pc = "close"]
  /\ UNCHANGED <<server, cached, marked, chapter, pipe, ykFaults>>

WriteSettlement ==
  /\ CloserAt("write")
  /\ yk' = closer.state
  /\ closer' = [closer EXCEPT !.pc = "close"]
  /\ UNCHANGED <<server, cached, marked, chapter, pipe, ykFaults>>

SettlementNext ==
  \/ AskSettlement \/ CountRequests \/ LockReservation \/ SettlementAnswered
  \/ SettlementLost \/ WriteSettlement

(***************************************************************************)
(* The runner, the worker and the user.                                    *)
(***************************************************************************)

Settle(by, goal) == closer' = [pc |-> "settle", by |-> by, goal |-> goal, state |-> "none"]

\* nobody closes the attempt yet; the pipeline may be in its commit
Open == chapter.status = "running" /\ closer.by \in {"none", "pipeline"}

\* _finalize: the pipeline exited, was cancelled, or was stopped with the worker
FinalizeAttempt ==
  /\ Open /\ pipe.pc # "off"
  /\ \/ pipe.pc = "done" /\ Settle("runner", "finished")
     \/ pipe.pc = "failed" /\ Settle("runner", "failed")
     \/ chapter.cancel /\ Settle("runner", "cancelled")
  /\ pipe' = NoPipe
  /\ UNCHANGED <<server, files, chapter, ykFaults>>

StopRunner ==
  /\ Open /\ pipe.pc # "off" /\ YkFault
  /\ Settle("runner", "interrupted")
  /\ pipe' = NoPipe
  /\ UNCHANGED <<server, files, chapter>>

\* a runner or a worker dies with what it was doing
CloserDies ==
  /\ chapter.status = "running"
  /\ pipe.pc # "off" \/ closer.pc # "idle"
  /\ YkFault
  /\ pipe' = NoPipe /\ closer' = NoCloser
  /\ UNCHANGED <<server, files, chapter>>

RunnerGone == chapter.status = "running" /\ pipe.pc = "off" /\ closer.pc = "idle"

\* recover_yk_settlement, for _reconcile_stale and _stop_active_runner
RecoverAttempt ==
  /\ RunnerGone
  /\ Settle("worker", IF chapter.cancel THEN "cancelled" ELSE "interrupted")
  /\ UNCHANGED <<server, files, chapter, pipe, ykFaults>>

\* A translated attempt without an output is kept for another rendering, a pending
\* settlement keeps any attempt.  The deliverable of a translate-only job is the
\* translation, so its failure is final.
CloseAttempt ==
  /\ CloserAt("close") /\ closer.by \in {"runner", "worker"}
  /\ \E status \in IF closer.state = "error" THEN {"interrupted"}
                   ELSE IF closer.goal = "failed" /\ marked # {} THEN {"failed", "interrupted"}
                   ELSE {closer.goal} :
       chapter' = [chapter EXCEPT !.status = status]
  /\ closer' = NoCloser
  /\ UNCHANGED <<server, files, pipe, ykFaults>>

\* _reconcile_runner_exit of a live worker, and reconcile_orphans and cancel of the
\* user interface, close the row of a dead runner without a settlement
CloseDeadAttempt ==
  /\ RunnerGone
  /\ chapter' = [chapter EXCEPT !.status = IF chapter.cancel THEN "cancelled" ELSE "interrupted"]
  /\ UNCHANGED <<server, files, pipe, closer, ykFaults>>

CancelChapter ==
  /\ chapter.status \in {"queued", "running"} /\ ~chapter.cancel
  /\ chapter' = IF chapter.status = "queued" THEN [chapter EXCEPT !.status = "cancelled"]
                ELSE [chapter EXCEPT !.cancel = TRUE]
  /\ UNCHANGED <<server, files, pipe, closer, ykFaults>>

\* resume: a new row over the same output directory
ResumeChapter ==
  /\ chapter.status = "interrupted"
  /\ chapter' = [status |-> "queued", cancel |-> FALSE]
  /\ UNCHANGED <<server, files, pipe, closer, ykFaults>>

AttemptNext ==
  \/ FinalizeAttempt \/ StopRunner \/ CloserDies \/ RecoverAttempt \/ CloseAttempt
  \/ CloseDeadAttempt \/ CancelChapter \/ ResumeChapter

SettleNext == EdgeNext \/ PipelineNext \/ SettlementNext \/ AttemptNext

SettleSpec == SettleInit /\ [][SettleNext]_ykVars

(***************************************************************************)
(* Properties.                                                             *)
(***************************************************************************)

YkTypeOK ==
  /\ reservation \in {"none", "reserved"} \union SettledYk
  /\ request \in [Request -> RequestStatus]
  /\ edge \in [Request -> {"off", "sent", "claimed", "called", "commit"}]
  /\ settling \in [pc : {"off", "done", "refused"} \union Busy,
                   action : {"none", "consume", "release"}, counted : SUBSET Request]
  /\ yk \in {"none", "held"} \union SettledYk
  /\ cached \subseteq Request /\ marked \subseteq Request
  /\ chapter \in [status : {"queued", "running", "interrupted"} \union Terminal,
                  cancel : BOOLEAN]
  /\ pipe \in [pc : {"off", "call", "reserve", "record", "send", "wait", "mark", "commit",
                     "rescue", "render", "done", "failed"},
               next : 1 .. Batches + 1]
  /\ closer \in [pc : {"idle", "settle", "wait", "write", "close"},
                 by : {"none", "pipeline", "runner", "worker"},
                 goal : {"none", "interrupted"} \union Terminal,
                 state : {"none", "held", "error"} \union SettledYk]
  /\ ykFaults \in 0 .. MaxYkFaults

\* The user is charged only for work that is on the disk: a consumed reservation
\* has a marker, the results it names, and the whole first call among them.
ChargedWorkIsKept ==
  reservation = "consumed" => First \subseteq marked /\ marked \subseteq cached

\* A refund never takes back the payment of a translation the user holds, unless its
\* request began after the settlement had counted: what the settlement saw of the
\* requests is still true when it releases, whatever calls, retries and deaths of the
\* processes come in between.
CountedWorkIsPaid ==
  [][reservation' = "released" /\ reservation # "released" =>
       cached \intersect settling.counted = {}]_ykVars

\* The file and the server never contradict each other, and no settlement, by any
\* process after any crash, asks for the refund of what was charged.
SettlementsAgree ==
  /\ yk \in SettledYk => reservation = yk
  /\ settling.pc \in Busy /\ reservation = "consumed" => settling.action = "consume"

===============================================================================
