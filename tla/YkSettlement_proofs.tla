-------------------------- MODULE YkSettlement_proofs --------------------------
(***************************************************************************)
(* What is proved of YkSettlement for any number of requests, any split    *)
(* into first calls and retries and any number of faults: types, that the  *)
(* file and the server agree, that a charged translation is on the disk,   *)
(* and that no refund takes back what its settlement has counted.          *)
(***************************************************************************)
EXTENDS YkSettlement, TLAPS

\* What holds of one call at work on its request.
EdgeInv ==
  \A q \in Request :
    /\ edge[q] = "claimed" => request[q] = "processing"
    /\ edge[q] = "called" => request[q] = "started"
    /\ edge[q] = "commit" => request[q] = "resulted"

\* Only results the server has completed are on the disk.
Kept == \A q \in cached : request[q] = "completed"

Calling == {"call", "reserve", "record", "send", "wait", "mark"}

\* The types, and the facts they need to stay: a call has a batch, who closes an
\* attempt knows to what end, and only a settlement that was granted is written.
YkBase ==
  /\ YkTypeOK
  /\ pipe.pc \in Calling => pipe.next \in Request
  /\ closer.by \in {"runner", "worker"} => closer.goal # "none"
  /\ closer.pc = "write" => closer.state \in SettledYk

\* The marker names whole calls whose results are on the disk, the first call before
\* any other, and a retry is sent only after it; a released reservation only replays,
\* without a marker.
MarkInv ==
  /\ marked # {} \/ pipe.next \notin First =>
       First \subseteq marked \/ reservation = "released"
  /\ marked \subseteq cached
  /\ pipe.pc \in {"call", "reserve", "record"} /\ pipe.next \in First => pipe.next = 1
  /\ pipe.pc \in {"send", "wait"} /\ pipe.next \in First =>
       \A q \in Request : q < pipe.next => q \in cached
  /\ pipe.pc = "mark" => CallOf(pipe.next) \subseteq cached

\* What a settlement decides is what the marker said when it was asked for, and
\* stays decided.
DecisionInv ==
  /\ reservation = "consumed" => marked # {}
  /\ settling.pc \in Busy /\ settling.action = "consume" => marked # {}
  /\ settling.pc \in Busy /\ reservation = "consumed" => settling.action = "consume"
  /\ settling.pc = "done" => reservation = Outcome(settling.action)
  /\ closer.pc = "write" => reservation = closer.state
  /\ yk \in SettledYk => reservation = yk

YkInv == YkBase /\ EdgeInv /\ Kept /\ MarkInv /\ DecisionInv

(***************************************************************************)
(* Which variables a group of steps leaves alone.                          *)
(***************************************************************************)

\* A call at work touches requests only.
LEMMA EdgeFrame ==
  EdgeNext => UNCHANGED <<reservation, settling, yk, cached, marked, chapter, pipe, closer>>
  BY DEF EdgeNext, BeginRequest, StartProvider, ProviderAnswers, CommitBatch, EdgeDies, files

\* A settlement touches neither the requests nor the pipeline nor its results.
LEMMA SettlementFrame ==
  SettlementNext => UNCHANGED <<request, edge, cached, marked, chapter, pipe>>
  BY DEF SettlementNext, AskSettlement, CountRequests, LockReservation, SettlementAnswered,
         SettlementLost, WriteSettlement, files, server

\* Starting, stopping and closing an attempt touch neither the server nor the files.
LEMMA AttemptFrame ==
  AttemptNext => UNCHANGED <<reservation, request, edge, settling, yk, cached, marked>>
  BY DEF AttemptNext, FinalizeAttempt, StopRunner, CloserDies, RecoverAttempt, CloseAttempt,
         CloseDeadAttempt, CancelChapter, ResumeChapter, files, server

\* The pipeline touches no request and no settlement by itself.
LEMMA PipelineFrame ==
  PipelineNext => UNCHANGED <<request, settling>>
  BY DEF PipelineNext, StartPipeline, FailBeforeTranslation, TranslateMany, ReserveYk,
         ReserveLost, RecordReservation, SendBatch, ReceiveBatch, BatchRefused, MarkReady,
         CommitTranslation, CommitReturns, RenderChapter, files, server

(***************************************************************************)
(* Where the pipeline goes.                                                *)
(***************************************************************************)

PipeType == [pc : {"off", "call", "reserve", "record", "send", "wait", "mark", "commit",
                   "rescue", "render", "done", "failed"},
             next : 1 .. Batches + 1]

\* The last batch of a call.
LEMMA LastOfCall ==
  ASSUME NEW q \in Request
  PROVE  /\ LastOf(q) \in Request /\ q <= LastOf(q) /\ LastOf(q) >= FirstBatches
         /\ q \notin First => LastOf(q) = q
         /\ q \in First => LastOf(q) = FirstBatches
  BY YkAssumption DEF LastOf, Request, First

\* After a call the next batch is a retry.
LEMMA CallReturnsTo ==
  ASSUME CallReturns, pipe.next \in Request
  PROVE  /\ pipe' \in PipeType /\ pipe'.pc \in {"commit", "call"} /\ pipe'.next \notin First
         /\ pipe'.pc \in Calling => pipe'.next \in Request
<1> DEFINE next == LastOf(pipe.next) + 1
<1>1. next \in 1 .. Batches + 1 /\ next \notin First
  BY LastOfCall, YkAssumption DEF Request, First
<1>2. \/ pipe' = [pc |-> "commit", next |-> next]
      \/ next \in Request /\ pipe' = [pc |-> "call", next |-> next]
  BY DEF CallReturns, PipeGoto
<1> HIDE DEF next
<1> QED BY <1>1, <1>2 DEF PipeType, Calling

\* An error ends the pipeline, or it commits first, or the call was a retry.
LEMMA RaisesTo ==
  ASSUME NEW systemic, Raises(systemic), pipe.next \in Request
  PROVE  /\ pipe' \in PipeType /\ pipe'.pc \in {"failed", "rescue", "commit", "call"}
         /\ pipe'.next \in First => pipe'.next = pipe.next /\ pipe'.pc = "failed"
         /\ pipe'.next # pipe.next => pipe.next \notin First
         /\ pipe'.pc \in Calling => pipe'.next \in Request /\ pipe'.next \notin First
<1>1. pipe.next \in 1 .. Batches + 1
  BY YkAssumption DEF Request
<1>2. CASE pipe' = [pc |-> "failed", next |-> pipe.next]
  BY <1>1, <1>2 DEF PipeType, Calling
<1>3. CASE pipe' = [pc |-> "rescue", next |-> pipe.next] /\ pipe.next \notin First
  BY <1>1, <1>3 DEF PipeType, Calling
<1>4. CASE CallReturns /\ pipe.next \notin First
  BY <1>4, CallReturnsTo
<1> QED BY <1>2, <1>3, <1>4 DEF Raises, PipeGoto

\* After a batch comes the next of its call, or the marker.
LEMMA NextBatchTo ==
  ASSUME NextBatch(pipe.next), pipe.next \in Request
  PROVE  /\ pipe' \in PipeType /\ pipe'.pc \in {"mark", "send"} /\ pipe'.next \in Request
         /\ pipe'.pc = "mark" => pipe'.next = pipe.next /\ pipe.next = LastOf(pipe.next)
         /\ pipe'.pc = "send" => /\ pipe.next \in First /\ pipe'.next = pipe.next + 1
                                 /\ pipe'.next \in First
<1>1. CASE pipe.next = LastOf(pipe.next)
  <2>1. pipe' = [pc |-> "mark", next |-> pipe.next]
    BY <1>1 DEF NextBatch, PipeGoto
  <2> QED BY <1>1, <2>1, YkAssumption DEF PipeType, Request
<1>2. CASE pipe.next # LastOf(pipe.next)
  <2>1. pipe' = [pc |-> "send", next |-> pipe.next + 1]
    BY <1>2 DEF NextBatch, PipeGoto
  <2>2. pipe.next \in First /\ pipe.next + 1 \in First
    BY <1>2, LastOfCall, YkAssumption DEF Request, First
  <2>3. pipe.next + 1 \in Request /\ pipe.next + 1 \in 1 .. Batches + 1
    BY <2>2, YkAssumption DEF Request, First
  <2> QED BY <2>1, <2>2, <2>3 DEF PipeType
<1> QED BY <1>1, <1>2

(***************************************************************************)
(* Types.                                                                  *)
(***************************************************************************)

EdgeState == {"off", "sent", "claimed", "called", "commit"}
SettlingType == [pc : {"off", "done", "refused"} \union Busy,
                 action : {"none", "consume", "release"}, counted : SUBSET Request]
ChapterType == [status : {"queued", "running", "interrupted"} \union Terminal,
                cancel : BOOLEAN]
CloserType == [pc : {"idle", "settle", "wait", "write", "close"},
               by : {"none", "pipeline", "runner", "worker"},
               goal : {"none", "interrupted"} \union Terminal,
               state : {"none", "held", "error"} \union SettledYk]
PipeOk == pipe \in PipeType /\ (pipe.pc \in Calling => pipe.next \in Request)
CloserOk ==
  /\ closer \in CloserType
  /\ closer.by \in {"runner", "worker"} => closer.goal # "none"
  /\ closer.pc = "write" => closer.state \in SettledYk

\* The base, variable by variable.
LEMMA BaseParts ==
  YkBase <=> /\ reservation \in {"none", "reserved"} \union SettledYk
             /\ request \in [Request -> RequestStatus] /\ edge \in [Request -> EdgeState]
             /\ settling \in SettlingType
             /\ yk \in {"none", "held"} \union SettledYk
             /\ cached \subseteq Request /\ marked \subseteq Request
             /\ chapter \in ChapterType /\ PipeOk /\ CloserOk
             /\ ykFaults \in 0 .. MaxYkFaults
  BY DEF YkBase, YkTypeOK, SettlingType, EdgeState, ChapterType, CloserType, PipeType, PipeOk,
         CloserOk

\* The base of the next state.
LEMMA BasePartsNext ==
  ASSUME reservation' \in {"none", "reserved"} \union SettledYk,
         request' \in [Request -> RequestStatus], edge' \in [Request -> EdgeState],
         settling' \in SettlingType, yk' \in {"none", "held"} \union SettledYk,
         cached' \subseteq Request, marked' \subseteq Request,
         chapter' \in ChapterType, PipeOk', CloserOk', ykFaults' \in 0 .. MaxYkFaults
  PROVE  YkBase'
  BY DEF YkBase, YkTypeOK, SettlingType, EdgeState, ChapterType, CloserType, PipeType, PipeOk,
         CloserOk

\* The first state has the types.
LEMMA BaseInit == SettleInit => YkBase
<1> SUFFICES ASSUME SettleInit PROVE YkBase
  OBVIOUS
<1> USE YkAssumption
<1>1. request \in [Request -> RequestStatus] /\ edge \in [Request -> EdgeState]
  BY DEF SettleInit, RequestStatus, EdgeState
<1>2. settling \in SettlingType /\ chapter \in ChapterType
  BY DEF SettleInit, NoSettling, SettlingType, ChapterType
<1>3. PipeOk
  BY DEF SettleInit, NoPipe, PipeOk, PipeType, Calling
<1>4. CloserOk
  BY DEF SettleInit, NoCloser, CloserOk, CloserType
<1> QED BY <1>1, <1>2, <1>3, <1>4, BaseParts DEF SettleInit

\* No step exceeds the bound on faults.
LEMMA FaultTypes ==
  ASSUME YkBase, SettleNext
  PROVE  ykFaults' \in 0 .. MaxYkFaults
<1>1. ykFaults \in 0 .. MaxYkFaults
  BY BaseParts
<1>2. YkFault => ykFaults' \in 0 .. MaxYkFaults
  BY <1>1, YkAssumption DEF YkFault
<1>3. YkFault \/ UNCHANGED ykFaults
  BY DEF SettleNext, EdgeNext, PipelineNext, SettlementNext, AttemptNext, BeginRequest,
         StartProvider, ProviderAnswers, CommitBatch, EdgeDies, StartPipeline,
         FailBeforeTranslation, TranslateMany, ReserveYk, ReserveLost, RecordReservation,
         SendBatch, ReceiveBatch, BatchRefused, MarkReady, CommitTranslation, CommitReturns,
         RenderChapter, AskSettlement, CountRequests, LockReservation, SettlementAnswered,
         SettlementLost, WriteSettlement, FinalizeAttempt, StopRunner, CloserDies,
         RecoverAttempt, CloseAttempt, CloseDeadAttempt, CancelChapter, ResumeChapter
<1> QED BY <1>1, <1>2, <1>3

\* A call at work keeps the types.
LEMMA EdgeTypes ==
  ASSUME YkBase, EdgeNext
  PROVE  request' \in [Request -> RequestStatus] /\ edge' \in [Request -> EdgeState]
<1>1. request \in [Request -> RequestStatus] /\ edge \in [Request -> EdgeState]
  BY BaseParts
<1>2. \A q \in Request, v \in RequestStatus : Row(q, v) => request' \in [Request -> RequestStatus]
  BY <1>1 DEF Row
<1>3. \A q \in Request, v \in EdgeState : Edge(q, v) => edge' \in [Request -> EdgeState]
  BY <1>1 DEF Edge
<1>4. PICK q \in Request : BeginRequest(q) \/ StartProvider(q) \/ ProviderAnswers(q)
                            \/ CommitBatch(q) \/ EdgeDies(q)
  BY DEF EdgeNext
<1>5. \E v \in EdgeState : Edge(q, v)
  BY <1>4 DEF BeginRequest, StartProvider, ProviderAnswers, CommitBatch, EdgeDies, EdgeState
<1>6. UNCHANGED request \/ \E v \in RequestStatus : Row(q, v)
  BY <1>4 DEF BeginRequest, StartProvider, ProviderAnswers, CommitBatch, EdgeDies, RequestStatus
<1> QED BY <1>1, <1>2, <1>3, <1>5, <1>6

\* The pipeline's place keeps its type, and a batch while it is in a call.
LEMMA PipelinePipe ==
  ASSUME YkBase, PipelineNext
  PROVE  PipeOk'
<1> USE YkAssumption
<1>0. pipe \in PipeType /\ (pipe.pc \in Calling => pipe.next \in Request)
  BY BaseParts DEF PipeOk
<1>1. CASE StartPipeline \/ FailBeforeTranslation
  <2>1. \E pc \in {"call", "failed"} : PipeGoto(pc, 1)
    BY <1>1 DEF StartPipeline, FailBeforeTranslation
  <2> QED BY <2>1 DEF PipeGoto, PipeOk, PipeType, Request, Calling
<1>2. CASE TranslateMany
  <2>1. pipe.next \in Request
    BY <1>0, <1>2 DEF TranslateMany, PipeAt, Calling
  <2>2. CASE PipeGoto("reserve", pipe.next)
    BY <1>0, <2>1, <2>2 DEF PipeGoto, PipeOk, PipeType
  <2> QED BY <1>2, <2>1, <2>2, CallReturnsTo, RaisesTo DEF TranslateMany, PipeOk
<1>3. CASE ReserveYk \/ RecordReservation
  <2>1. pipe.next \in Request
    BY <1>0, <1>3 DEF ReserveYk, RecordReservation, PipeAt, Calling
  <2>2. \E pc \in {"record", "failed", "send"} : PipeGoto(pc, pipe.next)
    BY <1>3 DEF ReserveYk, RecordReservation
  <2> QED BY <1>0, <2>1, <2>2 DEF PipeGoto, PipeOk, PipeType
<1>4. CASE ReserveLost \/ BatchRefused
  <2>1. pipe.next \in Request /\ Raises(TRUE)
    BY <1>0, <1>4 DEF ReserveLost, BatchRefused, PipeAt, Calling
  <2> QED BY <2>1, RaisesTo DEF PipeOk
<1>5. CASE SendBatch
  <2>1. pipe.next \in Request
    BY <1>0, <1>5 DEF SendBatch, PipeAt, Calling
  <2>2. CASE PipeGoto("wait", pipe.next)
    BY <1>0, <2>1, <2>2 DEF PipeGoto, PipeOk, PipeType
  <2>3. CASE NextBatch(pipe.next) \/ Raises(FALSE)
    BY <2>1, <2>3, NextBatchTo, RaisesTo DEF PipeOk
  <2> QED BY <1>5, <2>2, <2>3 DEF SendBatch
<1>6. CASE ReceiveBatch
  <2>1. pipe.next \in Request /\ (NextBatch(pipe.next) \/ Raises(FALSE))
    BY <1>0, <1>6 DEF ReceiveBatch, PipeAt, Calling
  <2> QED BY <2>1, NextBatchTo, RaisesTo DEF PipeOk
<1>7. CASE MarkReady
  <2>1. pipe.next \in Request /\ CallReturns
    BY <1>0, <1>7 DEF MarkReady, PipeAt, Calling
  <2> QED BY <2>1, CallReturnsTo DEF PipeOk
<1>8. CASE CommitReturns \/ RenderChapter
  <2>1. \E pc \in {"render", "failed", "done"} : PipeGoto(pc, pipe.next)
    BY <1>8 DEF CommitReturns, RenderChapter
  <2> QED BY <1>0, <2>1 DEF PipeGoto, PipeOk, PipeType, Calling
<1>9. CASE CommitTranslation
  BY <1>0, <1>9 DEF CommitTranslation, PipeOk
<1> QED BY <1>1, <1>2, <1>3, <1>4, <1>5, <1>6, <1>7, <1>8, <1>9 DEF PipelineNext

\* The pipeline keeps the types of what else it touches.
LEMMA PipelineTypes ==
  ASSUME YkBase, PipelineNext
  PROVE  /\ reservation' \in {"none", "reserved"} \union SettledYk
         /\ edge' \in [Request -> EdgeState] /\ yk' \in {"none", "held"} \union SettledYk
         /\ cached' \subseteq Request /\ marked' \subseteq Request
         /\ chapter' \in ChapterType /\ CloserOk'
<1>0. /\ reservation \in {"none", "reserved"} \union SettledYk
      /\ edge \in [Request -> EdgeState] /\ yk \in {"none", "held"} \union SettledYk
      /\ cached \subseteq Request /\ marked \subseteq Request
      /\ chapter \in ChapterType /\ CloserOk /\ (pipe.pc \in Calling => pipe.next \in Request)
  BY BaseParts DEF PipeOk
<1>1. CASE ReserveYk \/ ReserveLost
  BY <1>0, <1>1 DEF ReserveYk, ReserveLost, Reserved, files, CloserOk
<1>2. CASE RecordReservation
  BY <1>0, <1>2 DEF RecordReservation, server, CloserOk
<1>3. CASE SendBatch
  <2>1. edge' \in [Request -> EdgeState]
    BY <1>0, <1>3 DEF SendBatch, Edge, EdgeState
  <2> QED BY <1>0, <1>3, <2>1 DEF SendBatch, files, CloserOk
<1>4. CASE ReceiveBatch
  <2>1. cached' \subseteq Request
    BY <1>0, <1>4 DEF ReceiveBatch, PipeAt, Calling
  <2> QED BY <1>0, <1>4, <2>1 DEF ReceiveBatch, server, CloserOk
<1>5. CASE MarkReady
  <2>1. pipe.next \in Request
    BY <1>0, <1>5 DEF MarkReady, PipeAt, Calling
  <2>2. CallOf(pipe.next) \subseteq Request
    BY <2>1, YkAssumption DEF CallOf, First, Request
  <2> QED BY <1>0, <1>5, <2>2 DEF MarkReady, server, CloserOk
<1>6. CASE StartPipeline
  <2>1. chapter' \in ChapterType
    BY <1>0, <1>6 DEF StartPipeline, ChapterType
  <2> QED BY <1>0, <1>6, <2>1 DEF StartPipeline, server, files, CloserOk
<1>7. CASE CommitTranslation \/ CommitReturns
  <2>1. CloserOk'
    BY <1>0, <1>7 DEF CommitTranslation, CommitReturns, NoCloser, CloserOk, CloserType
  <2> QED BY <1>0, <1>7, <2>1 DEF CommitTranslation, CommitReturns, server, files
<1>8. CASE UNCHANGED <<reservation, edge, yk, cached, marked, chapter, closer>>
  BY <1>0, <1>8 DEF CloserOk
<1> QED BY <1>1, <1>2, <1>3, <1>4, <1>5, <1>6, <1>7, <1>8
        DEF PipelineNext, FailBeforeTranslation, TranslateMany, BatchRefused, RenderChapter,
            server, files

\* A settlement keeps the types of what it touches.
LEMMA SettlementTypes ==
  ASSUME YkBase, SettlementNext
  PROVE  /\ reservation' \in {"none", "reserved"} \union SettledYk
         /\ settling' \in SettlingType /\ yk' \in {"none", "held"} \union SettledYk /\ CloserOk'
<1>0. /\ reservation \in {"none", "reserved"} \union SettledYk
      /\ settling \in SettlingType /\ yk \in {"none", "held"} \union SettledYk
      /\ closer \in CloserType /\ (closer.by \in {"runner", "worker"} => closer.goal # "none")
      /\ (closer.pc = "write" => closer.state \in SettledYk)
  BY BaseParts DEF CloserOk
<1>a. \A a : Outcome(a) \in SettledYk
  BY DEF Outcome, SettledYk
<1>1. CASE AskSettlement
  <2>1. settling' \in SettlingType
    <3>1. CASE yk = "held"
      <4>1. settling' = [pc |-> "count", action |-> SettleAction, counted |-> {}]
        BY <1>1, <3>1 DEF AskSettlement
      <4>2. SettleAction \in {"consume", "release"}
        BY DEF SettleAction
      <4> QED BY <4>1, <4>2 DEF SettlingType, Busy
    <3>2. CASE yk # "held"
      BY <1>0, <1>1, <3>2 DEF AskSettlement
    <3> QED BY <3>1, <3>2
  <2>2. CloserOk'
    <3>1. CASE closer' = [closer EXCEPT !.pc = "wait"]
      BY <1>0, <3>1 DEF CloserOk, CloserType
    <3>2. CASE closer' = [closer EXCEPT !.pc = "close", !.state = yk]
      BY <1>0, <3>2 DEF CloserOk, CloserType
    <3>3. CASE yk = "held"
      BY <1>1, <3>1, <3>3 DEF AskSettlement
    <3>4. CASE yk # "held"
      BY <1>1, <3>2, <3>4 DEF AskSettlement
    <3> QED BY <3>3, <3>4
  <2> QED BY <1>0, <1>1, <2>1, <2>2 DEF AskSettlement, files
<1>2. CASE CountRequests
  <2>1. settling' \in SettlingType
    <3> DEFINE c == {q \in Request : request[q] # "absent"}
    <3>1. settling' = [settling EXCEPT !.pc = "lock", !.counted = c]
      BY <1>2 DEF CountRequests
    <3>2. c \in SUBSET Request
      OBVIOUS
    <3> HIDE DEF c
    <3> QED BY <1>0, <3>1, <3>2 DEF SettlingType, Busy
  <2> QED BY <1>0, <1>2, <2>1 DEF CountRequests, files, CloserOk
<1>3. CASE LockReservation
  <2>1. \E v \in {"done", "refused"} : settling' = [settling EXCEPT !.pc = v, !.counted = {}]
    BY <1>3 DEF LockReservation
  <2>2. settling' \in SettlingType
    BY <1>0, <2>1 DEF SettlingType
  <2>3. reservation' \in {reservation, Outcome(settling.action)}
    BY <1>3 DEF LockReservation
  <2> QED BY <1>0, <1>a, <1>3, <2>2, <2>3 DEF LockReservation, files, CloserOk
<1>4. CASE SettlementAnswered \/ SettlementLost \/ WriteSettlement
  <2>1. settling' \in SettlingType
    <3>1. settling' = NoSettling \/ UNCHANGED settling
      <4>1. CASE SettlementAnswered
        BY <4>1 DEF SettlementAnswered
      <4>2. CASE SettlementLost
        <5>1. UNCHANGED server
          BY <4>2 DEF SettlementLost
        <5> QED BY <5>1 DEF server
      <4>3. CASE WriteSettlement
        BY <4>3 DEF WriteSettlement, server
      <4> QED BY <1>4, <4>1, <4>2, <4>3
    <3>2. NoSettling \in SettlingType
      BY DEF NoSettling, SettlingType
    <3> QED BY <1>0, <3>1, <3>2
  <2>2. \/ closer' = [closer EXCEPT !.pc = "write", !.state = Outcome(settling.action)]
        \/ closer' = [closer EXCEPT !.pc = "close", !.state = "error"]
        \/ closer' = [closer EXCEPT !.pc = "close"]
    <3>1. CASE SettlementAnswered
      BY <3>1 DEF SettlementAnswered
    <3>2. CASE SettlementLost
      BY <3>2 DEF SettlementLost
    <3>3. CASE WriteSettlement
      BY <3>3 DEF WriteSettlement
    <3> QED BY <1>4, <3>1, <3>2, <3>3
  <2>3. CloserOk'
    <3>1. Outcome(settling.action) \in SettledYk
      BY <1>a
    <3> QED BY <1>0, <2>2, <3>1 DEF CloserOk, CloserType
  <2>4. CASE WriteSettlement
    <3>1. yk' \in {"none", "held"} \union SettledYk
      BY <1>0, <2>4 DEF WriteSettlement, CloserAt
    <3> QED BY <1>0, <2>1, <2>3, <2>4, <3>1 DEF WriteSettlement, server
  <2> QED BY <1>0, <1>4, <2>1, <2>3, <2>4 DEF SettlementAnswered, SettlementLost, files, server
<1> QED BY <1>1, <1>2, <1>3, <1>4 DEF SettlementNext

\* Starting, stopping and closing an attempt keep the types.
LEMMA AttemptTypes ==
  ASSUME YkBase, AttemptNext
  PROVE  chapter' \in ChapterType /\ PipeOk' /\ CloserOk'
<1>0. chapter \in ChapterType /\ PipeOk /\ CloserOk
  BY BaseParts
<1>1. NoPipe \in PipeType /\ NoPipe.pc \notin Calling
  BY YkAssumption DEF NoPipe, PipeType, Calling
<1>2. pipe' = NoPipe \/ UNCHANGED pipe
  BY DEF AttemptNext, FinalizeAttempt, StopRunner, CloserDies, RecoverAttempt, CloseAttempt,
         CloseDeadAttempt, CancelChapter, ResumeChapter
<1>3. PipeOk'
  BY <1>0, <1>1, <1>2 DEF PipeOk
<1>4. ASSUME NEW by \in {"runner", "worker"}, NEW goal \in {"interrupted"} \union Terminal,
             Settle(by, goal)
      PROVE  CloserOk'
  BY <1>4 DEF Settle, CloserOk, CloserType, Terminal
<1>5. CloserOk'
  <2>1. CASE FinalizeAttempt
    BY <1>4, <2>1 DEF FinalizeAttempt, Terminal
  <2>2. CASE StopRunner
    BY <1>4, <2>2 DEF StopRunner
  <2>3. CASE RecoverAttempt
    BY <1>4, <2>3 DEF RecoverAttempt, Terminal
  <2>4. CASE closer' = NoCloser
    BY <2>4 DEF NoCloser, CloserOk, CloserType
  <2>5. CASE UNCHANGED closer
    BY <1>0, <2>5 DEF CloserOk
  <2> QED BY <2>1, <2>2, <2>3, <2>4, <2>5
          DEF AttemptNext, CloserDies, CloseAttempt, CloseDeadAttempt, CancelChapter, ResumeChapter
<1>6. chapter' \in ChapterType
  <2>1. CASE CloseAttempt
    <3>1. closer.goal \in {"interrupted"} \union Terminal
      BY <1>0, <2>1 DEF CloseAttempt, CloserOk, CloserType
    <3>2. PICK v \in {"interrupted", "failed", closer.goal} :
            chapter' = [chapter EXCEPT !.status = v]
      BY <2>1 DEF CloseAttempt
    <3>3. v \in {"interrupted"} \union Terminal
      BY <3>1 DEF Terminal
    <3> QED BY <1>0, <3>2, <3>3 DEF ChapterType
  <2>2. CASE CloseDeadAttempt
    BY <1>0, <2>2 DEF CloseDeadAttempt, ChapterType, Terminal
  <2>3. CASE CancelChapter
    <3>1. CASE chapter' = [chapter EXCEPT !.status = "cancelled"]
      BY <1>0, <3>1 DEF ChapterType, Terminal
    <3>2. CASE chapter' = [chapter EXCEPT !.cancel = TRUE]
      BY <1>0, <3>2 DEF ChapterType
    <3> QED BY <2>3, <3>1, <3>2 DEF CancelChapter
  <2>4. CASE ResumeChapter
    BY <2>4 DEF ResumeChapter, ChapterType
  <2>5. CASE UNCHANGED chapter
    BY <1>0, <2>5
  <2> QED BY <2>1, <2>2, <2>3, <2>4, <2>5
          DEF AttemptNext, FinalizeAttempt, StopRunner, CloserDies, RecoverAttempt
<1> QED BY <1>3, <1>5, <1>6

\* Every step keeps the types.
LEMMA BaseStep ==
  ASSUME YkBase, [SettleNext]_ykVars
  PROVE  YkBase'
<1>1. CASE EdgeNext
  BY <1>1, EdgeTypes, EdgeFrame, FaultTypes, BaseParts, BasePartsNext DEF SettleNext, PipeOk, CloserOk
<1>2. CASE PipelineNext
  BY <1>2, PipelinePipe, PipelineTypes, PipelineFrame, FaultTypes, BaseParts, BasePartsNext
     DEF SettleNext
<1>3. CASE SettlementNext
  BY <1>3, SettlementTypes, SettlementFrame, FaultTypes, BaseParts, BasePartsNext
     DEF SettleNext, PipeOk
<1>4. CASE AttemptNext
  BY <1>4, AttemptTypes, AttemptFrame, FaultTypes, BaseParts, BasePartsNext DEF SettleNext
<1>5. CASE UNCHANGED ykVars
  BY <1>5, BaseParts, BasePartsNext DEF ykVars, server, files, PipeOk, CloserOk
<1> QED BY <1>1, <1>2, <1>3, <1>4, <1>5 DEF SettleNext

\* Every variable keeps its type.
THEOREM YkTypes == SettleSpec => []YkTypeOK
<1>1. YkBase => YkTypeOK
  BY DEF YkBase
<1>2. YkBase /\ [SettleNext]_ykVars => YkBase'
  BY BaseStep
<1> QED BY <1>1, <1>2, BaseInit, PTL DEF SettleSpec

(***************************************************************************)
(* Calls and results.                                                      *)
(***************************************************************************)

\* A step of one call says nothing of the others, and leaves a completed request
\* completed.
LEMMA EdgeStep ==
  ASSUME YkBase, EdgeInv, EdgeNext
  PROVE  /\ EdgeInv'
         /\ \A q \in Request : request[q] = "completed" => request'[q] = "completed"
<1>0. request \in [Request -> RequestStatus] /\ edge \in [Request -> EdgeState]
  BY BaseParts
<1>1. PICK q \in Request : BeginRequest(q) \/ StartProvider(q) \/ ProviderAnswers(q)
                            \/ CommitBatch(q) \/ EdgeDies(q)
  BY DEF EdgeNext
<1>2. \E v, w : edge' = [edge EXCEPT ![q] = v] /\ request' = [request EXCEPT ![q] = w]
  <2>1. \A f \in [Request -> RequestStatus] : f = [f EXCEPT ![q] = f[q]]
    OBVIOUS
  <2>2. \E v : edge' = [edge EXCEPT ![q] = v]
    BY <1>1 DEF BeginRequest, StartProvider, ProviderAnswers, CommitBatch, EdgeDies, Edge
  <2>3. \E w : request' = [request EXCEPT ![q] = w]
    BY <1>0, <1>1, <2>1 DEF BeginRequest, StartProvider, ProviderAnswers, CommitBatch, EdgeDies, Row
  <2> QED BY <2>2, <2>3
<1>3. \A p \in Request \ {q} : edge'[p] = edge[p] /\ request'[p] = request[p]
  BY <1>0, <1>2
<1>4. /\ edge[q] = "claimed" => request[q] = "processing"
      /\ edge[q] = "called" => request[q] = "started"
      /\ edge[q] = "commit" => request[q] = "resulted"
  BY DEF EdgeInv
<1> DEFINE Goal ==
      /\ edge'[q] = "claimed" => request'[q] = "processing"
      /\ edge'[q] = "called" => request'[q] = "started"
      /\ edge'[q] = "commit" => request'[q] = "resulted"
      /\ request[q] = "completed" => request'[q] = "completed"
<1>5. Goal
  <2>1. CASE BeginRequest(q)
    <3>1. CASE request[q] = "absent" /\ reservation = "reserved"
      BY <1>0, <2>1, <3>1 DEF BeginRequest, Row, Edge
    <3>2. CASE request[q] = "processing"
      BY <1>0, <2>1, <3>2 DEF BeginRequest, Row, Edge
    <3>3. CASE request[q] = "resulted"
      BY <1>0, <2>1, <3>3 DEF BeginRequest, Row, Edge
    <3>4. CASE /\ ~(request[q] = "absent" /\ reservation = "reserved")
               /\ request[q] \notin {"processing", "resulted"}
      BY <1>0, <2>1, <3>4 DEF BeginRequest, Row, Edge
    <3> QED BY <3>1, <3>2, <3>3, <3>4
  <2>2. CASE StartProvider(q)
    BY <1>0, <1>4, <2>2 DEF StartProvider, Row, Edge
  <2>3. CASE ProviderAnswers(q)
    BY <1>0, <1>4, <2>3 DEF ProviderAnswers, Row, Edge
  <2>4. CASE CommitBatch(q)
    BY <1>0, <1>4, <2>4 DEF CommitBatch, Row, Edge
  <2>5. CASE EdgeDies(q)
    BY <1>0, <2>5 DEF EdgeDies, Edge
  <2> QED BY <1>1, <2>1, <2>2, <2>3, <2>4, <2>5
<1>6. \A p \in Request : (edge'[p] = edge[p] /\ request'[p] = request[p]) \/ p = q
  BY <1>3
<1> QED BY <1>5, <1>6 DEF EdgeInv

\* A call that is sent claims nothing yet.
LEMMA SendKeepsEdges ==
  ASSUME YkBase, EdgeInv, PipelineNext
  PROVE  EdgeInv'
<1>0. edge \in [Request -> EdgeState] /\ UNCHANGED request
  BY BaseParts, PipelineFrame
<1>1. UNCHANGED edge \/ \E q \in Request : edge' = [edge EXCEPT ![q] = "sent"]
  <2>1. CASE SendBatch
    <3>1. pipe.next \in Request
      BY <2>1 DEF YkBase, SendBatch, PipeAt, Calling
    <3> QED BY <2>1, <3>1 DEF SendBatch, Edge
  <2>2. CASE ~SendBatch
    BY <2>2 DEF PipelineNext, StartPipeline, FailBeforeTranslation, TranslateMany, ReserveYk,
         ReserveLost, RecordReservation, ReceiveBatch, BatchRefused, MarkReady,
         CommitTranslation, CommitReturns, RenderChapter, server
  <2> QED BY <2>1, <2>2
<1> QED BY <1>0, <1>1 DEF EdgeInv

\* Every step keeps what a call at work knows of its request.
LEMMA EdgeInvStep ==
  ASSUME YkBase, EdgeInv, [SettleNext]_ykVars
  PROVE  EdgeInv'
<1>1. CASE EdgeNext
  BY <1>1, EdgeStep
<1>2. CASE PipelineNext
  BY <1>2, SendKeepsEdges
<1>3. CASE UNCHANGED <<request, edge>>
  BY <1>3 DEF EdgeInv
<1> QED BY <1>1, <1>2, <1>3, SettlementFrame, AttemptFrame DEF SettleNext, ykVars, server

\* A result is written to the disk when its request is completed.
LEMMA KeptStep ==
  ASSUME YkBase, EdgeInv, Kept, [SettleNext]_ykVars
  PROVE  Kept'
<1>0. cached \subseteq Request
  BY BaseParts
<1>1. CASE EdgeNext
  BY <1>0, <1>1, EdgeStep, EdgeFrame DEF Kept
<1>2. CASE PipelineNext
  <2>1. UNCHANGED request
    BY <1>2, PipelineFrame
  <2>2. CASE ReceiveBatch
    BY <2>1, <2>2 DEF ReceiveBatch, Kept
  <2>3. CASE ~ReceiveBatch
    <3>1. UNCHANGED cached
      BY <1>2, <2>3
         DEF PipelineNext, StartPipeline, FailBeforeTranslation, TranslateMany, ReserveYk,
             ReserveLost, RecordReservation, SendBatch, BatchRefused, MarkReady,
             CommitTranslation, CommitReturns, RenderChapter, files
    <3> QED BY <2>1, <3>1 DEF Kept
  <2> QED BY <2>2, <2>3
<1>3. CASE UNCHANGED <<request, cached>>
  BY <1>3 DEF Kept
<1> QED BY <1>1, <1>2, <1>3, SettlementFrame, AttemptFrame DEF SettleNext, ykVars, server, files

(***************************************************************************)
(* The marker.                                                             *)
(***************************************************************************)

\* A reservation that was released stays so.
LEMMA ReleasedStays ==
  [SettleNext]_ykVars /\ reservation = "released" => reservation' = "released"
<1> SUFFICES ASSUME [SettleNext]_ykVars, reservation = "released"
             PROVE  reservation' = "released"
  OBVIOUS
<1>1. CASE PipelineNext
  BY <1>1 DEF PipelineNext, StartPipeline, FailBeforeTranslation, TranslateMany, ReserveYk,
         ReserveLost, Reserved, RecordReservation, SendBatch, ReceiveBatch, BatchRefused,
         MarkReady, CommitTranslation, CommitReturns, RenderChapter, server
<1>2. CASE SettlementNext
  BY <1>2 DEF SettlementNext, AskSettlement, CountRequests, LockReservation,
         SettlementAnswered, SettlementLost, WriteSettlement, server
<1> QED BY <1>1, <1>2, EdgeFrame, AttemptFrame DEF SettleNext, ykVars, server

\* Out of a call, the marker is what it was.
LEMMA MarkStays ==
  ASSUME MarkInv, UNCHANGED <<marked, cached>>, pipe'.pc \notin Calling,
         reservation = "released" => reservation' = "released",
         pipe'.next \notin First => First \subseteq marked \/ reservation = "released"
  PROVE  MarkInv'
  BY DEF MarkInv, Calling

\* A call that is over has its first batches in the marker.
LEMMA MarkReturns ==
  ASSUME CallReturns, pipe.next \in Request, marked' \subseteq cached',
         First \subseteq marked' \/ reservation' = "released"
  PROVE  MarkInv'
<1>1. pipe'.pc \in {"commit", "call"} /\ pipe'.next \notin First
  BY CallReturnsTo
<1> QED BY <1>1 DEF MarkInv

\* An error leaves the first call without a marker and a retry behind it.
LEMMA MarkRaises ==
  ASSUME MarkInv, UNCHANGED <<marked, cached>>, pipe.next \in Request,
         reservation = "released" => reservation' = "released",
         NEW systemic, Raises(systemic)
  PROVE  MarkInv'
<1>1. /\ pipe'.pc \in {"failed", "rescue", "commit", "call"}
      /\ pipe'.next \in First => pipe'.next = pipe.next /\ pipe'.pc = "failed"
      /\ pipe'.next # pipe.next => pipe.next \notin First
  BY RaisesTo
<1> QED BY <1>1 DEF MarkInv

\* Every step of the pipeline keeps the marker true.
LEMMA MarkPipeline ==
  ASSUME YkBase, Kept, MarkInv, DecisionInv, PipelineNext
  PROVE  MarkInv'
<1> USE YkAssumption
<1>0. pipe \in PipeType /\ (pipe.pc \in Calling => pipe.next \in Request)
  BY BaseParts DEF PipeOk
<1>r. reservation = "released" => reservation' = "released"
  BY ReleasedStays DEF SettleNext
<1>1. CASE StartPipeline
  <2>1. pipe' = [pc |-> "call", next |-> 1] /\ UNCHANGED <<marked, cached>>
    BY <1>1 DEF StartPipeline, PipeGoto, files
  <2>2. 1 \in First
    BY DEF First
  <2> QED BY <1>r, <2>1, <2>2 DEF MarkInv
<1>2. CASE FailBeforeTranslation
  <2>1. pipe' = [pc |-> "failed", next |-> 1] /\ UNCHANGED <<marked, cached>>
    BY <1>2 DEF FailBeforeTranslation, PipeGoto, files
  <2>2. 1 \in First
    BY DEF First
  <2> QED BY <1>r, <2>1, <2>2, MarkStays DEF Calling
<1>3. CASE TranslateMany
  <2>1. pipe.next \in Request /\ UNCHANGED <<marked, cached>> /\ pipe.pc = "call"
    BY <1>0, <1>3 DEF TranslateMany, PipeAt, Calling, files
  <2>2. CASE yk \notin SettledYk
    <3>1. pipe' = [pc |-> "reserve", next |-> pipe.next]
      BY <1>3, <2>2 DEF TranslateMany, PipeGoto
    <3> QED BY <1>r, <2>1, <3>1 DEF MarkInv
  <2>3. CASE yk \in SettledYk /\ CallReturns /\ CallOf(pipe.next) \subseteq cached
    <3>1. First \subseteq marked \/ reservation = "released"
      BY <2>3 DEF DecisionInv, MarkInv, SettledYk
    <3>2. marked' \subseteq cached'
      BY <2>1 DEF MarkInv
    <3> QED BY <1>r, <2>1, <2>3, <3>1, <3>2, MarkReturns
  <2>4. CASE Raises(TRUE)
    BY <1>r, <2>1, <2>4, MarkRaises
  <2> QED BY <1>3, <2>2, <2>3, <2>4 DEF TranslateMany
<1>4. CASE ReserveYk \/ RecordReservation
  <2>1. pipe.pc \in {"reserve", "record"} /\ UNCHANGED <<marked, cached>>
    BY <1>4 DEF ReserveYk, RecordReservation, PipeAt, files
  <2>2. \E pc \in {"record", "failed", "send"} : pipe' = [pc |-> pc, next |-> pipe.next]
    BY <1>4 DEF ReserveYk, RecordReservation, PipeGoto
  <2>3. \A q \in Request : ~(q < 1)
    BY DEF Request
  <2> QED BY <1>r, <2>1, <2>2, <2>3 DEF MarkInv
<1>5. CASE ReserveLost \/ BatchRefused
  <2>1. pipe.next \in Request /\ Raises(TRUE) /\ UNCHANGED <<marked, cached>>
    BY <1>0, <1>5 DEF ReserveLost, BatchRefused, PipeAt, Calling, files
  <2> QED BY <1>r, <2>1, MarkRaises
<1>6. ASSUME pipe.pc \in {"send", "wait"}, pipe.next \in Request, NextBatch(pipe.next),
             UNCHANGED marked, cached \subseteq cached', pipe.next \in cached'
      PROVE  MarkInv'
  <2>1. marked' \subseteq cached'
    BY <1>6 DEF MarkInv
  <2>2. pipe.next \in First => \A q \in Request : q < pipe.next => q \in cached
    BY <1>6 DEF MarkInv
  <2>3. CASE pipe'.pc = "mark"
    <3>1. pipe'.next = pipe.next /\ pipe.next = LastOf(pipe.next)
      BY <1>6, <2>3, NextBatchTo
    <3>2. CallOf(pipe.next) \subseteq cached'
      <4>1. CASE pipe.next \in First
        <5>1. pipe.next = FirstBatches
          BY <1>6, <3>1, <4>1, LastOfCall
        <5>2. \A q \in First : q \in Request /\ (q < pipe.next \/ q = pipe.next)
          BY <5>1 DEF First, Request
        <5> QED BY <1>6, <2>2, <4>1, <5>2 DEF CallOf
      <4>2. CASE pipe.next \notin First
        BY <1>6, <4>2 DEF CallOf
      <4> QED BY <4>1, <4>2
    <3> QED BY <1>r, <1>6, <2>1, <2>3, <3>1, <3>2 DEF MarkInv, CallOf
  <2>4. CASE pipe'.pc = "send"
    <3>1. pipe.next \in First /\ pipe'.next = pipe.next + 1 /\ pipe'.next \in First
      BY <1>6, <2>4, NextBatchTo
    <3>2. \A q \in Request : q < pipe.next + 1 => q < pipe.next \/ q = pipe.next
      BY <1>6 DEF Request
    <3>3. \A q \in Request : q < pipe'.next => q \in cached'
      BY <1>6, <2>2, <3>1, <3>2
    <3> QED BY <1>r, <1>6, <2>1, <2>4, <3>1, <3>3 DEF MarkInv
  <2> QED BY <1>6, <2>3, <2>4, NextBatchTo
<1>7. CASE SendBatch
  <2>1. pipe.next \in Request /\ pipe.pc = "send" /\ UNCHANGED <<marked, cached>>
    BY <1>0, <1>7 DEF SendBatch, PipeAt, Calling, files
  <2>2. CASE pipe' = [pc |-> "wait", next |-> pipe.next]
    BY <1>r, <2>1, <2>2 DEF MarkInv
  <2>3. CASE pipe.next \in cached /\ NextBatch(pipe.next)
    BY <1>6, <2>1, <2>3
  <2>4. CASE Raises(FALSE)
    BY <1>r, <2>1, <2>4, MarkRaises
  <2> QED BY <1>7, <2>2, <2>3, <2>4 DEF SendBatch, PipeGoto
<1>8. CASE ReceiveBatch
  <2>1. pipe.next \in Request /\ pipe.pc = "wait" /\ UNCHANGED marked
    BY <1>0, <1>8 DEF ReceiveBatch, PipeAt, Calling
  <2>2. CASE cached' = cached \union {pipe.next} /\ NextBatch(pipe.next)
    BY <1>6, <2>1, <2>2
  <2>3. CASE Raises(FALSE) /\ UNCHANGED cached
    BY <1>r, <2>1, <2>3, MarkRaises
  <2> QED BY <1>8, <2>2, <2>3 DEF ReceiveBatch
<1>9. CASE MarkReady
  <2>1. pipe.next \in Request /\ pipe.pc = "mark" /\ CallReturns /\ UNCHANGED cached
        /\ marked' = marked \union CallOf(pipe.next)
    BY <1>0, <1>9 DEF MarkReady, PipeAt, Calling
  <2>2. marked' \subseteq cached'
    BY <2>1 DEF MarkInv
  <2>3. First \subseteq marked' \/ reservation' = "released"
    BY <1>r, <2>1 DEF MarkInv, CallOf
  <2> QED BY <2>1, <2>2, <2>3, MarkReturns
<1>10. CASE CommitTranslation
  <2>1. UNCHANGED <<pipe, marked, cached>>
    BY <1>10 DEF CommitTranslation, files
  <2> QED BY <1>r, <2>1 DEF MarkInv, CallOf
<1>11. CASE CommitReturns \/ RenderChapter
  <2>1. \E pc \in {"render", "failed", "done"} : pipe' = [pc |-> pc, next |-> pipe.next]
    BY <1>11 DEF CommitReturns, RenderChapter, PipeGoto
  <2>2. UNCHANGED <<marked, cached>>
    BY <1>11 DEF CommitReturns, RenderChapter, files
  <2>3. pipe'.next = pipe.next /\ pipe'.pc \notin Calling
    BY <2>1 DEF Calling
  <2>4. pipe.next \notin First => First \subseteq marked \/ reservation = "released"
    BY DEF MarkInv
  <2> QED BY <1>r, <2>2, <2>3, <2>4, MarkStays
<1> QED BY <1>1, <1>2, <1>3, <1>4, <1>5, <1>7, <1>8, <1>9, <1>10, <1>11 DEF PipelineNext

\* Every step keeps the marker true.
LEMMA MarkStep ==
  ASSUME YkBase, Kept, MarkInv, DecisionInv, [SettleNext]_ykVars
  PROVE  MarkInv'
<1>r. reservation = "released" => reservation' = "released"
  BY ReleasedStays
<1>1. CASE PipelineNext
  BY <1>1, MarkPipeline
<1>2. CASE UNCHANGED <<pipe, marked, cached>>
  BY <1>r, <1>2 DEF MarkInv, CallOf
<1>3. CASE AttemptNext
  <2>1. UNCHANGED <<marked, cached>>
    BY <1>3, AttemptFrame
  <2>2. pipe' = NoPipe \/ UNCHANGED pipe
    BY <1>3 DEF AttemptNext, FinalizeAttempt, StopRunner, CloserDies, RecoverAttempt,
                CloseAttempt, CloseDeadAttempt, CancelChapter, ResumeChapter
  <2>3. 1 \in First
    BY YkAssumption DEF First
  <2>4. CASE pipe' = NoPipe
    BY <1>r, <2>1, <2>3, <2>4, MarkStays DEF NoPipe, Calling
  <2> QED BY <1>2, <2>1, <2>2, <2>4
<1> QED BY <1>1, <1>2, <1>3, EdgeFrame, SettlementFrame DEF SettleNext, ykVars, files

(***************************************************************************)
(* The decision.                                                           *)
(***************************************************************************)

\* A step that decides nothing: the reservation is made at most, no file is written.
LEMMA NothingDecided ==
  ASSUME YkBase, DecisionInv, UNCHANGED settling, marked \subseteq marked',
         UNCHANGED reservation \/ (reservation = "none" /\ reservation' = "reserved"),
         UNCHANGED yk \/ yk' \notin SettledYk,
         UNCHANGED closer \/ closer'.pc # "write"
  PROVE  DecisionInv'
<1>1. \A a : Outcome(a) \in SettledYk
  BY DEF Outcome, SettledYk
<1>2. "none" \notin SettledYk /\ "reserved" \notin SettledYk
  BY DEF SettledYk
<1>3. closer.pc = "write" => closer.state \in SettledYk
  BY DEF YkBase
<1>4. \/ reservation \in SettledYk /\ UNCHANGED reservation
      \/ reservation \notin SettledYk /\ reservation' \notin SettledYk
  BY <1>2
<1>5. reservation' = "consumed" => marked' # {}
  BY <1>4 DEF DecisionInv, SettledYk
<1>6. settling'.pc \in Busy /\ settling'.action = "consume" => marked' # {}
  BY DEF DecisionInv
<1>7. settling'.pc \in Busy /\ reservation' = "consumed" => settling'.action = "consume"
  BY <1>4 DEF DecisionInv, SettledYk
<1>8. settling'.pc = "done" => reservation' = Outcome(settling'.action)
  BY <1>1, <1>4 DEF DecisionInv
<1>9. closer'.pc = "write" => reservation' = closer'.state
  BY <1>3, <1>4 DEF DecisionInv
<1>10. yk' \in SettledYk => reservation' = yk'
  BY <1>4 DEF DecisionInv
<1> QED BY <1>5, <1>6, <1>7, <1>8, <1>9, <1>10 DEF DecisionInv, Outcome

\* A step that leaves the server and the files alone.
LEMMA ServerStays ==
  ASSUME YkBase, DecisionInv, UNCHANGED <<reservation, settling, yk, marked>>,
         UNCHANGED closer \/ closer'.pc # "write"
  PROVE  DecisionInv'
<1>1. UNCHANGED settling
  OBVIOUS
<1>2. marked \subseteq marked'
  OBVIOUS
<1>3. UNCHANGED reservation \/ (reservation = "none" /\ reservation' = "reserved")
  OBVIOUS
<1>4. UNCHANGED yk \/ yk' \notin SettledYk
  OBVIOUS
<1> QED BY <1>1, <1>2, <1>3, <1>4, NothingDecided

\* A call at work decides nothing.
LEMMA EdgeDecides ==
  ASSUME YkBase, DecisionInv, EdgeNext
  PROVE  DecisionInv'
<1>1. UNCHANGED <<reservation, settling, yk, marked, closer>>
  BY EdgeFrame
<1> QED BY <1>1, ServerStays

\* The pipeline reserves and makes marks, and asks for a settlement at most.
LEMMA PipelineDecides ==
  ASSUME YkBase, DecisionInv, PipelineNext
  PROVE  DecisionInv'
<1>1. UNCHANGED settling
  BY PipelineFrame
<1>2. marked \subseteq marked'
  BY DEF PipelineNext, StartPipeline, FailBeforeTranslation, TranslateMany, ReserveYk,
         ReserveLost, RecordReservation, SendBatch, ReceiveBatch, BatchRefused, MarkReady,
         CommitTranslation, CommitReturns, RenderChapter, files
<1>3. UNCHANGED reservation \/ (reservation = "none" /\ reservation' = "reserved")
  <2>1. CASE ReserveYk \/ ReserveLost
    <3>1. reservation' = Reserved \/ UNCHANGED reservation
      BY <2>1 DEF ReserveYk, ReserveLost
    <3>2. CASE reservation' = Reserved
      BY <3>2 DEF Reserved
    <3> QED BY <3>1, <3>2
  <2>2. CASE ~(ReserveYk \/ ReserveLost)
    BY <2>2 DEF PipelineNext, StartPipeline, FailBeforeTranslation, TranslateMany,
         RecordReservation, SendBatch, ReceiveBatch, BatchRefused, MarkReady,
         CommitTranslation, CommitReturns, RenderChapter, server
  <2> QED BY <2>1, <2>2
<1>4. UNCHANGED yk \/ yk' \notin SettledYk
  BY DEF PipelineNext, StartPipeline, FailBeforeTranslation, TranslateMany, ReserveYk,
         ReserveLost, RecordReservation, SendBatch, ReceiveBatch, BatchRefused, MarkReady,
         CommitTranslation, CommitReturns, RenderChapter, files, SettledYk
<1>5. UNCHANGED closer \/ closer'.pc # "write"
  <2>1. CASE CommitTranslation \/ CommitReturns
    <3>1. closer' = [pc |-> "settle", by |-> "pipeline", goal |-> "none", state |-> "none"]
          \/ closer' = NoCloser
      BY <2>1 DEF CommitTranslation, CommitReturns
    <3> QED BY <3>1 DEF NoCloser
  <2>2. CASE ~(CommitTranslation \/ CommitReturns)
    BY <2>2 DEF PipelineNext, StartPipeline, FailBeforeTranslation, TranslateMany, ReserveYk,
         ReserveLost, RecordReservation, SendBatch, ReceiveBatch, BatchRefused, MarkReady,
         RenderChapter
  <2> QED BY <2>1, <2>2
<1> QED BY <1>1, <1>2, <1>3, <1>4, <1>5, NothingDecided

\* Starting, stopping and closing an attempt decide nothing.
LEMMA AttemptDecides ==
  ASSUME YkBase, DecisionInv, AttemptNext
  PROVE  DecisionInv'
<1>1. UNCHANGED closer \/ closer'.pc # "write"
  BY DEF AttemptNext, FinalizeAttempt, StopRunner, CloserDies, RecoverAttempt, CloseAttempt,
         CloseDeadAttempt, CancelChapter, ResumeChapter, Settle, NoCloser
<1>2. UNCHANGED <<reservation, settling, yk, marked>>
  BY AttemptFrame
<1> QED BY <1>1, <1>2, ServerStays

\* A settlement that is asked for again asks for what was decided.
LEMMA AskDecides ==
  ASSUME YkBase, DecisionInv, AskSettlement
  PROVE  DecisionInv'
<1>0. closer \in CloserType
  BY BaseParts DEF CloserOk
<1>1. UNCHANGED <<reservation, yk, marked>>
  BY DEF AskSettlement, files
<1>2. CASE yk = "held"
  <2>1. settling' = [pc |-> "count", action |-> SettleAction, counted |-> {}]
        /\ closer' = [closer EXCEPT !.pc = "wait"]
    BY <1>2 DEF AskSettlement
  <2>2. settling'.pc = "count" /\ settling'.action = SettleAction /\ closer'.pc = "wait"
    BY <1>0, <2>1 DEF CloserType
  <2>3. SettleAction = "consume" => marked # {}
    BY DEF SettleAction
  <2>4. reservation = "consumed" => SettleAction = "consume"
    BY DEF DecisionInv, SettleAction
  <2> QED BY <1>1, <2>2, <2>3, <2>4 DEF DecisionInv, Outcome
<1>3. CASE yk # "held"
  <2>1. closer' = [closer EXCEPT !.pc = "close", !.state = yk] /\ UNCHANGED settling
    BY <1>3 DEF AskSettlement
  <2>2. closer'.pc = "close"
    BY <1>0, <2>1 DEF CloserType
  <2> QED BY <1>1, <2>1, <2>2, ServerStays
<1> QED BY <1>2, <1>3

\* A settlement that has counted asks for what it asked for.
LEMMA CountDecides ==
  ASSUME YkBase, DecisionInv, CountRequests
  PROVE  DecisionInv'
<1>0. settling \in SettlingType
  BY BaseParts
<1>1. UNCHANGED <<reservation, yk, marked, closer>> /\ settling.pc = "count"
  BY DEF CountRequests, files
<1>2. settling'.pc = "lock" /\ settling'.action = settling.action
  BY <1>0 DEF CountRequests, SettlingType
<1>3. settling.pc \in Busy
  BY <1>1 DEF Busy
<1> QED BY <1>1, <1>2, <1>3 DEF DecisionInv, Outcome

\* Under the lock a settled reservation stays as it is, and a held one is consumed only
\* if the marker said so.
LEMMA LockDecides ==
  ASSUME YkBase, DecisionInv, LockReservation
  PROVE  DecisionInv'
<1> DEFINE outcome == Outcome(settling.action)
<1>0. settling \in SettlingType /\ closer.pc = "write" => closer.state \in SettledYk
  BY DEF YkBase
<1>1. settling \in SettlingType
  BY BaseParts
<1>2. UNCHANGED <<yk, marked, closer>> /\ settling.pc = "lock" /\ settling.pc \in Busy
  BY DEF LockReservation, files, Busy
<1>3. /\ outcome \in SettledYk
      /\ outcome = "consumed" <=> settling.action = "consume"
      /\ outcome = "released" <=> settling.action # "consume"
  BY DEF Outcome, SettledYk
<1>4. CASE reservation' = reservation /\ settling' = [settling EXCEPT !.pc = "refused", !.counted = {}]
  <2>1. settling'.pc = "refused"
    BY <1>1, <1>4 DEF SettlingType
  <2> QED BY <1>2, <1>4, <2>1 DEF DecisionInv, Busy
<1>5. CASE /\ reservation' = outcome /\ settling' = [settling EXCEPT !.pc = "done", !.counted = {}]
           /\ reservation # "reserved" => reservation = outcome
  <2>1. settling'.pc = "done" /\ settling'.action = settling.action
    BY <1>1, <1>5 DEF SettlingType
  <2>3. outcome = "consumed" => marked # {}
    BY <1>2, <1>3 DEF DecisionInv
  <2>4. closer.pc = "write" => outcome = closer.state
    BY <1>0, <1>1, <1>5 DEF DecisionInv, SettledYk
  <2>5. yk \in SettledYk => outcome = yk
    BY <1>5 DEF DecisionInv, SettledYk
  <2>6. settling'.pc \notin Busy /\ settling'.pc # "lock"
    BY <2>1 DEF Busy
  <2>7. reservation' = Outcome(settling'.action)
    BY <1>5, <2>1
  <2> HIDE DEF outcome
  <2> QED BY <1>2, <1>5, <2>3, <2>4, <2>5, <2>6, <2>7 DEF DecisionInv, Outcome
<1>6. \/ reservation' = reservation /\ settling' = [settling EXCEPT !.pc = "refused", !.counted = {}]
      \/ /\ reservation' = outcome /\ settling' = [settling EXCEPT !.pc = "done", !.counted = {}]
         /\ reservation # "reserved" => reservation = outcome
  BY DEF LockReservation
<1> QED BY <1>4, <1>5, <1>6

\* What is granted is written, and what is written was granted.
LEMMA WriteDecides ==
  ASSUME YkBase, DecisionInv, SettlementAnswered \/ SettlementLost \/ WriteSettlement
  PROVE  DecisionInv'
<1>0. closer \in CloserType
  BY BaseParts DEF CloserOk
<1>1. CASE SettlementAnswered
  <2>1. UNCHANGED <<reservation, yk, marked>> /\ settling' = NoSettling
    BY <1>1 DEF SettlementAnswered, files
  <2>2. settling'.pc = "off"
    BY <2>1 DEF NoSettling
  <2>3. closer'.pc = "write" => reservation = closer'.state
    <3>1. CASE settling.pc = "done"
      <4>1. closer' = [closer EXCEPT !.pc = "write", !.state = Outcome(settling.action)]
        BY <1>1, <3>1 DEF SettlementAnswered
      <4>2. closer'.state = Outcome(settling.action)
        BY <1>0, <4>1 DEF CloserType
      <4> QED BY <3>1, <4>2 DEF DecisionInv
    <3>2. CASE settling.pc # "done"
      <4>1. closer' = [closer EXCEPT !.pc = "close", !.state = "error"]
        BY <1>1, <3>2 DEF SettlementAnswered
      <4>2. closer'.pc = "close"
        BY <1>0, <4>1 DEF CloserType
      <4> QED BY <4>2
    <3> QED BY <3>1, <3>2
  <2> QED BY <2>1, <2>2, <2>3 DEF DecisionInv, Busy
<1>2. CASE SettlementLost
  <2>1. UNCHANGED <<server, files>>
    BY <1>2 DEF SettlementLost
  <2>2. UNCHANGED <<reservation, settling, yk, marked>>
    BY <2>1 DEF server, files
  <2>3. closer'.pc = "close"
    <3>1. closer' = [closer EXCEPT !.pc = "close", !.state = "error"]
      BY <1>2 DEF SettlementLost
    <3> QED BY <1>0, <3>1 DEF CloserType
  <2> QED BY <2>2, <2>3, ServerStays
<1>3. CASE WriteSettlement
  <2>1. UNCHANGED server
    BY <1>3 DEF WriteSettlement
  <2>2. UNCHANGED <<reservation, settling, marked>>
    BY <1>3, <2>1 DEF WriteSettlement, server
  <2>3. closer.pc = "write" /\ yk' = closer.state /\ closer' = [closer EXCEPT !.pc = "close"]
    BY <1>3 DEF WriteSettlement, CloserAt
  <2>4. closer'.pc = "close" /\ yk' = reservation
    BY <1>0, <2>3 DEF CloserType, DecisionInv
  <2> QED BY <2>2, <2>4 DEF DecisionInv, Outcome
<1> QED BY <1>1, <1>2, <1>3

\* Every step keeps the decision.
LEMMA DecisionStep ==
  ASSUME YkInv, [SettleNext]_ykVars
  PROVE  DecisionInv'
<1>0. YkBase /\ EdgeInv /\ Kept /\ MarkInv /\ DecisionInv
  BY DEF YkInv
<1>1. CASE SettlementNext
  BY <1>0, <1>1, AskDecides, CountDecides, LockDecides, WriteDecides DEF SettlementNext
<1>2. CASE UNCHANGED ykVars
  <2>1. UNCHANGED <<reservation, settling, yk, marked, closer>>
    BY <1>2 DEF ykVars, server, files
  <2> QED BY <1>0, <2>1, ServerStays
<1> QED BY <1>0, <1>1, <1>2, EdgeDecides, PipelineDecides, AttemptDecides DEF SettleNext

\* Nothing is translated, marked or settled at first.
LEMMA InvInit == SettleInit => YkInv
<1> SUFFICES ASSUME SettleInit PROVE YkInv
  OBVIOUS
<1>1. EdgeInv /\ Kept
  BY DEF SettleInit, EdgeInv, Kept
<1>2. 1 \in First
  BY YkAssumption DEF First
<1>3. MarkInv
  BY <1>2 DEF SettleInit, NoPipe, MarkInv
<1>4. DecisionInv
  BY DEF SettleInit, NoSettling, NoCloser, DecisionInv, Busy, SettledYk
<1> QED BY <1>1, <1>3, <1>4, BaseInit DEF YkInv

\* Every step keeps the invariant.
LEMMA InvStep == YkInv /\ [SettleNext]_ykVars => YkInv'
<1> SUFFICES ASSUME YkInv, [SettleNext]_ykVars PROVE YkInv'
  OBVIOUS
<1>1. YkBase /\ EdgeInv /\ Kept /\ MarkInv /\ DecisionInv
  BY DEF YkInv
<1> QED BY <1>1, BaseStep, EdgeInvStep, KeptStep, MarkStep, DecisionStep DEF YkInv

\* The file in the output directory and the row on the server never contradict each
\* other, and what was charged is never asked back.
THEOREM FileAndServerAgree == SettleSpec => []SettlementsAgree
<1>1. YkInv => SettlementsAgree
  BY DEF YkInv, DecisionInv, SettlementsAgree
<1> QED BY <1>1, InvInit, InvStep, PTL DEF SettleSpec

\* The user is charged only for results that are on the disk.
THEOREM ChargedIsKept == SettleSpec => []ChargedWorkIsKept
<1>1. YkInv => ChargedWorkIsKept
  BY DEF YkInv, DecisionInv, MarkInv, ChargedWorkIsKept
<1> QED BY <1>1, InvInit, InvStep, PTL DEF SettleSpec

\* No refund takes back the payment of a result that is on the disk and whose request
\* the settlement has counted.
THEOREM CountedIsPaid == SettleSpec => CountedWorkIsPaid
<1> DEFINE Refund == reservation' = "released" /\ reservation # "released"
<1>1. ASSUME YkInv, [SettleNext]_ykVars, Refund
      PROVE  cached \intersect settling.counted = {}
  <2>1. CASE LockReservation
    <3>1. settling.action # "consume" /\ reservation = "reserved" /\ Untouched
      BY <1>1, <2>1 DEF LockReservation, Outcome
    <3> QED BY <1>1, <3>1 DEF YkInv, Kept, Untouched
  <2>2. CASE PipelineNext
    BY <1>1, <2>2 DEF PipelineNext, StartPipeline, FailBeforeTranslation, TranslateMany,
         ReserveYk, ReserveLost, Reserved, RecordReservation, SendBatch, ReceiveBatch,
         BatchRefused, MarkReady, CommitTranslation, CommitReturns, RenderChapter, server
  <2>3. CASE SettlementNext /\ ~LockReservation
    BY <1>1, <2>3 DEF SettlementNext, AskSettlement, CountRequests, SettlementAnswered,
         SettlementLost, WriteSettlement, server
  <2> QED BY <1>1, <2>1, <2>2, <2>3, EdgeFrame, AttemptFrame DEF SettleNext, ykVars, server
<1>2. YkInv /\ [SettleNext]_ykVars => [Refund => cached \intersect settling.counted = {}]_ykVars
  BY <1>1
<1> QED BY <1>2, InvInit, InvStep, PTL DEF SettleSpec, CountedWorkIsPaid

================================================================================
