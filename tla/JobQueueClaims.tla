---------------------------- MODULE JobQueueClaims ----------------------------
(***************************************************************************)
(* What a comment says of the queue where the code does otherwise.  Each   *)
(* definition quotes its sentence; a run of the module shows a behaviour   *)
(* of JobQueue that contradicts it.                                        *)
(***************************************************************************)
EXTENDS JobQueue

\* _runner_input_ready: "Fail closed before spawning a runner with incomplete URL
\* source evidence", and start: "Only after the payload is durably persisted: a
\* worker that claimed earlier could otherwise analyse a row that is still
\* missing fields it needs".  The row is inserted as queued, and can be claimed,
\* before source_type is written; a row that is not a "url" row is ready.
NoRunnerWithoutSource ==
  \A w \in Worker, j \in Job : RunnerUp(w, j) => row[j].sel

\* cancel: "When the runner is already gone nobody would ever act on the flag, so
\* settle the job here instead of leaving it in flight forever".  A row that was
\* analysed between the read and the settlement keeps the flag; requeued later it
\* is claimed, and the worker drops a claimed row that carries the flag.
FlaggedRowLeavesFlight ==
  \A j \in Job :
    (row[j].cancel /\ row[j].status \in InFlight)
      ~> (row[j].status \notin InFlight \/ NoWorkerLeft)

===============================================================================
