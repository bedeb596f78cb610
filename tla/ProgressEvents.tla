---------------------------- MODULE ProgressEvents ----------------------------
(***************************************************************************)
(* The progress of one running job on its way from the pipeline's output   *)
(* to the job row: the pipeline process writes lines to a pipe, the output *)
(* pump thread of the runner reads and numbers them, the runner's loop     *)
(* takes them in batches and applies them to the row                       *)
(* (progress_contract.py, job_runner.py, job_store.py).                    *)
(*                                                                         *)
(* A line carries a canonical event, a legacy text or neither.  Of an      *)
(* event the model keeps what apply_progress_event compares: its stage,    *)
(* counter and status.  The total of a stage stays what it is.             *)
(***************************************************************************)
EXTENDS Naturals, Sequences

CONSTANTS
  Stages,      \* stages of a job, numbered by their rank
  MaxCount,    \* pages of a stage
  MaxPending,  \* MAX_PENDING_PROGRESS_EVENTS
  PipeSize,    \* bound: lines the pipe holds before a writer blocks
  MaxLines     \* bound: lines the pipeline writes

ASSUME ProgressAssumption ==
  /\ Stages \in Nat \ {0} /\ MaxCount \in Nat
  /\ MaxPending \in Nat \ {0} /\ PipeSize \in Nat \ {0} /\ MaxLines \in Nat

VARIABLES
  pages,    \* the pipeline: lines and events written, whether its process exited and
            \* whether the last process that holds the pipe did
  stdout,   \* the pipe
  pump,     \* the pump: last number given, canonical_seen, dirty, snapshot, alive
  pending,  \* its _pending_events
  loop,     \* the runner: where it is and the batch it is applying
  prow      \* the progress columns of the job row

progressVars == <<pages, stdout, pump, pending, loop, prow>>

(***************************************************************************)
(* State.                                                                  *)
(***************************************************************************)

Stage == 1 .. Stages
Created == 0  \* the stage of a row that has seen no progress

ProgressEvent == [kind : {"event"}, stage : Stage, current : 0 .. MaxCount,
                  status : {"running", "completed"}]
Line == ProgressEvent
          \union [kind : {"text"}, stage : Stage] \union [kind : {"invalid"}]

ProgressInit ==
  /\ pages = [lines |-> 0, events |-> 0, exited |-> FALSE, eof |-> FALSE]
  /\ stdout = <<>>
  /\ pump = [last |-> 0, canonical |-> FALSE, dirty |-> FALSE, snapshot |-> Created,
             alive |-> TRUE]
  /\ pending = <<>>
  /\ loop = [pc |-> "poll", batch |-> <<>>, legacy |-> Created, joining |-> FALSE]
  /\ prow = [received |-> 0, stage |-> Created, ended |-> "no",
             current |-> [s \in Stage |-> 0], closed |-> {}]

(***************************************************************************)
(* The pipeline.  Page workers report in any order, and a process the      *)
(* pipeline started may outlive it and keep the pipe open.                 *)
(***************************************************************************)

WriteLine ==
  /\ ~pages.eof /\ pages.lines < MaxLines /\ Len(stdout) < PipeSize
  /\ \E line \in Line :
       /\ stdout' = Append(stdout, line)
       /\ pages' = [pages EXCEPT !.lines = @ + 1,
                                 !.events = IF line.kind = "event" THEN @ + 1 ELSE @]
  /\ UNCHANGED <<pump, pending, loop, prow>>

\* it ends, crashes or is terminated; what it wrote stays in the pipe
PipelineExits ==
  /\ ~pages.exited
  /\ pages' = [pages EXCEPT !.exited = TRUE]
  /\ UNCHANGED <<stdout, pump, pending, loop, prow>>

PipeCloses ==
  /\ pages.exited /\ ~pages.eof
  /\ pages' = [pages EXCEPT !.eof = TRUE]
  /\ UNCHANGED <<stdout, pump, pending, loop, prow>>

(***************************************************************************)
(* The pump.                                                               *)
(***************************************************************************)

BugHasRoom == Len(pending) <= MaxPending

HasRoom == Len(pending) < MaxPending

\* _OutputPump.run: an event waits for room before it is numbered, a text after the
\* first event is only logged, an invalid line is dropped without a number
ReadLine ==
  /\ stdout # <<>>
  /\ LET line == Head(stdout) IN
       \/ /\ line.kind = "event" /\ HasRoom
          /\ pending' = Append(pending, [seq |-> pump.last + 1, event |-> line])
          /\ pump' = [pump EXCEPT !.last = @ + 1, !.canonical = TRUE]
       \/ /\ line.kind = "text" /\ ~pump.canonical
          /\ pump' = [pump EXCEPT !.dirty = TRUE, !.snapshot = line.stage]
          /\ UNCHANGED pending
       \/ /\ line.kind = "invalid" \/ (line.kind = "text" /\ pump.canonical)
          /\ UNCHANGED <<pump, pending>>
  /\ stdout' = Tail(stdout)
  /\ UNCHANGED <<pages, loop, prow>>

PumpEnds ==
  /\ pump.alive /\ stdout = <<>> /\ pages.eof
  /\ pump' = [pump EXCEPT !.alive = FALSE]
  /\ UNCHANGED <<pages, stdout, pending, loop, prow>>

(***************************************************************************)
(* The row.                                                                *)
(***************************************************************************)

RowOver == prow.ended # "no"

BugGoesBack(event) == event.current < prow.current[event.stage]

\* the counter of a stage decreases, or a stage that is over runs again
GoesBack(event) ==
  \/ event.current < prow.current[event.stage]
  \/ event.stage \in prow.closed /\ event.status = "running"

Shown(event) ==
  [prow EXCEPT
     !.current = [@ EXCEPT ![event.stage] = event.current],
     !.received = @ + 1,
     !.closed = IF event.status = "running" THEN @ \ {event.stage}
                                            ELSE @ \union {event.stage},
     !.stage = IF event.stage >= @ THEN event.stage ELSE @]

BugApplied(seq, event) ==
  IF RowOver \/ seq # prow.received + 1 \/ GoesBack(event) THEN prow ELSE Shown(event)

\* apply_progress_event: a duplicate or a gap changes nothing; an event that goes back
\* uses up its number and nothing else
Applied(seq, event) ==
  IF RowOver \/ seq # prow.received + 1 THEN prow
  ELSE IF GoesBack(event) THEN [prow EXCEPT !.received = seq]
  ELSE Shown(event)

\* update_progress: only while no event was received
LegacyUpdate(stage) ==
  IF RowOver \/ prow.received # 0 THEN prow ELSE [prow EXCEPT !.stage = stage]

(***************************************************************************)
(* The runner's loop.                                                      *)
(***************************************************************************)

LoopAt(pc) == loop.pc = pc

BugMayDrain == ~loop.joining

MayDrain == ~loop.joining \/ pump.alive

\* drain_events, while the pipeline runs or the pump is joined
DrainEvents ==
  /\ LoopAt("poll")
  /\ MayDrain
  /\ loop' = [loop EXCEPT !.pc = "apply", !.batch = pending]
  /\ pending' = <<>>
  /\ UNCHANGED <<pages, stdout, pump, prow>>

ApplyEvent ==
  /\ LoopAt("apply") /\ loop.batch # <<>>
  /\ prow' = Applied(Head(loop.batch).seq, Head(loop.batch).event)
  /\ loop' = [loop EXCEPT !.batch = Tail(@)]
  /\ UNCHANGED <<pages, stdout, pump, pending>>

\* drain_progress: the snapshot is taken once, and not after the first event
DrainProgress ==
  /\ LoopAt("apply") /\ loop.batch = <<>> /\ ~loop.joining
  /\ loop' = [loop EXCEPT !.pc = "legacy",
                !.legacy = IF pump.dirty /\ ~pump.canonical THEN pump.snapshot ELSE Created]
  /\ pump' = [pump EXCEPT !.dirty = FALSE]
  /\ UNCHANGED <<pages, stdout, pending, prow>>

\* the pump may have seen an event since; a heartbeat changes nothing here
UpdateProgress ==
  /\ LoopAt("legacy")
  /\ prow' = IF loop.legacy # Created THEN LegacyUpdate(loop.legacy) ELSE prow
  /\ loop' = [loop EXCEPT !.pc = "poll", !.legacy = Created, !.joining = pages.exited]
  /\ UNCHANGED <<pages, stdout, pump, pending>>

BugJoinPump ==
  /\ LoopAt("poll") /\ loop.joining /\ ~pump.alive
  /\ loop' = [loop EXCEPT !.pc = "last", !.batch = <<>>]
  /\ UNCHANGED <<pages, stdout, pump, pending, prow>>

\* _join_output_pump_and_drain: after the pump's end, what it left ...
JoinPump ==
  /\ LoopAt("poll") /\ loop.joining /\ ~pump.alive
  /\ loop' = [loop EXCEPT !.pc = "last", !.batch = pending]
  /\ pending' = <<>>
  /\ UNCHANGED <<pages, stdout, pump, prow>>

DrainWhileJoining ==
  /\ LoopAt("apply") /\ loop.batch = <<>> /\ loop.joining
  /\ loop' = [loop EXCEPT !.pc = "poll"]
  /\ UNCHANGED <<pages, stdout, pump, pending, prow>>

\* ... is applied before the row is closed
ApplyLast ==
  /\ LoopAt("last") /\ loop.batch # <<>>
  /\ prow' = Applied(Head(loop.batch).seq, Head(loop.batch).event)
  /\ loop' = [loop EXCEPT !.batch = Tail(@)]
  /\ UNCHANGED <<pages, stdout, pump, pending>>

\* _finalize; a row that is over already stays as it is
CloseRow ==
  /\ LoopAt("last") /\ loop.batch = <<>>
  /\ prow' = IF RowOver THEN prow ELSE [prow EXCEPT !.ended = "closed"]
  /\ loop' = [loop EXCEPT !.pc = "closed"]
  /\ UNCHANGED <<pages, stdout, pump, pending>>

\* The user interface or a worker that takes the runner for dead ends the row.
TakeRow ==
  /\ ~RowOver
  /\ prow' = [prow EXCEPT !.ended = "taken"]
  /\ UNCHANGED <<pages, stdout, pump, pending, loop>>

PumpNext == ReadLine \/ PumpEnds

LoopNext ==
  \/ DrainEvents \/ ApplyEvent \/ DrainProgress \/ UpdateProgress \/ JoinPump
  \/ DrainWhileJoining \/ ApplyLast \/ CloseRow

ProgressNext ==
  WriteLine \/ PipelineExits \/ PipeCloses \/ PumpNext \/ LoopNext \/ TakeRow

\* Both threads of the runner run; the pipeline need not write or end.
ProgressFairness == WF_progressVars(PumpNext) /\ WF_progressVars(LoopNext)

ProgressSpec == ProgressInit /\ [][ProgressNext]_progressVars /\ ProgressFairness

(***************************************************************************)
(* Properties.                                                             *)
(***************************************************************************)

Numbered == [seq : Nat, event : ProgressEvent]

ProgressTypeOK ==
  /\ pages \in [lines : 0 .. MaxLines, events : 0 .. MaxLines, exited : BOOLEAN,
            eof : BOOLEAN]
  /\ stdout \in Seq(Line) /\ Len(stdout) <= PipeSize
  /\ pump \in [last : Nat, canonical : BOOLEAN, dirty : BOOLEAN,
               snapshot : Stage \union {Created}, alive : BOOLEAN]
  /\ pending \in Seq(Numbered) /\ Len(pending) <= MaxPending
  /\ loop \in [pc : {"poll", "apply", "legacy", "last", "closed"},
               batch : Seq(Numbered), legacy : Stage \union {Created}, joining : BOOLEAN]
  /\ prow \in [received : Nat, stage : Stage \union {Created}, ended : {"no", "closed", "taken"},
               current : [Stage -> 0 .. MaxCount], closed : SUBSET Stage]

\* The number the pump gives and the number the row expects, kept by two threads
\* and a database, never come apart: no event is ever refused for a gap, which
\* would refuse every later one too.
NoSequenceGap ==
  LET waiting == loop.batch \o pending IN
  ~RowOver => \A i \in 1 .. Len(waiting) : waiting[i].seq = prow.received + i

\* Whatever order the page workers report in, and whatever the legacy parser still
\* makes of the log, the progress shown never goes back, a completed stage is
\* never running again, and a row that is over stays as it was.
ProgressNeverGoesBack ==
  [][/\ \A s \in Stage : prow'.current[s] >= prow.current[s]
     /\ prow.closed \subseteq prow'.closed
     /\ prow.received > 0 => prow'.stage >= prow.stage
     /\ RowOver => prow' = prow]_progressVars

\* A row that the runner closed has received every event the pipeline wrote, the
\* last ones included.
NoEventMissed == prow.ended = "closed" => prow.received = pages.events

\* The runner never waits forever for a pump that waits for it: once nothing writes
\* to the pipe any more, the runner gets to the end of its job.
RunnerCloses == []<>(pages.eof => LoopAt("closed"))

===============================================================================
