------------------------- MODULE JobQueueSafety_proofs -------------------------
(***************************************************************************)
(* Who works on a row, and what for: the ownership of the rows, the line   *)
(* of attempts a row belongs to, the pipelines of the runners, who still   *)
(* wants them, who answers for a row in flight, and what a runner is       *)
(* started with.  What is proved under which hypothesis:                   *)
(*                                                                         *)
(*   OneWorkerAtATime, ResumedRowsAreHistory    RequeuesAlone              *)
(*   PipelinesAreTracked, OneWriterAtATime      ... and NoStrayRunner      *)
(*   PipelinesAreWanted                         ... and FreezesFresh, with *)
(*                                              no "stale_lease" fault     *)
(*   RowsAreAttended                            none                       *)
(*   SourceIsThere                              ClaimsWhole                *)
(*                                                                         *)
(* The hypotheses exclude the races and the faults under which TLC shows   *)
(* the property violated; each is stated where it is first needed.         *)
(***************************************************************************)
EXTENDS JobQueue_proofs, JobQueueClaims

(***************************************************************************)
(* Who works on a row.                                                     *)
(***************************************************************************)

\* Statuses of a row nobody will run again.
Past == {"interrupted", "resumable"} \union Terminal

\* Statuses a row under a worker may be moved to behind the worker's back.
Closed == {"cancelling", "interrupted", "resumable", "cancelled", "failed"}

\* Program counters of a worker on its way to a runner, of one beside its runner,
\* and all at which no other worker may be near its row.
Early == {"prepare", "analyse", "failcancel", "apply", "decide", "handoff", "failsource",
          "spawn", "persist", "open"}
Late == {"watch", "stop", "settle", "close"}
Held == Early \union Late

\* Program counters at which the worker may have a runner.
Beside == {"persist", "open", "watch", "stop", "halt"}

\* A worker on its way to a runner owns its row, which is claimed or has been closed;
\* beside or after its runner nothing but the end of the review takes the row away.
HoldOK(w) ==
  LET r == row[Mine(w)] IN
  /\ wk[w].pc \in Early =>
       /\ r.owner = w
       /\ \/ r.status \in Closed \union {"claiming"}
          \/ wk[w].pc = "handoff" /\ r.status = "source_analysis_ready"
  /\ wk[w].pc \in Late =>
       /\ r.status \in InFlight \union Past
       /\ r.owner = w \/ (r.owner = NoWorker /\ r.status = "finished")

\* The row of a runner is its worker's, and points at the runner once it is known;
\* a worker that lives is beside its runner.
RunOK(w, j) ==
  run[w][j].st # "none" =>
    /\ row[j].owner = w /\ row[j].status \in InFlight \union Closed
    /\ run[w][j].known => row[j].rw = w
    /\ wk[w].pc # "dead" => Mine(w) = j /\ wk[w].pc \in Beside
    /\ wk[w].pc \in {"persist", "open", "halt"} => run[w][j].st = "gate" /\ ~run[w][j].gate

HoldInv == \A w \in Worker : wk[w].pc \in Held => HoldOK(w)
SingleInv ==
  \A w, v \in Worker : wk[w].pc \in Held /\ wk[v].pc \in Held /\ Mine(w) = Mine(v) => w = v
RunInv == \A w \in Worker, j \in Job : RunOK(w, j)

OwnInv == HoldInv /\ SingleInv /\ RunInv

\* A row that some handler is about to requeue is where the handler read it, or settled.
LateInv ==
  \A r \in Request : rq[r].pc = "requeue" =>
    row[rq[r].job].status \in Holds \union {"cancelled", "failed"}

(***************************************************************************)
(* The two races of the queue's requeues.  confirm_source_pages,           *)
(* resume_source_verification and continue_authorized_download read a row  *)
(* that is held and then requeue it whatever its status is by then, and    *)
(* transition() lets a claimed or a resumable row back into the queue: of  *)
(* two such requests for one row the second may requeue it under a worker  *)
(* that has claimed it.  And they, or                                      *)
(* _resolve_stale_submit_for_ready_source, requeue a ready row although    *)
(* its worker may be about to take it over (run ClaimHandoff).  A          *)
(* behaviour without these two is one whose every step is RequeuesAlone.   *)
(***************************************************************************)

\* No step but its own puts a row that a handler is about to requeue back into the queue,
\* or hands it over.
RequeuesApart ==
  \A r \in Request :
    rq[r].pc = "requeue" /\ row'[rq[r].job].status \in {"queued", "claiming"} => Requeue(r)

\* No handler writes a ready row whose worker is handing it over.
HandoffsApart ==
  (\E r \in Request : ResolveReady(r) \/ Requeue(r)) =>
    \A w \in Worker : At(w, "handoff") => row'[Mine(w)] = row[Mine(w)]

RequeuesAlone == RequeuesApart /\ HandoffsApart

(***************************************************************************)
(* Effects of the actions, pointwise.                                      *)
(***************************************************************************)

\* The step leaves row j to whom it belongs, and at most closes it.
RowKeeps(j) ==
  /\ row'[j].owner = row[j].owner /\ row'[j].rw = row[j].rw
  /\ \/ row'[j].status = row[j].status
     \/ row'[j].status \in Closed /\ TransitionAllowed(row[j].status, row'[j].status)

\* The step writes no row but j.
Others(j) == \A k \in Job \ {j} : row'[k] = row[k]

\* Worker w goes on at pc with job j.
Turns(w, pc, j) ==
  /\ wk'[w].pc = pc /\ wk'[w].job = j
  /\ \A v \in Worker \ {w} : wk'[v] = wk[v]

\* The runner of w for j becomes c.
Becomes(w, j, c) ==
  /\ run'[w][j] = c
  /\ \A v \in Worker, i \in Job : ~(v = w /\ i = j) => run'[v][i] = run[v][i]

\* A write of one row.
LEMMA WriteRow ==
  ASSUME RowsOK, NEW j \in Job, NEW c, row' = [row EXCEPT ![j] = c]
  PROVE  row'[j] = c /\ Others(j)
BY DEF RowsOK, Others

\* A write through transition() to a closing status closes the row or leaves it.
LEMMA MovedKeeps ==
  ASSUME RowsOK, NEW j \in Job, NEW t \in Closed,
         row' = Moved(j, t) \/ \E b \in BOOLEAN : row' = MovedR(j, t, b)
  PROVE  \A k \in Job : RowKeeps(k)
<1>1. CASE UNCHANGED row  BY <1>1 DEF RowKeeps
<1>2. ASSUME NEW c, row' = [row EXCEPT ![j] = c], CanMove(j, t), c.status = t,
             c.owner = row[j].owner, c.rw = row[j].rw
      PROVE  \A k \in Job : RowKeeps(k)
  BY <1>2, WriteRow DEF Others, RowKeeps, CanMove
<1>3. CASE CanMove(j, t) /\ row' = [row EXCEPT ![j].status = t]
  <2> DEFINE c == [row[j] EXCEPT !.status = t]
  <2>1. c.status = t /\ c.owner = row[j].owner /\ c.rw = row[j].rw  BY DEF RowsOK, RowType
  <2>2. row' = [row EXCEPT ![j] = c]  BY <1>3
  <2> HIDE DEF c
  <2> QED BY <1>2, <1>3, <2>1, <2>2
<1>4. ASSUME NEW b \in BOOLEAN, CanMove(j, t),
             row' = [row EXCEPT ![j] = [@ EXCEPT !.status = t, !.recov = b]]
      PROVE  \A k \in Job : RowKeeps(k)
  <2> DEFINE c == [row[j] EXCEPT !.status = t, !.recov = b]
  <2>1. c.status = t /\ c.owner = row[j].owner /\ c.rw = row[j].rw  BY DEF RowsOK, RowType
  <2>2. row' = [row EXCEPT ![j] = c]  BY <1>4
  <2> HIDE DEF c
  <2> QED BY <1>2, <1>4, <2>1, <2>2
<1> QED BY <1>1, <1>3, <1>4 DEF Moved, MovedR

\* A step that writes no row keeps them all.
LEMMA SameKeeps == UNCHANGED row => \A k \in Job : RowKeeps(k)
BY DEF RowKeeps

\* A worker that goes on with its job, or with another one.
LEMMA TurnsTo ==
  ASSUME WorkersOK, NEW w \in Worker, NEW c, wk' = [wk EXCEPT ![w] = c]
  PROVE  Turns(w, c.pc, c.job)
BY DEF Turns, WorkersOK

\* Goto keeps the job of a worker, and moves nobody else.
LEMMA TurnsGoto ==
  ASSUME WorkersOK, NEW w \in Worker, NEW pc, Goto(w, pc)
  PROVE  Turns(w, pc, wk[w].job)
<1> DEFINE c == [wk[w] EXCEPT !.pc = pc]
<1>1. c.pc = pc /\ c.job = wk[w].job  BY DEF WorkersOK, WorkerType
<1>2. wk' = [wk EXCEPT ![w] = c]  BY DEF Goto
<1> HIDE DEF c
<1> QED BY <1>1, <1>2, TurnsTo

\* GotoJob gives a worker another job, or none.
LEMMA TurnsJob ==
  ASSUME WorkersOK, NEW w \in Worker, NEW pc, NEW j,
         wk' = [wk EXCEPT ![w] = [@ EXCEPT !.pc = pc, !.job = j]]
  PROVE  Turns(w, pc, j)
<1> DEFINE c == [wk[w] EXCEPT !.pc = pc, !.job = j]
<1>1. c.pc = pc /\ c.job = j  BY DEF WorkersOK, WorkerType
<1>2. wk' = [wk EXCEPT ![w] = c]  OBVIOUS
<1> HIDE DEF c
<1> QED BY <1>1, <1>2, TurnsTo

\* The ends of a worker's turn at a job.
LEMMA TurnsIdle ==
  ASSUME WorkersOK, NEW w \in Worker
  PROVE  /\ GotoIdle(w) => Turns(w, "idle", NoJob)
         /\ Leave(w) => Turns(w, "exited", NoJob)
BY TurnsJob DEF GotoIdle, Leave

\* A worker that has accounted for a stopped runner watches its exit, or is idle.
LEMMA TurnsStopped ==
  ASSUME WorkersOK, NEW w \in Worker, Stopped(w)
  PROVE  \/ Turns(w, "watch", wk[w].job) /\ wk[w].pc \in {"settle", "close"}
         \/ Turns(w, "idle", NoJob)
BY TurnsGoto, TurnsIdle DEF Stopped, At

\* The accounting of an exit goes on, or its error unwinds the worker out of its loop.
LEMMA TurnsUnwind ==
  ASSUME WorkersOK, NEW w \in Worker, NEW t, NEW b, NEW next \in {"idle", "exit2"},
         MoveOrUnwind(w, t, b, next)
  PROVE  Turns(w, next, HeldAt(w, next)) \/ Turns(w, "exited", NoJob)
<1> DEFINE c == [wk[w] EXCEPT !.pc = next, !.job = HeldAt(w, next),
                              !.seen = "absent", !.seenCancel = FALSE]
           d == [wk[w] EXCEPT !.pc = "exited", !.job = NoJob,
                              !.seen = "absent", !.seenCancel = FALSE]
<1>1. /\ c.pc = next /\ c.job = HeldAt(w, next)
      /\ d.pc = "exited" /\ d.job = NoJob
  BY DEF WorkersOK, WorkerType
<1>2. wk' = [wk EXCEPT ![w] = c] \/ wk' = [wk EXCEPT ![w] = d]  BY DEF MoveOrUnwind
<1> HIDE DEF c, d
<1> QED BY <1>1, <1>2, TurnsTo

\* A replaced runner, and a tree that was terminated.
LEMMA RunBecomes ==
  ASSUME RunnersOK, NEW w \in Worker, NEW j \in Job, NEW c, run' = [run EXCEPT ![w][j] = c]
  PROVE  Becomes(w, j, c)
BY DEF RunnersOK, Becomes

\* terminate_tree ends one runner and changes no other.
LEMMA KilledBecomes ==
  ASSUME RunnersOK, NEW w \in Worker, NEW j \in Job, run' = Killed(w, j)
  PROVE  /\ run'[w][j].st = "none"
         /\ \A v \in Worker, i \in Job : run'[v][i].st # "none" => run'[v][i] = run[v][i]
<1>1. CASE RunnerUp(w, j)
  <2>1. Becomes(w, j, NoRunner)  BY <1>1, RunBecomes DEF Killed
  <2> QED BY <2>1 DEF Becomes, NoRunner
<1>2. CASE ~RunnerUp(w, j)  BY <1>2 DEF Killed, RunnerUp
<1> QED BY <1>1, <1>2

\* A row that is kept stays as good for its worker and its runner.
LEMMA KeptStatus ==
  ASSUME NEW j \in Job, RowKeeps(j)
  PROVE  /\ row[j].status \in InFlight \union Past => row'[j].status \in InFlight \union Past
         /\ row[j].status \in InFlight \union Closed => row'[j].status \in InFlight \union Closed
         /\ row[j].status \in Closed \union {"claiming"} =>
              row'[j].status \in Closed \union {"claiming"}
         /\ row[j].status = "source_analysis_ready" =>
              row'[j].status \in Closed \union {"source_analysis_ready"}
         /\ row[j].status \in Past => row'[j].status \in Past
         /\ row'[j].status = "finished" <=> row[j].status = "finished"
BY DEF RowKeeps, TransitionAllowed, Past, Closed, InFlight, Terminal, Holds

(***************************************************************************)
(* Frames: what a kind of step may do to the ownership of rows.            *)
(***************************************************************************)

\* What the invariant says of everybody a step does not concern stays true: it is
\* enough to look at the workers that moved, the runners that changed and the rows
\* that were taken.
LEMMA OwnFrame ==
  ASSUME TypeOK, OwnInv,
         \A v \in Worker : wk'[v].pc \in Held =>
              wk[v].pc \in Held /\ wk'[v].job = wk[v].job,
         \A v \in Worker : wk'[v].pc \in Held =>
              \/ HoldOK(v)'
              \/ wk'[v] = wk[v] /\ RowKeeps(Mine(v)),
         \A v \in Worker, j \in Job : run'[v][j].st # "none" =>
              \/ RunOK(v, j)'
              \/ run'[v][j] = run[v][j] /\ wk'[v].pc = wk[v].pc /\ wk'[v].job = wk[v].job
                 /\ RowKeeps(j)
  PROVE  OwnInv'
<1>0. WorkersOK  BY TypeParts
<1>b. Held \subseteq Busy  BY DEF Held, Early, Late, Busy, Supervising
<1>1. HoldInv'
  <2> SUFFICES ASSUME NEW v \in Worker, wk'[v].pc \in Held, wk'[v] = wk[v], RowKeeps(Mine(v))
               PROVE  HoldOK(v)'
    BY DEF HoldInv
  <2>1. HoldOK(v) /\ Mine(v) \in Job /\ Mine(v)' = Mine(v)
    BY <1>0, <1>b, BusyJob DEF OwnInv, HoldInv, Mine
  <2> QED BY <2>1, KeptStatus DEF HoldOK, RowKeeps
<1>2. SingleInv'  BY DEF OwnInv, SingleInv, Mine
<1>3. RunInv'
  <2> SUFFICES ASSUME NEW v \in Worker, NEW j \in Job, run'[v][j].st # "none",
                      run'[v][j] = run[v][j], wk'[v].pc = wk[v].pc, wk'[v].job = wk[v].job,
                      RowKeeps(j)
               PROVE  RunOK(v, j)'
    BY DEF RunInv, RunOK
  <2> QED BY KeptStatus DEF OwnInv, RunInv, RunOK, RowKeeps, Mine
<1> QED BY <1>1, <1>2, <1>3 DEF OwnInv

\* Rows that are kept, runners that end: nobody else is concerned.
LEMMA OwnKept ==
  ASSUME TypeOK, OwnInv, UNCHANGED wk, \A k \in Job : RowKeeps(k),
         \A v \in Worker, i \in Job : run'[v][i].st # "none" => run'[v][i] = run[v][i]
  PROVE  OwnInv'
<1>1. \A v \in Worker : wk[v].pc \in Held => Mine(v) \in Job
  BY TypeParts, BusyJob DEF Held, Early, Late, Busy, Supervising
<1> QED BY <1>1, OwnFrame

\* A worker beside no runner has none, and none but it has a runner of its row.
LEMMA Alone ==
  ASSUME TypeOK, OwnInv, NEW w \in Worker, wk[w].pc \notin Beside \union {"dead"}
  PROVE  /\ \A j \in Job : run[w][j].st = "none"
         /\ wk[w].pc \in Early => \A v \in Worker : run[v][Mine(w)].st = "none"
<1>1. \A j \in Job : run[w][j].st = "none"  BY DEF OwnInv, RunInv, RunOK
<1>2. ASSUME wk[w].pc \in Early, NEW v \in Worker PROVE run[v][Mine(w)].st = "none"
  <2>1. Mine(w) \in Job /\ row[Mine(w)].owner = w
    BY <1>2, TypeParts, BusyJob DEF OwnInv, HoldInv, HoldOK, Held, Early, Busy, Supervising
  <2> QED BY <1>1, <2>1 DEF OwnInv, RunInv, RunOK
<1> QED BY <1>1, <1>2

\* A worker takes its turn on rows that are kept.
LEMMA OwnTurn ==
  ASSUME TypeOK, OwnInv, NEW w \in Worker, NEW pc, NEW j, Turns(w, pc, j),
         \A k \in Job : RowKeeps(k), UNCHANGED run, wk[w].pc # "dead",
         pc \in Held =>
           /\ j = wk[w].job
           /\ \/ wk[w].pc \in Early \ {"handoff"}
              \/ wk[w].pc \in Late /\ pc \in Late,
         \/ pc = "dead" \/ wk[w].pc \notin Beside \/ ~OwnRunnerUp(w)
         \/ /\ j = wk[w].job /\ pc \in Beside
            /\ pc \in {"persist", "open", "halt"} => wk[w].pc \in {"persist", "open"}
  PROVE  OwnInv'
<1>1. \A v \in Worker : wk[v].pc \in Held => Mine(v) \in Job
  BY TypeParts, BusyJob DEF Held, Early, Late, Busy, Supervising
<1>2. ASSUME pc \in Held PROVE HoldOK(w)'
  <2>1. wk[w].pc \in Held /\ HoldOK(w) /\ Mine(w) \in Job /\ Mine(w)' = Mine(w)
    BY <1>1, <1>2 DEF OwnInv, HoldInv, Held, Mine, Turns
  <2>2. RowKeeps(Mine(w))  BY <2>1
  <2>3. Early \intersect Late = {} /\ Closed \union {"claiming"} \subseteq InFlight \union Past
    BY DEF Early, Late, Closed, InFlight, Past, Terminal
  <2> DEFINE r == row[Mine(w)]
             s == row'[Mine(w)]
  <2>4. CASE wk[w].pc \in Early \ {"handoff"}
    <3>1. r.owner = w /\ r.status \in Closed \union {"claiming"}
      BY <2>1, <2>4 DEF HoldOK
    <3>2. s.owner = w /\ s.status \in Closed \union {"claiming"}
      BY <2>1, <2>2, <3>1, KeptStatus DEF RowKeeps
    <3> QED BY <2>1, <2>3, <3>2 DEF HoldOK
  <2>5. CASE wk[w].pc \in Late /\ pc \in Late
    <3>1. /\ r.status \in InFlight \union Past
          /\ (r.owner = w \/ (r.owner = NoWorker /\ r.status = "finished"))
      BY <2>1, <2>5 DEF HoldOK
    <3>2. /\ s.status \in InFlight \union Past
          /\ (s.owner = w \/ (s.owner = NoWorker /\ s.status = "finished"))
      BY <2>1, <2>2, <3>1, KeptStatus DEF RowKeeps
    <3>3. wk'[w].pc \notin Early  BY <2>3, <2>5 DEF Turns
    <3> QED BY <2>1, <3>2, <3>3 DEF HoldOK
  <2> QED BY <1>2, <2>4, <2>5
<1>3. ASSUME NEW i \in Job, run'[w][i].st # "none" PROVE RunOK(w, i)'
  <2>1. RunOK(w, i) /\ run[w][i].st # "none" /\ RowKeeps(i)
    BY <1>3 DEF OwnInv, RunInv
  <2>2. Mine(w) = i /\ wk[w].pc \in Beside /\ OwnRunnerUp(w)
    BY <2>1 DEF RunOK, OwnRunnerUp, RunnerUp
  <2>3. \/ pc = "dead"
        \/ /\ j = wk[w].job /\ pc \in Beside
           /\ pc \in {"persist", "open", "halt"} => wk[w].pc \in {"persist", "open"}
    BY <2>2
  <2> QED BY <2>1, <2>2, <2>3, KeptStatus DEF RunOK, RowKeeps, Mine, Turns
<1>4. \A v \in Worker \ {w} : wk'[v] = wk[v]  BY DEF Turns
<1>5. wk'[w].pc = pc /\ wk'[w].job = j  BY DEF Turns
<1>6. \A v \in Worker : wk'[v].pc \in Held => wk[v].pc \in Held /\ wk'[v].job = wk[v].job
  BY <1>4, <1>5 DEF Held
<1>7. \A v \in Worker : wk'[v].pc \in Held => HoldOK(v)' \/ (wk'[v] = wk[v] /\ RowKeeps(Mine(v)))
  BY <1>1, <1>2, <1>4, <1>5
<1> QED BY <1>3, <1>4, <1>6, <1>7, OwnFrame

\* A worker on its way to a runner, and beside none, may do with its row what it
\* likes.
LEMMA OwnTaken ==
  ASSUME TypeOK, OwnInv, NEW w \in Worker, NEW pc, NEW j, Turns(w, pc, j),
         wk[w].pc \in Early \ Beside, Others(Mine(w)), UNCHANGED run,
         pc \in Held => j = wk[w].job /\ HoldOK(w)'
  PROVE  OwnInv'
<1>1. \A v \in Worker : wk[v].pc \in Held => Mine(v) \in Job
  BY TypeParts, BusyJob DEF Held, Early, Late, Busy, Supervising
<1>2. \A v \in Worker \ {w} : wk'[v] = wk[v]  BY DEF Turns
<1>3. wk'[w].pc = pc /\ wk'[w].job = j  BY DEF Turns
<1>4. wk[w].pc \in Held /\ "dead" \notin Early  BY DEF Held, Early
<1>5. \A k \in Job \ {Mine(w)} : RowKeeps(k)  BY DEF Others, RowKeeps
<1>6. \A v \in Worker \ {w} : wk[v].pc \in Held => Mine(v) # Mine(w)
  BY <1>4 DEF OwnInv, SingleInv
<1>7. \A v \in Worker : wk'[v].pc \in Held => HoldOK(v)' \/ (wk'[v] = wk[v] /\ RowKeeps(Mine(v)))
  BY <1>1, <1>2, <1>3, <1>5, <1>6
<1>8. /\ \A i \in Job : run[w][i].st = "none"
      /\ \A v \in Worker : run[v][Mine(w)].st = "none"
  BY <1>4, Alone
<1>9. \A v \in Worker, i \in Job : run'[v][i].st # "none" => v # w /\ i # Mine(w)
  BY <1>8
<1>10. \A v \in Worker : wk'[v].pc \in Held => wk[v].pc \in Held /\ wk'[v].job = wk[v].job
  BY <1>2, <1>3, <1>4
<1> QED BY <1>2, <1>5, <1>7, <1>9, <1>10, OwnFrame

\* A row nobody is near may become anything.
LEMMA OwnFree ==
  ASSUME TypeOK, OwnInv, NEW j \in Job, Others(j), UNCHANGED run,
         row[j].status \notin InFlight \union Past,
         row[j].status = "source_analysis_ready" =>
           \A v \in Worker : At(v, "handoff") => Mine(v) # j,
         \A v \in Worker : wk'[v].pc \in Held => wk'[v] = wk[v],
         \A v \in Worker, i \in Job :
           run[v][i].st # "none" => wk'[v].pc = wk[v].pc /\ wk'[v].job = wk[v].job
  PROVE  OwnInv'
<1>1. \A v \in Worker : wk[v].pc \in Held => Mine(v) \in Job
  BY TypeParts, BusyJob DEF Held, Early, Late, Busy, Supervising
<1>2. row[j].status \notin Closed \union {"claiming"}
  BY DEF Closed, InFlight, Past, Terminal
<1>3. \A v \in Worker : wk[v].pc \in Held => Mine(v) # j
  BY <1>2 DEF OwnInv, HoldInv, HoldOK, Held, At
<1>4. \A v \in Worker : run[v][j].st = "none"
  BY <1>2 DEF OwnInv, RunInv, RunOK
<1>5. \A k \in Job \ {j} : RowKeeps(k)  BY DEF Others, RowKeeps
<1>6. \A v \in Worker : wk'[v].pc \in Held => wk'[v] = wk[v] /\ RowKeeps(Mine(v))
  BY <1>1, <1>3, <1>5
<1> QED BY <1>4, <1>5, <1>6, OwnFrame

(***************************************************************************)
(* The steps of a worker.                                                  *)
(***************************************************************************)

\* Where the worker's moves that write no row or close its own lead.
LEMMA WorkerOwn ==
  ASSUME TypeOK, OwnInv, NEW w \in Worker, WorkerStep(w) \/ WorkerEvent(w)
  PROVE  OwnInv'
<1>0. RowsOK /\ WorkersOK /\ TodoOK /\ RunnersOK  BY TypeParts
<1>m. wk[w].pc \in Busy => Mine(w) \in Job  BY <1>0, BusyJob
<1>1. CASE Heartbeat(w) \/ LeaseExpires(w) \/ RequestStop(w)
  BY <1>1, SameKeeps, OwnKept DEF Heartbeat, LeaseExpires, RequestStop
<1>2. CASE OrphanSettle(w) \/ OrphanCancel(w) \/ OrphanClose(w)
  <2>1. PICK o \in todo[w] :
          \/ UNCHANGED row \/ row' = Moved(o.job, "cancelling")
          \/ row' = MovedR(o.job, "interrupted", TRUE)
          \/ row' = MovedR(o.job, "cancelled", FALSE)
    BY <1>2 DEF OrphanSettle, OrphanCancel, OrphanClose, RecoveredAs
  <2>2. o.job \in Job  BY <1>0, TodoUpdate DEF OrphanType
  <2>3. UNCHANGED <<wk, run>>  BY <1>2 DEF OrphanSettle, OrphanCancel, OrphanClose
  <2>4. \A k \in Job : RowKeeps(k)
    BY <1>0, <2>1, <2>2, MovedKeeps, SameKeeps DEF Closed
  <2> QED BY <2>3, <2>4, OwnKept
<1>3. CASE OrphanProbe(w)
  <2>1. PICK o \in todo[w] : run' = IF TrackedUp(o, o.job) THEN Killed(o.rw, o.job) ELSE run
    BY <1>3 DEF OrphanProbe
  <2>2. o \in OrphanType  BY <1>0, TodoUpdate
  <2>3. o.job \in Job /\ (TrackedUp(o, o.job) => o.rw \in Worker)
    BY <2>2 DEF TrackedUp, OrphanType
  <2>4. \A v \in Worker, i \in Job : run'[v][i].st # "none" => run'[v][i] = run[v][i]
    BY <1>0, <2>1, <2>3, KilledBecomes
  <2>5. UNCHANGED <<wk, row>>  BY <1>3 DEF OrphanProbe
  <2> QED BY <2>4, <2>5, SameKeeps, OwnKept
<1>4. CASE \/ StartWorker(w) \/ WorkerCheck(w) \/ Register(w) \/ WorkerStops(w)
           \/ WorkerCrash(w) \/ OrphansDone(w) \/ NothingQueued(w)
  <2>1. \E pc \in {"check", "exited", "register", "idle", "dead", "claim"} : \E j :
          /\ Turns(w, pc, j)
          /\ pc = "dead" \/ wk[w].pc \in {"off", "check", "register", "idle", "orphans", "claim"}
    BY <1>0, <1>4, TurnsGoto, TurnsIdle, TurnsJob
    DEF StartWorker, WorkerCheck, Register, WorkerStops, WorkerCrash, OrphansDone, NothingQueued,
        At
  <2>2. UNCHANGED <<row, run>> /\ wk[w].pc # "dead"
    BY <1>4 DEF StartWorker, WorkerCheck, Register, WorkerStops, WorkerCrash, OrphansDone,
         NothingQueued, At, WorkerUp, Down
  <2> QED BY <2>1, <2>2, SameKeeps, OwnTurn DEF Held, Early, Late, Beside
<1>5. CASE ScanOrphans(w) \/ OrphanSurvives(w)
  <2>1. wk[w].pc \in {"idle", "orphans"} /\ UNCHANGED <<row, run>>
    BY <1>5 DEF ScanOrphans, OrphanSurvives, Reconciles, At
  <2> DEFINE c == [wk[w] EXCEPT !.pc = "orphans", !.safe = TRUE]
             d == [wk[w] EXCEPT !.safe = FALSE]
  <2>2. c.pc = "orphans" /\ d.pc = wk[w].pc  BY <1>0 DEF WorkersOK, WorkerType
  <2>3. wk' = [wk EXCEPT ![w] = c] \/ wk' = [wk EXCEPT ![w] = d]
    BY <1>5 DEF ScanOrphans, OrphanSurvives
  <2> HIDE DEF c, d
  <2>4. \E pc \in {"idle", "orphans"} : \E j : Turns(w, pc, j)
    BY <1>0, <2>1, <2>2, <2>3, TurnsTo
  <2> QED BY <2>1, <2>4, SameKeeps, OwnTurn DEF Held, Early, Late, Beside
<1>6. CASE \/ Prepare(w) \/ AnalysisDone(w) \/ Apply(w) \/ PersistFails(w) \/ WatchStops(w)
  <2>1. \/ Turns(w, "idle", NoJob) /\ wk[w].pc \in {"prepare", "analyse", "apply"}
        \/ \E pc \in {"analyse", "spawn", "apply", "decide"} :
             Turns(w, pc, wk[w].job) /\ wk[w].pc \in {"prepare", "analyse", "apply"}
        \/ Turns(w, "halt", wk[w].job) /\ wk[w].pc \in {"persist", "open"}
        \/ Turns(w, "stop", wk[w].job) /\ wk[w].pc = "watch"
    BY <1>0, <1>6, TurnsGoto, TurnsIdle DEF Prepare, AnalysisDone, Apply, PersistFails,
       WatchStops, At
  <2>2. UNCHANGED <<row, run>>
    BY <1>6 DEF Prepare, AnalysisDone, Apply, PersistFails, WatchStops
  <2> QED BY <2>1, <2>2, SameKeeps, OwnTurn DEF Held, Early, Late, Beside
<1>7. CASE RunnerExited(w)
  <2>1. At(w, "watch") /\ ~OwnRunnerUp(w) /\ UNCHANGED <<row, run>>
    BY <1>7 DEF RunnerExited
  <2> DEFINE r == row[Mine(w)]
             c == [wk[w] EXCEPT !.pc = "exit", !.seen = r.status, !.seenCancel = r.cancel]
  <2>2. c.pc = "exit"  BY <1>0 DEF WorkersOK, WorkerType
  <2>3. wk' = [wk EXCEPT ![w] = c] \/ GotoIdle(w)  BY <1>7 DEF RunnerExited
  <2> HIDE DEF c
  <2>4. \E pc \in {"idle", "exit"} : \E j : Turns(w, pc, j)
    BY <1>0, <2>2, <2>3, TurnsTo, TurnsIdle
  <2> QED BY <2>1, <2>4, SameKeeps, OwnTurn DEF Held, Early, Late, At
<1>8. CASE ExitReconcile(w) \/ ExitCancelled(w)
  <2>1. wk[w].pc \in {"exit", "exit2"} /\ UNCHANGED run /\ Mine(w) \in Job
    BY <1>8, <1>m DEF ExitReconcile, ExitCancelled, At, Busy
  <2>2. PICK t \in Closed, b \in BOOLEAN, next \in {"idle", "exit2"} : MoveOrUnwind(w, t, b, next)
    <3>1. row[Mine(w)].recov \in BOOLEAN  BY <1>0, <2>1 DEF RowsOK, RowType
    <3> QED BY <1>8, <3>1 DEF ExitReconcile, ExitCancelled, Closed
  <2>3. \E pc \in {"idle", "exit2", "exited"} : \E j : Turns(w, pc, j)
    BY <1>0, <2>2, TurnsUnwind
  <2>4. row' = MovedR(Mine(w), t, b) \/ UNCHANGED row
    BY <2>2 DEF MoveOrUnwind, MovedR, CanMoveOwned
  <2>5. \A k \in Job : RowKeeps(k)
    BY <1>0, <2>1, <2>2, <2>4, MovedKeeps, SameKeeps
  <2> QED BY <2>1, <2>3, <2>5, OwnTurn DEF Held, Early, Late, Beside
<1>9. CASE AnalysisCancelled(w) \/ FailCancelled(w) \/ FailSource(w)
  <2>1. /\ wk[w].pc \in {"analyse", "failcancel", "failsource"}
        /\ UNCHANGED run /\ Mine(w) \in Job
    BY <1>9, <1>m DEF AnalysisCancelled, FailCancelled, FailSource, At, Busy, Supervising
  <2>2. Turns(w, "failcancel", wk[w].job) \/ Turns(w, "idle", NoJob)
    BY <1>0, <1>9, TurnsGoto, TurnsIdle DEF AnalysisCancelled, FailCancelled, FailSource
  <2>3. UNCHANGED row \/ \E t \in Closed : row' = Moved(Mine(w), t)
    BY <1>9 DEF AnalysisCancelled, FailCancelled, FailSource, Closed
  <2>4. \A k \in Job : RowKeeps(k)
    BY <1>0, <2>1, <2>3, MovedKeeps, SameKeeps
  <2> QED BY <2>1, <2>2, <2>4, OwnTurn DEF Held, Early, Late, Beside
<1>10. CASE SettleStopped(w) \/ CloseStopped(w)
  <2>1. /\ wk[w].pc \in {"settle", "haltsettle", "close", "haltclose"}
        /\ UNCHANGED run /\ Mine(w) \in Job
    BY <1>10, <1>m DEF SettleStopped, CloseStopped, At, Busy
  <2>2. \/ Turns(w, "close", wk[w].job) /\ wk[w].pc = "settle"
        \/ Turns(w, "haltclose", wk[w].job)
        \/ Turns(w, "watch", wk[w].job) /\ wk[w].pc \in {"settle", "close"}
        \/ Turns(w, "idle", NoJob)
    BY <1>0, <1>10, TurnsGoto, TurnsStopped DEF SettleStopped, CloseStopped, At
  <2>3. \/ UNCHANGED row \/ row' = MovedR(Mine(w), "interrupted", TRUE)
        \/ \E t \in Closed : row' = Moved(Mine(w), t)
    BY <1>10 DEF SettleStopped, CloseStopped, Closed
  <2>4. \A k \in Job : RowKeeps(k)
    BY <1>0, <2>1, <2>3, MovedKeeps, SameKeeps DEF Closed
  <2> QED BY <2>1, <2>2, <2>4, OwnTurn DEF Held, Early, Late, Beside
<1>11. CASE AnalysisFails(w)
  <2>1. wk[w].pc \in Early \ Beside /\ UNCHANGED run /\ Mine(w) \in Job
    BY <1>11, <1>m DEF AnalysisFails, At, Busy, Supervising, Early, Beside
  <2>2. Turns(w, "idle", NoJob)  BY <1>0, <1>11, TurnsIdle DEF AnalysisFails
  <2>3. Others(Mine(w))
    BY <1>0, <1>11, <2>1 DEF AnalysisFails, Moved, Others, RowsOK
  <2> QED BY <2>1, <2>2, <2>3, OwnTaken DEF Held, Early, Late
<1>12. CASE Decide(w)
  <2>1. /\ wk[w].pc \in Early \ Beside /\ wk[w].pc = "decide" /\ wk[w].pc \in Held
        /\ UNCHANGED run /\ Mine(w) \in Job
    BY <1>12, <1>m DEF Decide, At, Busy, Supervising, Held, Early, Beside
  <2>h. HoldOK(w)  BY <2>1 DEF OwnInv, HoldInv
  <2>2. PICK t \in {"failed", "awaiting_source_review", "source_analysis_ready"} :
          IF CanMove(Mine(w), t)
          THEN /\ row' = [row EXCEPT ![Mine(w)] =
                            [@ EXCEPT !.status = t, !.sel = Selected(Mine(w), t)]]
               /\ IF t = "source_analysis_ready" THEN Goto(w, "handoff") ELSE GotoIdle(w)
          ELSE Goto(w, "failsource") /\ UNCHANGED row
    BY <1>12 DEF Decide
  <2>3. CASE ~CanMove(Mine(w), t)
    <3>1. Turns(w, "failsource", wk[w].job) /\ UNCHANGED row  BY <1>0, <2>2, <2>3, TurnsGoto
    <3> QED BY <2>1, <3>1, SameKeeps, OwnTurn DEF Held, Early, Late, Beside
  <2>4. CASE CanMove(Mine(w), t)
    <3> DEFINE c == [row[Mine(w)] EXCEPT !.status = t, !.sel = Selected(Mine(w), t)]
    <3>1. c.status = t /\ c.owner = row[Mine(w)].owner  BY <1>0, <2>1 DEF RowsOK, RowType
    <3>2. row' = [row EXCEPT ![Mine(w)] = c]  BY <2>2, <2>4
    <3> HIDE DEF c
    <3>3. row'[Mine(w)] = c /\ Others(Mine(w))  BY <1>0, <2>1, <3>2, WriteRow
    <3>4. \/ Turns(w, "handoff", wk[w].job) /\ t = "source_analysis_ready"
          \/ Turns(w, "idle", NoJob)
      BY <1>0, <2>2, <2>4, TurnsGoto, TurnsIdle
    <3>5. CASE Turns(w, "idle", NoJob)
      BY <2>1, <3>3, <3>5, OwnTaken DEF Held, Early, Late
    <3>6. CASE Turns(w, "handoff", wk[w].job) /\ t = "source_analysis_ready"
      <4>1. wk'[w].pc = "handoff" /\ Mine(w)' = Mine(w)  BY <3>6 DEF Turns, Mine
      <4>2. row[Mine(w)].owner = w  BY <2>1, <2>h DEF HoldOK
      <4>3. HoldOK(w)'
        BY <3>1, <3>3, <3>6, <4>1, <4>2 DEF HoldOK, Early, Late
      <4> QED BY <2>1, <3>3, <3>6, <4>3, OwnTaken
    <3> QED BY <3>4, <3>5, <3>6
  <2> QED BY <2>3, <2>4
<1>13. CASE Handoff(w)
  <2>1. /\ wk[w].pc \in Early \ Beside /\ wk[w].pc = "handoff" /\ wk[w].pc \in Held
        /\ UNCHANGED run /\ Mine(w) \in Job
    BY <1>13, <1>m DEF Handoff, At, Busy, Supervising, Held, Early, Beside
  <2>2. /\ row[Mine(w)].owner = w
        /\ row[Mine(w)].status \in Closed \union {"claiming", "source_analysis_ready"}
    BY <2>1 DEF OwnInv, HoldInv, HoldOK
  <2>3. row[Mine(w)].status # "queued"  BY <2>2 DEF Closed
  <2>4. \/ GotoIdle(w) /\ (UNCHANGED row \/ row' = Moved(Mine(w), "failed"))
        \/ /\ row' = [row EXCEPT ![Mine(w)] = [@ EXCEPT !.status = "claiming", !.auth = TRUE]]
           /\ Goto(w, "spawn")
    BY <1>13, <2>2, <2>3 DEF Handoff
  <2>5. CASE GotoIdle(w) /\ (UNCHANGED row \/ row' = Moved(Mine(w), "failed"))
    <3>1. Turns(w, "idle", NoJob)  BY <1>0, <2>5, TurnsIdle
    <3>2. \A k \in Job : RowKeeps(k)
      BY <1>0, <2>1, <2>5, MovedKeeps, SameKeeps DEF Closed
    <3> QED BY <2>1, <3>1, <3>2, OwnTurn DEF Held, Early, Late, Beside
  <2>6. CASE /\ row' = [row EXCEPT ![Mine(w)] = [@ EXCEPT !.status = "claiming", !.auth = TRUE]]
             /\ Goto(w, "spawn")
    <3> DEFINE c == [row[Mine(w)] EXCEPT !.status = "claiming", !.auth = TRUE]
    <3>1. c.status = "claiming" /\ c.owner = w  BY <1>0, <2>1, <2>2 DEF RowsOK, RowType
    <3>2. row' = [row EXCEPT ![Mine(w)] = c]  BY <2>6
    <3> HIDE DEF c
    <3>3. row'[Mine(w)] = c /\ Others(Mine(w))  BY <1>0, <2>1, <3>2, WriteRow
    <3>4. Turns(w, "spawn", wk[w].job)  BY <1>0, <2>6, TurnsGoto
    <3>5. wk'[w].pc = "spawn" /\ Mine(w)' = Mine(w)  BY <3>4 DEF Turns, Mine
    <3>6. HoldOK(w)'
      BY <3>1, <3>3, <3>5 DEF HoldOK, Early, Late
    <3> QED BY <2>1, <3>3, <3>4, <3>6, OwnTaken
  <2> QED BY <2>4, <2>5, <2>6
<1>14. CASE Claim(w)
  <2>1. PICK j \in Job :
          /\ row[j].status = "queued"
          /\ row' = [row EXCEPT ![j] = [@ EXCEPT !.status = "claiming", !.owner = w]]
          /\ wk' = [wk EXCEPT ![w] = [@ EXCEPT !.pc = "claimed", !.job = j]]
    BY <1>14 DEF Claim, Claimable
  <2>2. Turns(w, "claimed", j)  BY <1>0, <2>1, TurnsJob
  <2>3. Others(j)  BY <1>0, <2>1, WriteRow
  <2>4. UNCHANGED run /\ wk[w].pc = "claim"  BY <1>14 DEF Claim, At
  <2>5. \A v \in Worker, i \in Job : run[v][i].st # "none" => v # w
    BY <2>4, Alone DEF Beside
  <2>6. \A v \in Worker \ {w} : wk'[v] = wk[v]  BY <2>2 DEF Turns
  <2>7. wk'[w].pc \notin Held  BY <2>2 DEF Turns, Held, Early, Late
  <2>8. row[j].status \notin InFlight \union Past \union {"source_analysis_ready"}
    BY <2>1 DEF InFlight, Past, Terminal
  <2> QED BY <2>3, <2>4, <2>5, <2>6, <2>7, <2>8, OwnFree
<1>15. CASE Claimed(w)
  <2>1. wk[w].pc = "claimed" /\ UNCHANGED <<row, run>>  BY <1>15 DEF Claimed, At
  <2>2. CASE GotoIdle(w)
    <3>1. Turns(w, "idle", NoJob)  BY <1>0, <2>2, TurnsIdle
    <3> QED BY <2>1, <3>1, SameKeeps, OwnTurn DEF Held, Early, Late, Beside
  <2>3. CASE \E j \in {k \in Job : row[k].status = "claiming" /\ row[k].owner = w} :
               wk' = [wk EXCEPT ![w] = [@ EXCEPT !.pc = "prepare", !.job = j]]
    <3>1. PICK j \in Job : /\ row[j].status = "claiming" /\ row[j].owner = w
                           /\ wk' = [wk EXCEPT ![w] = [@ EXCEPT !.pc = "prepare", !.job = j]]
      BY <2>3
    <3>2. Turns(w, "prepare", j)  BY <1>0, <3>1, TurnsJob
    <3>3. wk'[w].pc = "prepare" /\ Mine(w)' = j /\ row'[j] = row[j]
      BY <2>1, <3>2 DEF Turns, Mine
    <3>4. \A v \in Worker \ {w} : wk'[v] = wk[v] /\ Mine(v)' = Mine(v)
      BY <3>2 DEF Turns, Mine
    <3>5. HoldOK(w)'  BY <3>1, <3>3 DEF HoldOK, Early, Late
    <3>6. HoldInv'
      BY <2>1, <3>4, <3>5 DEF OwnInv, HoldInv, HoldOK
    <3>7. \A v \in Worker \ {w} : wk[v].pc \in Held => Mine(v) # j
      <4>1. row[j].owner = w /\ row[j].status # "finished" /\ w # NoWorker
        BY <3>1, QueueAssumption
      <4> QED BY <4>1 DEF OwnInv, HoldInv, HoldOK, Held
    <3>8. SingleInv'
      BY <3>3, <3>4, <3>7 DEF OwnInv, SingleInv
    <3>9. \A i \in Job : run[w][i].st = "none"  BY <2>1, Alone DEF Beside
    <3>10. RunInv'
      BY <2>1, <3>4, <3>9 DEF OwnInv, RunInv, RunOK
    <3> QED BY <3>6, <3>8, <3>10 DEF OwnInv
  <2>4. wk[w].job \in Job  BY <2>1, <1>0, BusyJob DEF Busy, Mine
  <2> QED BY <1>15, <2>2, <2>3, <2>4 DEF Claimed
<1>16. CASE SpawnRunner(w)
  <2>1. wk[w].pc = "spawn" /\ UNCHANGED row /\ Mine(w) \in Job /\ wk[w].pc \in Held
    BY <1>16, <1>m DEF SpawnRunner, At, Busy, Supervising, Held, Early
  <2>2. Turns(w, "persist", wk[w].job)  BY <1>0, <1>16, TurnsGoto DEF SpawnRunner
  <2>3. PICK skew : run' = [run EXCEPT ![w][Mine(w)] =
                              [NoRunner EXCEPT !.st = "gate", !.skew = skew]]
    BY <1>16 DEF SpawnRunner
  <2> DEFINE c == [NoRunner EXCEPT !.st = "gate", !.skew = skew]
  <2>4. c.st = "gate" /\ ~c.gate /\ ~c.known  BY DEF NoRunner
  <2>5. Becomes(w, Mine(w), c)  BY <1>0, <2>1, <2>3, RunBecomes
  <2> HIDE DEF c
  <2>6. /\ row[Mine(w)].owner = w
        /\ row[Mine(w)].status \in Closed \union {"claiming"}
    BY <2>1 DEF OwnInv, HoldInv, HoldOK, Early
  <2>7. wk'[w].pc = "persist" /\ wk'[w].job = wk[w].job /\ Mine(w)' = Mine(w)
    BY <2>2 DEF Turns, Mine
  <2>8. HoldOK(w)'  BY <2>1, <2>6, <2>7 DEF HoldOK, Late
  <2>9. \A i \in Job : i = Mine(w) => RunOK(w, i)'
    BY <2>1, <2>4, <2>5, <2>6, <2>7 DEF RunOK, Becomes, Beside, InFlight
  <2>10. \A v \in Worker \ {w} : wk'[v] = wk[v]  BY <2>2 DEF Turns
  <2>11. \A k \in Job : RowKeeps(k)  BY <2>1, SameKeeps
  <2>12. \A i \in Job : run[w][i].st = "none"  BY <2>1, Alone DEF Beside
  <2>13. \A v \in Worker : wk[v].pc \in Held => Mine(v) \in Job
    BY <1>0, BusyJob DEF Held, Early, Late, Busy, Supervising
  <2>14. \A v \in Worker : wk'[v].pc \in Held =>
           wk[v].pc \in Held /\ wk'[v].job = wk[v].job
    BY <2>1, <2>7, <2>8, <2>10, <2>11, <2>13
  <2>14a. \A v \in Worker : wk'[v].pc \in Held =>
           HoldOK(v)' \/ (wk'[v] = wk[v] /\ RowKeeps(Mine(v)))
    BY <2>1, <2>7, <2>8, <2>10, <2>11, <2>13
  <2>15. \A v \in Worker, i \in Job : run'[v][i].st # "none" =>
           \/ RunOK(v, i)'
           \/ /\ run'[v][i] = run[v][i] /\ wk'[v].pc = wk[v].pc /\ wk'[v].job = wk[v].job
              /\ RowKeeps(i)
    BY <2>5, <2>9, <2>10, <2>11, <2>12 DEF Becomes
  <2> QED BY <2>14, <2>14a, <2>15, OwnFrame
<1>17. CASE PersistRunner(w)
  <2>1. wk[w].pc = "persist" /\ Mine(w) \in Job /\ wk[w].pc \in Held
    BY <1>17, <1>m DEF PersistRunner, At, Busy, Supervising, Held, Early
  <2>2. Turns(w, "open", wk[w].job)  BY <1>0, <1>17, TurnsGoto DEF PersistRunner
  <2> DEFINE c == [run[w][Mine(w)] EXCEPT !.known = TRUE]
             d == [row[Mine(w)] EXCEPT !.rw = w, !.top = TRUE]
  <2>3. run[w][Mine(w)] \in RunnerType  BY <1>0, <2>1 DEF RunnersOK
  <2>4. c.st = run[w][Mine(w)].st /\ c.gate = run[w][Mine(w)].gate
    BY <2>3 DEF RunnerType
  <2>5. d.rw = w /\ d.owner = row[Mine(w)].owner /\ d.status = row[Mine(w)].status
    BY <1>0, <2>1 DEF RowsOK, RowType
  <2>6. run' = IF OwnRunnerUp(w) THEN [run EXCEPT ![w][Mine(w)] = c] ELSE run
    BY <1>17 DEF PersistRunner
  <2>7. row' = [row EXCEPT ![Mine(w)] = d]  BY <1>17 DEF PersistRunner
  <2> HIDE DEF c, d
  <2>8. row'[Mine(w)] = d /\ Others(Mine(w))  BY <1>0, <2>1, <2>7, WriteRow
  <2>9. /\ \A v \in Worker, i \in Job : ~(v = w /\ i = Mine(w)) => run'[v][i] = run[v][i]
        /\ run'[w][Mine(w)].st = run[w][Mine(w)].st
        /\ run'[w][Mine(w)].gate = run[w][Mine(w)].gate
    BY <1>0, <2>1, <2>4, <2>6, RunBecomes DEF Becomes
  <2>10. HoldOK(w) /\ row[Mine(w)].owner = w
    BY <2>1 DEF OwnInv, HoldInv, HoldOK, Early
  <2>11. wk'[w].pc = "open" /\ wk'[w].job = wk[w].job /\ Mine(w)' = Mine(w)
    BY <2>2 DEF Turns, Mine
  <2>12. HoldOK(w)'  BY <2>1, <2>5, <2>8, <2>10, <2>11 DEF HoldOK, Early, Late
  <2>13. \A i \in Job : i = Mine(w) => RunOK(w, i)'
    BY <2>1, <2>5, <2>8, <2>9, <2>10, <2>11 DEF RunOK, Beside, OwnInv, RunInv
  <2>14. \A i \in Job \ {Mine(w)} : run[w][i].st = "none"
    BY <2>1 DEF OwnInv, RunInv, RunOK
  <2>15. \A v \in Worker \ {w} : run[v][Mine(w)].st = "none"
    BY <2>1, <2>10 DEF OwnInv, RunInv, RunOK
  <2>16. \A v \in Worker \ {w} : wk'[v] = wk[v]  BY <2>2 DEF Turns
  <2>17. \A k \in Job \ {Mine(w)} : RowKeeps(k)  BY <2>8 DEF Others, RowKeeps
  <2>18. \A v \in Worker \ {w} : wk[v].pc \in Held => Mine(v) \in Job \ {Mine(w)}
    <3>1. \A v \in Worker : wk[v].pc \in Held => Mine(v) \in Job
      BY <1>0, BusyJob DEF Held, Early, Late, Busy, Supervising
    <3> QED BY <2>1, <3>1 DEF OwnInv, SingleInv
  <2>19. \A v \in Worker : wk'[v].pc \in Held =>
           wk[v].pc \in Held /\ wk'[v].job = wk[v].job
    BY <2>1, <2>11, <2>12, <2>16, <2>17, <2>18
  <2>19a. \A v \in Worker : wk'[v].pc \in Held =>
           HoldOK(v)' \/ (wk'[v] = wk[v] /\ RowKeeps(Mine(v)))
    BY <2>1, <2>11, <2>12, <2>16, <2>17, <2>18
  <2>20. \A v \in Worker, i \in Job : run'[v][i].st # "none" =>
           \/ RunOK(v, i)'
           \/ /\ run'[v][i] = run[v][i] /\ wk'[v].pc = wk[v].pc /\ wk'[v].job = wk[v].job
              /\ RowKeeps(i)
    BY <2>9, <2>13, <2>14, <2>15, <2>16, <2>17
  <2> QED BY <2>19, <2>19a, <2>20, OwnFrame
<1>18. CASE OpenGate(w)
  <2>1. wk[w].pc = "open" /\ UNCHANGED row /\ Mine(w) \in Job /\ wk[w].pc \in Held
    BY <1>18, <1>m DEF OpenGate, At, Busy, Supervising, Held, Early
  <2>2. Turns(w, "watch", wk[w].job)  BY <1>0, <1>18, TurnsGoto DEF OpenGate
  <2> DEFINE c == [run[w][Mine(w)] EXCEPT !.gate = TRUE]
  <2>3. run[w][Mine(w)] \in RunnerType  BY <1>0, <2>1 DEF RunnersOK
  <2>4. c.st = run[w][Mine(w)].st /\ c.known = run[w][Mine(w)].known
    BY <2>3 DEF RunnerType
  <2>5. run' = IF OwnRunnerUp(w) THEN [run EXCEPT ![w][Mine(w)] = c] ELSE run
    BY <1>18 DEF OpenGate
  <2> HIDE DEF c
  <2>6. /\ \A v \in Worker, i \in Job : ~(v = w /\ i = Mine(w)) => run'[v][i] = run[v][i]
        /\ run'[w][Mine(w)].st = run[w][Mine(w)].st
        /\ run'[w][Mine(w)].known = run[w][Mine(w)].known
    BY <1>0, <2>1, <2>4, <2>5, RunBecomes DEF Becomes
  <2>7. /\ row[Mine(w)].owner = w
        /\ row[Mine(w)].status \in Closed \union {"claiming"}
    BY <2>1 DEF OwnInv, HoldInv, HoldOK, Early
  <2>8. wk'[w].pc = "watch" /\ wk'[w].job = wk[w].job /\ Mine(w)' = Mine(w)
    BY <2>2 DEF Turns, Mine
  <2>9. HoldOK(w)'
    BY <2>1, <2>7, <2>8 DEF HoldOK, Early, InFlight, Closed, Past, Terminal
  <2>10. \A i \in Job : i = Mine(w) => RunOK(w, i)'
    BY <2>1, <2>6, <2>8 DEF RunOK, Beside, OwnInv, RunInv
  <2>11. \A i \in Job \ {Mine(w)} : run[w][i].st = "none"
    BY <2>1 DEF OwnInv, RunInv, RunOK
  <2>12. \A v \in Worker \ {w} : wk'[v] = wk[v]  BY <2>2 DEF Turns
  <2>13. \A k \in Job : RowKeeps(k)  BY <2>1, SameKeeps
  <2>14. \A v \in Worker : wk[v].pc \in Held => Mine(v) \in Job
    BY <1>0, BusyJob DEF Held, Early, Late, Busy, Supervising
  <2>15. \A v \in Worker : wk'[v].pc \in Held =>
           wk[v].pc \in Held /\ wk'[v].job = wk[v].job
    BY <2>1, <2>8, <2>9, <2>12, <2>13, <2>14
  <2>15a. \A v \in Worker : wk'[v].pc \in Held =>
           HoldOK(v)' \/ (wk'[v] = wk[v] /\ RowKeeps(Mine(v)))
    BY <2>1, <2>8, <2>9, <2>12, <2>13, <2>14
  <2>16. \A v \in Worker, i \in Job : run'[v][i].st # "none" =>
           \/ RunOK(v, i)'
           \/ /\ run'[v][i] = run[v][i] /\ wk'[v].pc = wk[v].pc /\ wk'[v].job = wk[v].job
              /\ RowKeeps(i)
    BY <2>6, <2>10, <2>11, <2>12, <2>13
  <2> QED BY <2>15, <2>15a, <2>16, OwnFrame
<1>19. CASE KillRunner(w)
  <2>1. wk[w].pc \in {"stop", "halt"} /\ UNCHANGED row /\ Mine(w) \in Job
    BY <1>19, <1>m DEF KillRunner, At, Busy
  <2>2. \/ Turns(w, "settle", wk[w].job) /\ wk[w].pc = "stop"
        \/ Turns(w, "haltsettle", wk[w].job)
    BY <1>0, <1>19, TurnsGoto DEF KillRunner, At
  <2> DEFINE v == IF TrackedUp(row[Mine(w)], Mine(w)) THEN row[Mine(w)].rw ELSE w
  <2>3. v \in Worker  BY <1>0, <2>1 DEF TrackedUp, RowsOK, RowType
  <2>4. run[w][Mine(w)].st # "none" => v = w
    <3>1. SUFFICES ASSUME run[w][Mine(w)].st # "none", TrackedUp(row[Mine(w)], Mine(w))
                   PROVE  row[Mine(w)].rw = w
      OBVIOUS
    <3>2. row[Mine(w)].owner = w  BY <2>1, <3>1 DEF OwnInv, RunInv, RunOK
    <3>3. row[Mine(w)].rw \in Worker /\ run[row[Mine(w)].rw][Mine(w)].st # "none"
      BY <1>0, <2>1, <3>1 DEF TrackedUp, RowsOK, RowType, RunnerUp
    <3> QED BY <2>1, <3>2, <3>3 DEF OwnInv, RunInv, RunOK
  <2>5. run' = Killed(v, Mine(w))  BY <1>19 DEF KillRunner
  <2> HIDE DEF v
  <2>6. /\ run'[v][Mine(w)].st = "none"
        /\ \A u \in Worker, i \in Job : run'[u][i].st # "none" => run'[u][i] = run[u][i]
    BY <1>0, <2>1, <2>3, <2>5, KilledBecomes
  <2>7. \A i \in Job : run'[w][i].st = "none"
    <3>1. \A i \in Job \ {Mine(w)} : run[w][i].st = "none"
      BY <2>1 DEF OwnInv, RunInv, RunOK
    <3> QED BY <2>1, <2>4, <2>6, <3>1
  <2>8. \A u \in Worker \ {w} : wk'[u] = wk[u]  BY <2>2 DEF Turns
  <2>9. \A k \in Job : RowKeeps(k)  BY <2>1, SameKeeps
  <2>10. \A u \in Worker : wk[u].pc \in Held => Mine(u) \in Job
    BY <1>0, BusyJob DEF Held, Early, Late, Busy, Supervising
  <2>11. wk'[w].pc \in Held =>
           wk[w].pc \in Held /\ wk'[w].job = wk[w].job /\ HoldOK(w)'
    <3>1. SUFFICES ASSUME wk'[w].pc \in Held
                   PROVE  wk[w].pc \in Held /\ wk'[w].job = wk[w].job /\ HoldOK(w)'
      OBVIOUS
    <3>2. wk[w].pc = "stop" /\ wk'[w].pc = "settle" /\ Mine(w)' = Mine(w)
      BY <2>2, <3>1 DEF Turns, Held, Early, Late, Mine
    <3>3. HoldOK(w)  BY <3>2 DEF OwnInv, HoldInv, Held, Late
    <3> QED BY <2>1, <2>2, <3>2, <3>3 DEF HoldOK, Held, Early, Late, Turns
  <2>12. \A u \in Worker : wk'[u].pc \in Held =>
           wk[u].pc \in Held /\ wk'[u].job = wk[u].job
    BY <2>8, <2>9, <2>10, <2>11
  <2>12a. \A u \in Worker : wk'[u].pc \in Held =>
           HoldOK(u)' \/ (wk'[u] = wk[u] /\ RowKeeps(Mine(u)))
    BY <2>8, <2>9, <2>10, <2>11
  <2>13. \A u \in Worker, i \in Job : run'[u][i].st # "none" =>
           /\ run'[u][i] = run[u][i] /\ wk'[u].pc = wk[u].pc /\ wk'[u].job = wk[u].job
           /\ RowKeeps(i)
    BY <2>6, <2>7, <2>8, <2>9
  <2> QED BY <2>12, <2>12a, <2>13, OwnFrame
<1> QED BY <1>1, <1>2, <1>3, <1>4, <1>5, <1>6, <1>7, <1>8, <1>9, <1>10, <1>11, <1>12, <1>13,
           <1>14, <1>15, <1>16, <1>17, <1>18, <1>19 DEF WorkerStep, WorkerEvent

\* A runner past its gate, or one that ends, may do with its row what leaves it its
\* worker's and does not put it back into the queue.
LEMMA OwnRunner ==
  ASSUME TypeOK, OwnInv, NEW w \in Worker, NEW j \in Job, NEW c, Becomes(w, j, c),
         run[w][j].st # "none", UNCHANGED <<wk, rq>>, Others(j),
         row'[j].owner = row[j].owner,
         \/ RowKeeps(j)
         \/ /\ run[w][j].st # "gate" /\ row[j].owner = w
            /\ row'[j].status \in InFlight \union Past,
         c.st # "none" =>
           /\ c.known = run[w][j].known
           /\ row'[j].status \in InFlight \union Closed
           /\ row'[j].rw \in {w, row[j].rw}
           /\ wk[w].pc \notin {"persist", "open", "halt"}
  PROVE  OwnInv'
<1>1. \A v \in Worker : wk[v].pc \in Held => Mine(v) \in Job
  BY TypeParts, BusyJob DEF Held, Early, Late, Busy, Supervising
<1>2. row[j].owner = w /\ RunOK(w, j)  BY DEF OwnInv, RunInv, RunOK
<1>3. \A v \in Worker \ {w} : run[v][j].st = "none"  BY <1>2 DEF OwnInv, RunInv, RunOK
<1>4. \A k \in Job \ {j} : RowKeeps(k)  BY DEF Others, RowKeeps
<1>5. \A v \in Worker : Mine(v)' = Mine(v) /\ wk'[v] = wk[v]  BY DEF Mine
<1>6. ASSUME NEW v \in Worker, wk[v].pc \in Held, ~RowKeeps(Mine(v)) PROVE HoldOK(v)'
  <2>1. Mine(v) = j /\ run[w][j].st # "gate" /\ row'[j].status \in InFlight \union Past
    BY <1>1, <1>4, <1>6
  <2>2. HoldOK(v)  BY <1>6 DEF OwnInv, HoldInv
  <2>3. v = w
    <3>1. row[j].status # "finished" /\ w # NoWorker
      BY <1>2, QueueAssumption DEF RunOK, InFlight, Closed
    <3> QED BY <1>2, <1>6, <2>1, <2>2, <3>1 DEF HoldOK, Held
  <2>4. wk[w].pc \in Late
    BY <1>2, <1>6, <2>1, <2>3 DEF RunOK, Beside, Held, Early, Late
  <2>5. wk[w].pc \notin Early  BY <2>4 DEF Early, Late
  <2> QED BY <1>2, <1>5, <2>1, <2>3, <2>4, <2>5 DEF HoldOK
<1>7. run'[w][j].st # "none" => RunOK(w, j)'
  BY <1>2, <1>5 DEF RunOK, Becomes
<1>8. \A v \in Worker : wk'[v].pc \in Held =>
        HoldOK(v)' \/ (wk'[v] = wk[v] /\ RowKeeps(Mine(v)))
  BY <1>5, <1>6
<1>9. \A v \in Worker, i \in Job : run'[v][i].st # "none" =>
        \/ RunOK(v, i)'
        \/ /\ run'[v][i] = run[v][i] /\ wk'[v].pc = wk[v].pc /\ wk'[v].job = wk[v].job
           /\ RowKeeps(i)
  BY <1>3, <1>4, <1>5, <1>7 DEF Becomes
<1> QED BY <1>5, <1>8, <1>9, OwnFrame

\* The steps of a runner.
LEMMA RunnerOwn ==
  ASSUME TypeOK, GateInv, OwnInv, NEW w \in Worker, NEW j \in Job, RunnerMoves(w, j)
  PROVE  OwnInv'
<1>0. /\ RowsOK /\ RunnersOK /\ run[w][j] \in RunnerType /\ row[j] \in RowType
      /\ UNCHANGED <<wk, rq>> /\ RunOK(w, j) /\ Gated(run[w][j])
  BY TypeParts DEF RunnersOK, RowsOK, RunnerMoves, OwnInv, RunInv, GateInv
<1>a. run[w][j].gate => wk[w].pc \notin {"persist", "open", "halt"} \/ run[w][j].st = "none"
  BY <1>0 DEF RunOK
<1>b. run[w][j].st \notin {"none", "gate"} =>
        /\ wk[w].pc \notin {"persist", "open", "halt"}
        /\ row[j].owner = w /\ row[j].status \in InFlight \union Closed
  BY <1>0 DEF RunOK
<1>x. Exits(w, j) => Becomes(w, j, NoRunner) /\ NoRunner.st = "none"
  BY <1>0, RunBecomes DEF Exits, NoRunner
<1>s. ASSUME NEW from, NEW to, Step(w, j, from, to)
      PROVE  \E c : Becomes(w, j, c) /\ c.st = to /\ c.known = run[w][j].known
  <2> DEFINE c == [run[w][j] EXCEPT !.st = to]
  <2>1. c.st = to /\ c.known = run[w][j].known  BY <1>0 DEF RunnerType
  <2>2. run' = [run EXCEPT ![w][j] = c]  BY <1>s DEF Step
  <2> HIDE DEF c
  <2> QED BY <1>0, <2>1, <2>2, RunBecomes
<1>k. UNCHANGED row => Others(j) /\ RowKeeps(j) /\ row'[j] = row[j]
  BY DEF Others, RowKeeps
<1>1. CASE GateTimeout(w, j)
  BY <1>0, <1>1, <1>x, <1>k, OwnRunner DEF GateTimeout
<1>2. CASE Boot(w, j)
  <2>1. run[w][j].st = "gate" /\ run[w][j].gate /\ UNCHANGED row
    BY <1>2 DEF Boot, GateOpen
  <2>2. Exits(w, j) \/ \E to : Step(w, j, "gate", to)  BY <1>2 DEF Boot
  <2>3. CASE Exits(w, j)  BY <1>0, <1>x, <1>k, <2>1, <2>3, OwnRunner
  <2>4. CASE \E to : Step(w, j, "gate", to)
    <3>1. PICK c : Becomes(w, j, c) /\ c.known = run[w][j].known  BY <1>s, <2>4
    <3>2. row[j].status \in InFlight \union Closed  BY <1>0, <2>1 DEF RunOK
    <3> QED BY <1>0, <1>a, <1>k, <2>1, <3>1, <3>2, OwnRunner
  <2> QED BY <2>2, <2>3, <2>4
<1>m. ASSUME NEW t, row' = Moved(j, t)
      PROVE  /\ Others(j) /\ row'[j].owner = row[j].owner /\ row'[j].rw = row[j].rw
             /\ row'[j].status \in {t, row[j].status}
  <2>1. CASE UNCHANGED row  BY <1>k, <2>1
  <2>2. CASE row' = [row EXCEPT ![j].status = t]
    <3> DEFINE c == [row[j] EXCEPT !.status = t]
    <3>1. c.status = t /\ c.owner = row[j].owner /\ c.rw = row[j].rw  BY <1>0 DEF RowType
    <3>2. row' = [row EXCEPT ![j] = c]  BY <2>2
    <3> HIDE DEF c
    <3> QED BY <1>0, <3>1, <3>2, WriteRow
  <2> QED BY <1>m, <2>1, <2>2 DEF Moved
<1>c. \A t \in Closed : row' = Moved(j, t) => RowKeeps(j)
  BY <1>0, MovedKeeps
<1>3. ASSUME NEW from, NEW t, NEW to, StepOwned(w, j, from, t, to), from \notin {"none", "gate"},
             t \in Closed \union {"starting", "running"}
      PROVE  OwnInv'
  <2>1. /\ run[w][j].st = from /\ row[j].owner = w
        /\ row[j].status \in InFlight \union Closed
        /\ wk[w].pc \notin {"persist", "open", "halt"}
    BY <1>3, <1>b DEF StepOwned
  <2>2. CASE UNCHANGED row /\ Exits(w, j)
    BY <1>0, <1>3, <1>x, <1>k, <2>1, <2>2, OwnRunner
  <2>3. CASE row' = Moved(j, t)
    <3>1. /\ Others(j) /\ row'[j].owner = row[j].owner /\ row'[j].rw = row[j].rw
          /\ row'[j].status \in {t, row[j].status}
      BY <1>m, <2>3
    <3>2. row'[j].status \in InFlight \union Past /\ row'[j].status \in InFlight \union Closed
      BY <1>3, <2>1, <3>1 DEF InFlight, Past, Closed, Terminal
    <3>3. \E c : Becomes(w, j, c) /\ (c.st # "none" => c.known = run[w][j].known)
      BY <1>3, <1>x, <1>s DEF StepOwned
    <3> QED BY <1>0, <1>3, <2>1, <3>1, <3>2, <3>3, OwnRunner
  <2> QED BY <1>3, <2>2, <2>3 DEF StepOwned
<1>4. CASE BootCancel(w, j) \/ BootCancelled(w, j) \/ Start(w, j) \/ Running(w, j)
           \/ SpawnFails(w, j)
  BY <1>3, <1>4 DEF BootCancel, BootCancelled, Start, Running, SpawnFails, Closed
<1>5. CASE Reject(w, j)
  <2>1. Others(j) /\ row'[j].owner = row[j].owner /\ RowKeeps(j)
    BY <1>5, <1>m, <1>c DEF Reject, Closed
  <2> QED BY <1>0, <1>5, <1>x, <2>1, OwnRunner DEF Reject
<1>6. ASSUME NEW c, Becomes(w, j, c), c.known = run[w][j].known,
             run[w][j].st \notin {"none", "gate"}, Others(j), row'[j].owner = row[j].owner,
             row'[j].rw \in {w, row[j].rw},
             row'[j].status = row[j].status \/ row'[j].status = "cancelling"
      PROVE  OwnInv'
  <2>1. row'[j].status \in InFlight \union Past /\ row'[j].status \in InFlight \union Closed
    BY <1>b, <1>6 DEF InFlight, Past, Closed, Terminal
  <2> QED BY <1>0, <1>b, <1>6, <2>1, OwnRunner
<1>7. CASE SpawnPipeline(w, j)
  <2> DEFINE c == [run[w][j] EXCEPT !.st = "pid", !.pipe = "live"]
  <2>1. c.known = run[w][j].known  BY <1>0 DEF RunnerType
  <2>2. run' = [run EXCEPT ![w][j] = c]  BY <1>7 DEF SpawnPipeline
  <2> HIDE DEF c
  <2>3. Becomes(w, j, c)  BY <1>0, <2>2, RunBecomes
  <2> QED BY <1>6, <1>7, <1>k, <2>1, <2>3 DEF SpawnPipeline
<1>8. CASE RecordPid(w, j)
  <2> DEFINE c == [run[w][j] EXCEPT !.st = "loop", !.skew = Skewed(w, j)]
             d == [row[j] EXCEPT !.rw = w, !.top = FALSE]
  <2>1. /\ c.known = run[w][j].known
        /\ d.rw = w /\ d.owner = row[j].owner /\ d.status = row[j].status
    BY <1>0 DEF RunnerType, RowType
  <2>2. run' = [run EXCEPT ![w][j] = c] /\ row' = [row EXCEPT ![j] = d]
    BY <1>8 DEF RecordPid
  <2> HIDE DEF c, d
  <2>3. Becomes(w, j, c) /\ row'[j] = d /\ Others(j)
    BY <1>0, <2>2, RunBecomes, WriteRow
  <2> QED BY <1>6, <1>8, <2>1, <2>3 DEF RecordPid
<1>9. CASE PipelineExits(w, j)
  <2> DEFINE c == [run[w][j] EXCEPT !.pipe = "none"]
  <2>1. c.known = run[w][j].known /\ c.st = run[w][j].st /\ c.gate = run[w][j].gate
    BY <1>0 DEF RunnerType
  <2>2. run' = [run EXCEPT ![w][j] = c] /\ UNCHANGED row  BY <1>9 DEF PipelineExits
  <2> HIDE DEF c
  <2>3. Becomes(w, j, c)  BY <1>0, <2>2, RunBecomes
  <2>4. Others(j) /\ \A k \in Job : RowKeeps(k)  BY <2>2, SameKeeps DEF Others
  <2>5. run'[w][j].st # "none" => RunOK(w, j)'
    BY <1>0, <2>1, <2>2, <2>3 DEF Becomes, RunOK, Mine
  <2>6. \A v \in Worker : wk'[v] = wk[v] /\ (wk[v].pc \in Held => Mine(v) \in Job)
    BY <1>0, TypeParts, BusyJob DEF Held, Early, Late, Busy, Supervising
  <2>8. \A v \in Worker, i \in Job : run'[v][i].st # "none" =>
          \/ RunOK(v, i)'
          \/ /\ run'[v][i] = run[v][i] /\ wk'[v].pc = wk[v].pc /\ wk'[v].job = wk[v].job
             /\ RowKeeps(i)
    BY <2>3, <2>4, <2>5, <2>6 DEF Becomes
  <2> QED BY <2>4, <2>6, <2>8, OwnFrame
<1>10. CASE ObserveCancel(w, j) \/ ObserveStop(w, j)
  <2>1. PICK out \in {"cancelled", "interrupted"} :
          run' = [run EXCEPT ![w][j] = [@ EXCEPT !.st = "final", !.out = out, !.pipe = "none"]]
    BY <1>10 DEF ObserveCancel, ObserveStop
  <2> DEFINE c == [run[w][j] EXCEPT !.st = "final", !.out = out, !.pipe = "none"]
  <2>2. c.known = run[w][j].known  BY <1>0 DEF RunnerType
  <2>3. run' = [run EXCEPT ![w][j] = c]  BY <2>1
  <2> HIDE DEF c
  <2>4. Becomes(w, j, c)  BY <1>0, <2>3, RunBecomes
  <2>5. /\ Others(j) /\ row'[j].owner = row[j].owner /\ row'[j].rw = row[j].rw
        /\ row'[j].status = row[j].status \/ row'[j].status = "cancelling"
    BY <1>10, <1>k, <1>m DEF ObserveCancel, ObserveStop
  <2>6. run[w][j].st = "loop"  BY <1>10 DEF ObserveCancel, ObserveStop
  <2> QED BY <1>6, <2>2, <2>4, <2>5, <2>6
<1>11. CASE PipelineDone(w, j)
  <2>1. PICK out : run' = [run EXCEPT ![w][j] = [@ EXCEPT !.st = "final", !.out = out]]
    BY <1>11 DEF PipelineDone
  <2> DEFINE c == [run[w][j] EXCEPT !.st = "final", !.out = out]
  <2>2. c.known = run[w][j].known  BY <1>0 DEF RunnerType
  <2>3. run' = [run EXCEPT ![w][j] = c] /\ UNCHANGED row /\ run[w][j].st = "loop"
    BY <1>11, <2>1 DEF PipelineDone
  <2> HIDE DEF c
  <2>4. Becomes(w, j, c)  BY <1>0, <2>3, RunBecomes
  <2> QED BY <1>6, <1>k, <2>2, <2>3, <2>4
<1>12. CASE Finalize(w, j)
  <2>1. run[w][j].st = "final" /\ Exits(w, j) /\ row[j].owner = w
        /\ row[j].status \in InFlight \union Closed
    BY <1>12, <1>b DEF Finalize
  <2>2. PICK t \in {"cancelled", "interrupted", "finished", "review_required", "failed"} :
          row' = MovedR(j, t, Recoverable(j, t))
    BY <1>0, <1>12, <2>1 DEF Finalize, RunnerType
  <2> DEFINE c == [row[j] EXCEPT !.status = t, !.recov = Recoverable(j, t)]
  <2>3. c.status = t /\ c.owner = row[j].owner  BY <1>0 DEF RowType
  <2>4. row' = [row EXCEPT ![j] = c] \/ UNCHANGED row  BY <2>2 DEF MovedR
  <2> HIDE DEF c
  <2>5. /\ Others(j) /\ row'[j].owner = row[j].owner
        /\ row'[j].status \in {t, row[j].status}
    BY <1>0, <1>k, <2>3, <2>4, WriteRow
  <2>6. row'[j].status \in InFlight \union Past
    BY <2>1, <2>2, <2>5 DEF InFlight, Closed, Past, Terminal
  <2> QED BY <1>0, <1>x, <2>1, <2>5, <2>6, OwnRunner
<1>13. CASE RunnerAlone(w, j)
  <2> DEFINE c == [NoRunner EXCEPT !.pipe = run[w][j].pipe]
  <2>1. c.st = "none"  BY DEF NoRunner
  <2>2. run' = [run EXCEPT ![w][j] = c] /\ UNCHANGED row /\ run[w][j].st # "none"
    BY <1>13 DEF RunnerAlone, RunnerUp
  <2> HIDE DEF c
  <2>3. Becomes(w, j, c)  BY <1>0, <2>2, RunBecomes
  <2> QED BY <1>0, <1>k, <2>1, <2>2, <2>3, OwnRunner
<1> QED BY <1>1, <1>2, <1>4, <1>5, <1>7, <1>8, <1>9, <1>10, <1>11, <1>12, <1>13
        DEF RunnerMoves, RunnerStep

\* A request that goes on, or is answered, leaves the others alone.
LEMMA RequestTurns ==
  ASSUME RequestsOK, NEW r \in Request
  PROVE  /\ \A pc, j, seen : Asks(r, pc, j, seen) =>
              /\ rq'[r] = [pc |-> pc, job |-> j, seen |-> seen]
              /\ \A q \in Request \ {r} : rq'[q] = rq[q]
         /\ Answers(r) =>
              /\ rq'[r] = [pc |-> "idle", job |-> NoJob, seen |-> NoRow]
              /\ \A q \in Request \ {r} : rq'[q] = rq[q]
         /\ \A pc : Next1(r, pc) =>
              /\ rq'[r].pc = pc /\ rq'[r].job = rq[r].job /\ rq'[r].seen = rq[r].seen
              /\ \A q \in Request \ {r} : rq'[q] = rq[q]
<1>1. ASSUME NEW c, rq' = [rq EXCEPT ![r] = c]
      PROVE  rq'[r] = c /\ \A q \in Request \ {r} : rq'[q] = rq[q]
  BY <1>1 DEF RequestsOK
<1>2. ASSUME NEW pc, Next1(r, pc)
      PROVE  /\ rq'[r].pc = pc /\ rq'[r].job = rq[r].job /\ rq'[r].seen = rq[r].seen
             /\ \A q \in Request \ {r} : rq'[q] = rq[q]
  <2> DEFINE c == [rq[r] EXCEPT !.pc = pc]
  <2>1. c.pc = pc /\ c.job = rq[r].job /\ c.seen = rq[r].seen
    BY DEF RequestsOK, RequestType
  <2>2. rq' = [rq EXCEPT ![r] = c]  BY <1>2 DEF Next1
  <2> HIDE DEF c
  <2> QED BY <1>1, <2>1, <2>2
<1> QED BY <1>1, <1>2 DEF Asks, Answers

\* Only the release of a held row leads to its requeue.
LEMMA RequeueTurns ==
  ASSUME TypeOK, NEW r \in Request, UiStep(r), NEW q \in Request, rq'[q].pc = "requeue"
  PROVE  \/ rq'[q] = rq[q] /\ ~(q = r /\ Requeue(r))
         \/ /\ UiOps \intersect {"confirm", "verify", "authorize"} # {}
            /\ rq'[q].job \in Job /\ row'[rq'[q].job].status \in Holds
<1>0. RowsOK /\ RequestsOK  BY TypeParts
<1> DEFINE Began == \E pc \in {"insert", "payload", "mark", "create", "flag", "cancelled",
                                "reconcile"} : \E j, seen : Asks(r, pc, j, seen)
           Went == \E pc \in {"create", "probe", "markcancel", "settlecancel", "cancelled"} :
                     Next1(r, pc)
           Releases == ConfirmPages(r) \/ VerifySource(r) \/ AuthorizeDownload(r)
<1>1. CASE Releases
  <2>1. PICK j \in Job :
          /\ On(r, "idle") /\ row[j].status \in Holds
          /\ UNCHANGED row \/ row' = [row EXCEPT ![j].sel = TRUE]
          /\ Asks(r, "requeue", j, NoRow)
    BY <1>1 DEF ConfirmPages, VerifySource, AuthorizeDownload, Holds
  <2>o. UiOps \intersect {"confirm", "verify", "authorize"} # {}
    BY <1>1 DEF ConfirmPages, VerifySource, AuthorizeDownload
  <2> DEFINE c == [row[j] EXCEPT !.sel = TRUE]
  <2>2. c.status = row[j].status  BY <1>0 DEF RowsOK, RowType
  <2>3. UNCHANGED row \/ row' = [row EXCEPT ![j] = c]  BY <2>1
  <2> HIDE DEF c
  <2>4. row'[j].status \in Holds  BY <1>0, <2>1, <2>2, <2>3, WriteRow
  <2>5. /\ rq'[r] = [pc |-> "requeue", job |-> j, seen |-> NoRow]
        /\ \A p \in Request \ {r} : rq'[p] = rq[p]
    BY <1>0, <2>1, RequestTurns
  <2>6. rq'[r].job = j  BY <2>5
  <2>7. ~Requeue(r)  BY <2>1 DEF Requeue, On
  <2> QED BY <2>o, <2>4, <2>5, <2>6, <2>7
<1>2. CASE ~Releases
  <2>1. (Began \/ Went \/ Answers(r)) \/ (UNCHANGED rq /\ ~Requeue(r))
    <3>1. CASE \/ Insert(r) \/ Submit(r) \/ Resume(r) \/ Cancel(r) \/ CancelHeld(r)
               \/ Reconcile(r)
      <4>1. Began \/ Answers(r)
        BY <3>1 DEF Insert, Submit, Resume, Cancel, CancelHeld, Reconcile
      <4> QED BY <4>1
    <3>2. CASE CreateResumed(r)
      BY <3>2 DEF CreateResumed
    <3>3. CASE \/ MarkResumable(r) \/ FlagCancel(r) \/ ProbeRunner(r) \/ MarkCancelling(r)
               \/ SettleCancel(r) \/ SettleCancelled(r) \/ Freeze(r) \/ Requeue(r)
               \/ PersistPayload(r) \/ UiRestart(r)
      <4>1. Went \/ Answers(r)
        BY <3>3 DEF MarkResumable, FlagCancel, ProbeRunner, MarkCancelling, SettleCancel,
           SettleCancelled, Freeze, Requeue, PersistPayload, UiRestart
      <4> QED BY <4>1
    <3>4. CASE ResolveReady(r) \/ Dismiss(r) \/ CompleteReview(r)
      <4>1. UNCHANGED rq
        BY <3>4 DEF ResolveReady, Dismiss, CompleteReview
      <4>2. ~Answers(r) => ~Requeue(r)  BY DEF Requeue
      <4> QED BY <4>1, <4>2
    <3> QED BY <1>2, <3>1, <3>2, <3>3, <3>4 DEF UiStep, UiContinues
  <2>2. CASE Began
    <3>1. ASSUME NEW pc \in {"insert", "payload", "mark", "create", "flag", "cancelled",
                             "reconcile"},
                 NEW j, NEW seen, Asks(r, pc, j, seen)
          PROVE  rq'[q] = rq[q] /\ q # r
      <4>1. /\ rq'[r] = [pc |-> pc, job |-> j, seen |-> seen]
            /\ \A p \in Request \ {r} : rq'[p] = rq[p]
        BY <1>0, <3>1, RequestTurns
      <4>2. rq'[r].pc = pc  BY <4>1
      <4> QED BY <4>1, <4>2
    <3> QED BY <2>2, <3>1
  <2>3. CASE Went  BY <1>0, <2>3, RequestTurns
  <2>4. CASE Answers(r)  BY <1>0, <2>4, RequestTurns
  <2> QED BY <2>1, <2>2, <2>3, <2>4
<1> QED BY <1>1, <1>2

\* The steps of a request.
LEMMA UiOwn ==
  ASSUME RequeuesAlone, TypeOK, OwnInv, LateInv, NEW r \in Request, UiStep(r)
  PROVE  OwnInv'
<1>0. /\ RowsOK /\ RequestsOK /\ UNCHANGED <<wk, run>>
      /\ rq[r].pc \notin {"idle", "insert"} => rq[r].job \in Job
  BY TypeParts DEF UiStep, RequestsOK
<1>k. (\A k \in Job : RowKeeps(k)) => OwnInv'
  BY <1>0, OwnKept
<1>1. CASE \/ Submit(r) \/ Resume(r) \/ Cancel(r) \/ CancelHeld(r) \/ Reconcile(r)
           \/ ProbeRunner(r) \/ VerifySource(r) \/ AuthorizeDownload(r) \/ UiRestart(r)
  BY <1>1, <1>k, SameKeeps DEF Submit, Resume, Cancel, CancelHeld, Reconcile, ProbeRunner,
     VerifySource, AuthorizeDownload, UiRestart
<1>2. CASE \/ MarkResumable(r) \/ MarkCancelling(r) \/ SettleCancel(r) \/ SettleCancelled(r)
           \/ Freeze(r)
  <2>1. PICK j \in Job :
          \/ UNCHANGED row \/ row' = MovedR(j, "resumable", TRUE)
          \/ row' = Moved(j, "cancelling") \/ row' = Moved(j, "cancelled")
          \/ row' = MovedR(j, "cancelled", TRUE) \/ row' = MovedR(j, "interrupted", TRUE)
    BY <1>0, <1>2 DEF MarkResumable, MarkCancelling, SettleCancel, SettleCancelled, Freeze, On
  <2> QED BY <1>0, <1>k, <2>1, MovedKeeps, SameKeeps DEF Closed
<1>3. ASSUME NEW j \in Job, NEW c, row' = [row EXCEPT ![j] = c], c.status = row[j].status,
             c.owner = row[j].owner, c.rw = row[j].rw
      PROVE  OwnInv'
  BY <1>0, <1>3, <1>k, WriteRow DEF Others, RowKeeps
<1>4. CASE PersistPayload(r)
  <2>1. rq[r].job \in Job  BY <1>0, <1>4 DEF PersistPayload, On
  <2> DEFINE c == [row[rq[r].job] EXCEPT !.payload = TRUE, !.sel = CarriedOver(r)]
  <2>2. /\ c.status = row[rq[r].job].status /\ c.owner = row[rq[r].job].owner
        /\ c.rw = row[rq[r].job].rw
    BY <1>0, <2>1 DEF RowsOK, RowType
  <2>3. row' = [row EXCEPT ![rq[r].job] = c]  BY <1>4 DEF PersistPayload
  <2> HIDE DEF c
  <2> QED BY <1>3, <2>1, <2>2, <2>3
<1>5. CASE FlagCancel(r)
  <2>1. rq[r].job \in Job  BY <1>0, <1>5 DEF FlagCancel, On
  <2> DEFINE c == [row[rq[r].job] EXCEPT !.cancel = TRUE]
  <2>2. /\ c.status = row[rq[r].job].status /\ c.owner = row[rq[r].job].owner
        /\ c.rw = row[rq[r].job].rw
    BY <1>0, <2>1 DEF RowsOK, RowType
  <2>3. row' = [row EXCEPT ![rq[r].job] = c] \/ UNCHANGED row  BY <1>5 DEF FlagCancel
  <2> HIDE DEF c
  <2> QED BY <1>3, <1>k, <2>1, <2>2, <2>3, SameKeeps
<1>6. CASE Dismiss(r)
  <2>1. PICK j \in Job : row' = [row EXCEPT ![j] = [@ EXCEPT !.recov = FALSE]]
    BY <1>6 DEF Dismiss
  <2> DEFINE c == [row[j] EXCEPT !.recov = FALSE]
  <2>2. c.status = row[j].status /\ c.owner = row[j].owner /\ c.rw = row[j].rw
    BY <1>0 DEF RowsOK, RowType
  <2>3. row' = [row EXCEPT ![j] = c]  BY <2>1
  <2> HIDE DEF c
  <2> QED BY <1>3, <2>2, <2>3
<1>7. CASE Insert(r) \/ CreateResumed(r)
  <2>1. UNCHANGED row \/ \E j \in Job : \E c : NextRow(j) /\ row' = [row EXCEPT ![j] = c]
    BY <1>7 DEF Insert, CreateResumed, Attempt
  <2>2. ASSUME NEW j \in Job, NEW c, NextRow(j), row' = [row EXCEPT ![j] = c]
        PROVE  OwnInv'
    <3>1. Others(j)  BY <1>0, <2>2, WriteRow
    <3>2. row[j].status \notin InFlight \union Past \union {"source_analysis_ready"}
      BY <2>2 DEF NextRow, InFlight, Past, Terminal
    <3> QED BY <1>0, <3>1, <3>2, OwnFree
  <2> QED BY <1>k, <2>1, <2>2, SameKeeps
<1>8. CASE Requeue(r)
  <2>1. PICK j \in Job :
          /\ row' = Moved(j, "queued") \/ UNCHANGED row
          /\ row[j].status \in Holds \union {"cancelled", "failed"}
    BY <1>0, <1>8 DEF Requeue, On, LateInv
  <2>2. CASE UNCHANGED row  BY <1>k, <2>2, SameKeeps
  <2>3. CASE row' = [row EXCEPT ![j].status = "queued"] /\ row[j].status \in Holds
    <3> DEFINE c == [row[j] EXCEPT !.status = "queued"]
    <3>1. c.status = "queued"  BY <1>0 DEF RowsOK, RowType
    <3>2. row' = [row EXCEPT ![j] = c]  BY <2>3
    <3> HIDE DEF c
    <3>3. Others(j) /\ row'[j].status = "queued"  BY <1>0, <3>1, <3>2, WriteRow
    <3>4. row[j].status \notin InFlight \union Past /\ row[j].status # "queued"
      BY <2>3 DEF InFlight, Past, Terminal, Holds
    <3>5. \A v \in Worker : At(v, "handoff") => Mine(v) # j
      BY <1>8, <3>3, <3>4 DEF RequeuesAlone, HandoffsApart
    <3> QED BY <1>0, <3>3, <3>4, <3>5, OwnFree
  <2> QED BY <2>1, <2>2, <2>3 DEF Moved, CanMove, TransitionAllowed, Holds
<1>10. CASE ResolveReady(r)
  <2>1. PICK j \in Job :
          /\ row[j].status = "source_analysis_ready"
          /\ row' = [row EXCEPT ![j] = [@ EXCEPT !.status = "queued", !.auth = TRUE]]
    BY <1>10 DEF ResolveReady, Resolvable
  <2> DEFINE c == [row[j] EXCEPT !.status = "queued", !.auth = TRUE]
  <2>2. c.status = "queued"  BY <1>0 DEF RowsOK, RowType
  <2>3. row' = [row EXCEPT ![j] = c]  BY <2>1
  <2> HIDE DEF c
  <2>4. Others(j) /\ row'[j].status = "queued"  BY <1>0, <2>2, <2>3, WriteRow
  <2>5. \A v \in Worker : At(v, "handoff") => Mine(v) # j
    BY <1>10, <2>1, <2>4 DEF RequeuesAlone, HandoffsApart
  <2>6. row[j].status \notin InFlight \union Past
    BY <2>1 DEF InFlight, Past, Terminal
  <2> QED BY <1>0, <2>4, <2>5, <2>6, OwnFree
<1>9. CASE CompleteReview(r)
  <2>1. PICK j \in Job :
          /\ row[j].status = "review_required"
          /\ row' = [row EXCEPT ![j] = [@ EXCEPT !.status = "finished", !.owner = NoWorker,
                                           !.rw = NoWorker, !.top = TRUE, !.cancel = FALSE]]
    BY <1>9 DEF CompleteReview
  <2> DEFINE c == [row[j] EXCEPT !.status = "finished", !.owner = NoWorker,
                                 !.rw = NoWorker, !.top = TRUE, !.cancel = FALSE]
  <2>2. c.status = "finished" /\ c.owner = NoWorker  BY <1>0 DEF RowsOK, RowType
  <2>3. row' = [row EXCEPT ![j] = c]  BY <2>1
  <2> HIDE DEF c
  <2>4. row'[j] = c /\ \A k \in Job \ {j} : RowKeeps(k)
    BY <1>0, <2>3, WriteRow DEF Others, RowKeeps
  <2>5. \A v \in Worker : wk'[v] = wk[v] /\ Mine(v)' = Mine(v)
    BY <1>0 DEF Mine
  <2>6. \A v \in Worker : wk[v].pc \in Held => Mine(v) \in Job
    BY TypeParts, BusyJob DEF Held, Early, Late, Busy, Supervising
  <2>7. ASSUME NEW v \in Worker, wk[v].pc \in Held, Mine(v) = j PROVE HoldOK(v)'
    <3>1. HoldOK(v) /\ wk[v].pc \notin Early
      BY <2>1, <2>7 DEF OwnInv, HoldInv, HoldOK, Closed
    <3> QED BY <2>2, <2>4, <2>5, <2>7, <3>1 DEF HoldOK, Past, Terminal
  <2>8. \A v \in Worker : wk'[v].pc \in Held =>
          HoldOK(v)' \/ (wk'[v] = wk[v] /\ RowKeeps(Mine(v)))
    BY <2>4, <2>5, <2>6, <2>7
  <2>9. \A v \in Worker : run[v][j].st = "none"
    BY <2>1 DEF OwnInv, RunInv, RunOK, InFlight, Closed
  <2>10. \A v \in Worker, i \in Job : run'[v][i].st # "none" =>
           /\ run'[v][i] = run[v][i] /\ wk'[v].pc = wk[v].pc /\ wk'[v].job = wk[v].job
           /\ RowKeeps(i)
    BY <1>0, <2>4, <2>9
  <2> QED BY <2>5, <2>8, <2>10, OwnFrame
<1>11. CASE ConfirmPages(r)
  <2>1. PICK j \in Job : row' = [row EXCEPT ![j].sel = TRUE]
    BY <1>11 DEF ConfirmPages
  <2> DEFINE c == [row[j] EXCEPT !.sel = TRUE]
  <2>2. c.status = row[j].status /\ c.owner = row[j].owner /\ c.rw = row[j].rw
    BY <1>0 DEF RowsOK, RowType
  <2>3. row' = [row EXCEPT ![j] = c]  BY <2>1
  <2> HIDE DEF c
  <2> QED BY <1>3, <2>2, <2>3
<1> QED BY <1>1, <1>2, <1>4, <1>5, <1>6, <1>7, <1>8, <1>9, <1>10, <1>11 DEF UiStep, UiContinues

\* In the empty queue nobody works on anything.
LEMMA OwnInit == Init => OwnInv
BY DEF Init, OwnInv, HoldInv, SingleInv, RunInv, RunOK, Held, Early, Late, NoRunner

\* OwnInv is inductive, with TypeOK, GateInv and LateInv, as long as rows are requeued
\* one at a time: who owns a row, who is beside its runner and whose runner it is stay
\* one worker, whatever the workers, runners and requests do.
LEMMA OwnStep ==
  TypeOK /\ GateInv /\ OwnInv /\ LateInv /\ [Next]_vars /\ [RequeuesAlone]_vars => OwnInv'
<1> SUFFICES ASSUME TypeOK, GateInv, OwnInv, LateInv, [Next]_vars, [RequeuesAlone]_vars
             PROVE  OwnInv'
  OBVIOUS
<1>1. CASE UNCHANGED vars
  <2>1. UNCHANGED <<row, wk, run, rq>>  BY <1>1 DEF vars
  <2> QED BY <2>1, SameKeeps, OwnKept
<1>2. CASE Next /\ RequeuesAlone  BY <1>2, WorkerOwn, RunnerOwn, UiOwn DEF Next
<1> QED BY <1>1, <1>2

\* Nobody else supervises the row a worker supervises.
LEMMA OwnSingle == OwnInv => OneSupervisor
BY DEF OwnInv, SingleInv, OneSupervisor, Supervising, Held, Early, Late, HoldInv

(***************************************************************************)
(* Attempts.                                                               *)
(***************************************************************************)

\* The hold that its worker's handoff, or a resolve, releases.
Released == {"source_analysis_ready"}

\* Row k, written as c, keeps its request to cancel, unless its review ends, its payload
\* and its page selection.
Retains(k, c) ==
  /\ row[k].cancel => c.cancel \/ c.status = "finished"
  /\ row[k].payload => c.payload
  /\ row[k].sel => c.sel

\* The step leaves row k the attempt it is, and takes none of that back.
SameAttempt(k) ==
  /\ row'[k].prev = row[k].prev /\ row'[k].root = row[k].root
  /\ row'[k].status = "absent" <=> row[k].status = "absent"
  /\ Retains(k, row'[k])

\* ... and does not bring it back into the queue but from that hold, or from any.
Attempted(k) ==
  SameAttempt(k) /\ (row'[k].status = "queued" => row[k].status \in Released \union {"queued"})
Carried(k) ==
  SameAttempt(k) /\ (row'[k].status = "queued" => row[k].status \in Holds \union {"queued"})

\* A write of one row that changes neither its parent nor its line.
LEMMA WriteAttempted ==
  ASSUME RowsOK, NEW j \in Job, NEW c, row' = [row EXCEPT ![j] = c],
         c.prev = row[j].prev, c.root = row[j].root,
         Retains(j, c),
         \/ c.status = row[j].status
         \/ /\ c.status # "absent" /\ row[j].status # "absent"
            /\ c.status = "queued" => row[j].status \in Released
  PROVE  \A k \in Job : Attempted(k)
BY WriteRow DEF Others, Attempted, SameAttempt, Retains

\* A step that writes no row leaves every attempt what it is.
LEMMA SameAttempted == UNCHANGED row => \A k \in Job : Attempted(k)
BY DEF Attempted, SameAttempt, Retains

\* A transition() to any status but the queue.
LEMMA MovedAttempted ==
  ASSUME RowsOK, NEW j \in Job, NEW t \in Status \ {"queued"},
         row' = Moved(j, t) \/ \E b \in BOOLEAN : row' = MovedR(j, t, b)
  PROVE  \A k \in Job : Attempted(k)
<1>0. t # "absent"  BY StatusSets
<1>1. CASE UNCHANGED row  BY <1>1, SameAttempted
<1>2. CASE CanMove(j, t) /\ row' = [row EXCEPT ![j].status = t]
  <2> DEFINE c == [row[j] EXCEPT !.status = t]
  <2>1. /\ c.status = t /\ c.prev = row[j].prev /\ c.root = row[j].root
        /\ Retains(j, c)
        /\ row' = [row EXCEPT ![j] = c]
    BY <1>2 DEF RowsOK, RowType, Retains
  <2> HIDE DEF c
  <2>2. row[j].status # "absent"  BY <1>2 DEF CanMove, TransitionAllowed, Holds
  <2> QED BY <1>0, <2>1, <2>2, WriteAttempted
<1>3. ASSUME NEW b \in BOOLEAN, CanMove(j, t),
             row' = [row EXCEPT ![j] = [@ EXCEPT !.status = t, !.recov = b]]
      PROVE  \A k \in Job : Attempted(k)
  <2> DEFINE c == [row[j] EXCEPT !.status = t, !.recov = b]
  <2>1. /\ c.status = t /\ c.prev = row[j].prev /\ c.root = row[j].root
        /\ Retains(j, c)
        /\ row' = [row EXCEPT ![j] = c]
    BY <1>3 DEF RowsOK, RowType, Retains
  <2> HIDE DEF c
  <2>2. row[j].status # "absent"  BY <1>3 DEF CanMove, TransitionAllowed, Holds
  <2> QED BY <1>0, <2>1, <2>2, WriteAttempted
<1> QED BY <1>1, <1>2, <1>3 DEF Moved, MovedR

\* No worker requeues.
LEMMA WorkerAttempts ==
  ASSUME TypeOK, NEW w \in Worker, WorkerStep(w) \/ WorkerEvent(w)
  PROVE  \A k \in Job : Attempted(k)
<1>0. RowsOK /\ WorkersOK /\ TodoOK  BY TypeParts
<1>m. wk[w].pc \in Busy => Mine(w) \in Job  BY <1>0, BusyJob
<1>1. CASE
     \/ StartWorker(w) \/ WorkerCheck(w) \/ Register(w) \/ Heartbeat(w)
     \/ LeaseExpires(w) \/ RequestStop(w) \/ WorkerStops(w) \/ WorkerCrash(w)
     \/ ScanOrphans(w) \/ OrphanProbe(w) \/ OrphanSurvives(w) \/ OrphansDone(w)
     \/ Claimed(w) \/ NothingQueued(w) \/ Prepare(w) \/ AnalysisDone(w) \/ Apply(w)
     \/ SpawnRunner(w) \/ PersistFails(w) \/ OpenGate(w) \/ WatchStops(w)
     \/ KillRunner(w) \/ RunnerExited(w)
  BY <1>1, SameAttempted
  DEF StartWorker, WorkerCheck, Register, Heartbeat, LeaseExpires,
      RequestStop, WorkerStops, WorkerCrash, ScanOrphans,
      OrphanProbe, OrphanSurvives, OrphansDone, Claimed,
      NothingQueued, Prepare, AnalysisDone, Apply, SpawnRunner,
      PersistFails, OpenGate, WatchStops, KillRunner, RunnerExited
<1>2. CASE OrphanSettle(w) \/ OrphanCancel(w) \/ OrphanClose(w)
  <2>1. PICK o \in todo[w] :
          \/ UNCHANGED row \/ row' = Moved(o.job, "cancelling")
          \/ row' = MovedR(o.job, "interrupted", TRUE)
          \/ row' = MovedR(o.job, "cancelled", FALSE)
    BY <1>2 DEF OrphanSettle, OrphanCancel, OrphanClose, RecoveredAs
  <2>2. o.job \in Job  BY <1>0, TodoUpdate DEF OrphanType
  <2>3. {"cancelling", "interrupted", "cancelled"} \subseteq Status \ {"queued"}  BY StatusValues
  <2> QED BY <1>0, <2>1, <2>2, <2>3, MovedAttempted, SameAttempted
<1>3. CASE \/ AnalysisFails(w) \/ AnalysisCancelled(w) \/ FailCancelled(w) \/ FailSource(w)
           \/ SettleStopped(w) \/ CloseStopped(w)
  <2>1. Mine(w) \in Job
    BY <1>3, <1>m DEF AnalysisFails, AnalysisCancelled, FailCancelled, FailSource,
       SettleStopped, CloseStopped, At, Busy, Supervising
  <2>2. \/ UNCHANGED row \/ row' = MovedR(Mine(w), "interrupted", TRUE)
        \/ \E t \in Status \ {"queued"} : row' = Moved(Mine(w), t)
    BY <1>3, StatusValues DEF AnalysisFails, AnalysisCancelled, FailCancelled, FailSource,
       SettleStopped, CloseStopped
  <2>3. "interrupted" \in Status \ {"queued"}  BY StatusValues
  <2> QED BY <1>0, <2>1, <2>2, <2>3, MovedAttempted, SameAttempted
<1>4. CASE ExitReconcile(w) \/ ExitCancelled(w)
  <2>1. Mine(w) \in Job  BY <1>4, <1>m DEF ExitReconcile, ExitCancelled, At, Busy
  <2>2. row[Mine(w)].recov \in BOOLEAN  BY <1>0, <2>1 DEF RowsOK, RowType
  <2>3. \E t \in {"interrupted", "cancelling", "cancelled"}, b \in BOOLEAN, next \in {"idle", "exit2"} :
          MoveOrUnwind(w, t, b, next)
    BY <1>4, <2>2 DEF ExitReconcile, ExitCancelled
  <2>4. \E t \in {"interrupted", "cancelling", "cancelled"}, b \in BOOLEAN :
          row' = MovedR(Mine(w), t, b) \/ UNCHANGED row
    BY <2>3 DEF MoveOrUnwind, MovedR, CanMoveOwned
  <2> QED BY <1>0, <2>1, <2>4, MovedAttempted, SameAttempted, StatusValues
<1>5. CASE Claim(w)
  <2>1. PICK j \in Job :
          /\ row[j].status = "queued"
          /\ row' = [row EXCEPT ![j] = [@ EXCEPT !.status = "claiming", !.owner = w]]
    BY <1>5 DEF Claim, Claimable
  <2> DEFINE c == [row[j] EXCEPT !.status = "claiming", !.owner = w]
  <2>2. /\ c.status = "claiming" /\ c.prev = row[j].prev /\ c.root = row[j].root
        /\ Retains(j, c)
    BY <1>0 DEF RowsOK, RowType, Retains
  <2>3. row' = [row EXCEPT ![j] = c]  BY <2>1
  <2> HIDE DEF c
  <2> QED BY <1>0, <2>1, <2>2, <2>3, WriteAttempted
<1>6. CASE Decide(w)
  <2>1. Mine(w) \in Job  BY <1>6, <1>m DEF Decide, At, Busy, Supervising
  <2>2. CASE UNCHANGED row  BY <2>2, SameAttempted
  <2>3. CASE ~UNCHANGED row
    <3>1. PICK t \in {"failed", "awaiting_source_review", "source_analysis_ready"} :
            /\ CanMove(Mine(w), t)
            /\ row' = [row EXCEPT ![Mine(w)] =
                         [@ EXCEPT !.status = t, !.sel = Selected(Mine(w), t)]]
      BY <1>6, <2>3 DEF Decide
    <3> DEFINE c == [row[Mine(w)] EXCEPT !.status = t, !.sel = Selected(Mine(w), t)]
    <3>2. /\ c.status = t /\ c.prev = row[Mine(w)].prev /\ c.root = row[Mine(w)].root
          /\ Retains(Mine(w), c)
      BY <1>0, <2>1 DEF RowsOK, RowType, Retains, Selected
    <3>3. row' = [row EXCEPT ![Mine(w)] = c]  BY <3>1
    <3>4. row[Mine(w)].status # "absent"  BY <3>1 DEF CanMove, TransitionAllowed, Holds
    <3> HIDE DEF c
    <3> QED BY <1>0, <2>1, <3>2, <3>3, <3>4, WriteAttempted
  <2> QED BY <2>2, <2>3
<1>7. CASE Handoff(w)
  <2>1. Mine(w) \in Job  BY <1>7, <1>m DEF Handoff, At, Busy, Supervising
  <2>2. CASE UNCHANGED row \/ row' = Moved(Mine(w), "failed")
    BY <1>0, <2>1, <2>2, MovedAttempted, SameAttempted, StatusValues
  <2>3. CASE ~(UNCHANGED row \/ row' = Moved(Mine(w), "failed"))
    <3>1. /\ row[Mine(w)].status = "source_analysis_ready"
          /\ row' = [row EXCEPT ![Mine(w)] = [@ EXCEPT !.status = "claiming", !.auth = TRUE]]
      BY <1>7, <2>3 DEF Handoff, Resolvable
    <3> DEFINE c == [row[Mine(w)] EXCEPT !.status = "claiming", !.auth = TRUE]
    <3>2. /\ c.status = "claiming" /\ c.prev = row[Mine(w)].prev /\ c.root = row[Mine(w)].root
          /\ Retains(Mine(w), c)
      BY <1>0, <2>1 DEF RowsOK, RowType, Retains
    <3>3. row' = [row EXCEPT ![Mine(w)] = c]  BY <3>1
    <3> HIDE DEF c
    <3> QED BY <1>0, <2>1, <3>1, <3>2, <3>3, WriteAttempted
  <2> QED BY <2>2, <2>3
<1>8. CASE PersistRunner(w)
  <2>1. Mine(w) \in Job  BY <1>8, <1>m DEF PersistRunner, At, Busy, Supervising
  <2> DEFINE c == [row[Mine(w)] EXCEPT !.rw = w, !.top = TRUE]
  <2>2. /\ c.status = row[Mine(w)].status /\ c.prev = row[Mine(w)].prev
        /\ c.root = row[Mine(w)].root /\ Retains(Mine(w), c)
    BY <1>0, <2>1 DEF RowsOK, RowType, Retains
  <2>3. row' = [row EXCEPT ![Mine(w)] = c]  BY <1>8 DEF PersistRunner
  <2> HIDE DEF c
  <2> QED BY <1>0, <2>1, <2>2, <2>3, WriteAttempted
<1> QED BY <1>1, <1>2, <1>3, <1>4, <1>5, <1>6, <1>7, <1>8 DEF WorkerStep, WorkerEvent

\* Nor does a runner.
LEMMA RunnerAttempts ==
  ASSUME TypeOK, NEW w \in Worker, NEW j \in Job, RunnerMoves(w, j)
  PROVE  \A k \in Job : Attempted(k)
<1>0. RowsOK /\ RunnersOK  BY TypeParts
<1>1. CASE \/ GateTimeout(w, j) \/ Boot(w, j) \/ SpawnPipeline(w, j) \/ PipelineExits(w, j)
           \/ ObserveStop(w, j) \/ PipelineDone(w, j) \/ RunnerAlone(w, j)
  BY <1>1, SameAttempted DEF GateTimeout, Boot, SpawnPipeline, PipelineExits, ObserveStop,
     PipelineDone, RunnerAlone
<1>2. CASE \/ BootCancel(w, j) \/ BootCancelled(w, j) \/ Reject(w, j) \/ Start(w, j)
           \/ Running(w, j) \/ SpawnFails(w, j) \/ ObserveCancel(w, j)
  <2>1. \/ UNCHANGED row
        \/ \E t \in Status \ {"queued"} : row' = Moved(j, t)
    BY <1>2, StatusValues DEF BootCancel, BootCancelled, Reject, Start, Running, SpawnFails,
       ObserveCancel, StepOwned
  <2> QED BY <1>0, <2>1, MovedAttempted, SameAttempted
<1>3. CASE RecordPid(w, j)
  <2> DEFINE c == [row[j] EXCEPT !.rw = w, !.top = FALSE]
  <2>1. /\ c.status = row[j].status /\ c.prev = row[j].prev /\ c.root = row[j].root
        /\ Retains(j, c)
    BY <1>0 DEF RowsOK, RowType, Retains
  <2>2. row' = [row EXCEPT ![j] = c]  BY <1>3 DEF RecordPid
  <2> HIDE DEF c
  <2> QED BY <1>0, <2>1, <2>2, WriteAttempted
<1>4. CASE Finalize(w, j)
  <2>1. run[w][j] \in RunnerType /\ row[j].recov \in BOOLEAN
    BY <1>0 DEF RunnersOK, RowsOK, RowType
  <2>2. \/ UNCHANGED row
        \/ \E t \in {"cancelled", "interrupted", "finished", "review_required", "failed"},
              b \in BOOLEAN : row' = MovedR(j, t, b)
    BY <1>4, <2>1 DEF Finalize, RunnerType, Recoverable
  <2> QED BY <1>0, <2>2, MovedAttempted, SameAttempted, StatusValues
<1> QED BY <1>1, <1>2, <1>3, <1>4 DEF RunnerMoves, RunnerStep

\* Nor a request, but for the late half of a release and for new rows.
LEMMA UiAttempts ==
  ASSUME TypeOK, NEW r \in Request, UiStep(r),
         ~Requeue(r), ~Insert(r), ~CreateResumed(r)
  PROVE  \A k \in Job : Attempted(k)
<1>0. /\ RowsOK
      /\ rq[r].pc \notin {"idle", "insert"} => rq[r].job \in Job
  BY TypeParts DEF RequestsOK
<1>1. CASE \/ Submit(r) \/ Resume(r) \/ Cancel(r) \/ CancelHeld(r) \/ Reconcile(r)
           \/ ProbeRunner(r) \/ VerifySource(r) \/ AuthorizeDownload(r) \/ UiRestart(r)
  BY <1>1, SameAttempted DEF Submit, Resume, Cancel, CancelHeld, Reconcile, ProbeRunner,
     VerifySource, AuthorizeDownload, UiRestart
<1>2. CASE \/ MarkResumable(r) \/ MarkCancelling(r) \/ SettleCancel(r) \/ SettleCancelled(r)
           \/ Freeze(r)
  <2>1. PICK j \in Job :
          \/ UNCHANGED row \/ row' = MovedR(j, "resumable", TRUE)
          \/ row' = Moved(j, "cancelling") \/ row' = Moved(j, "cancelled")
          \/ row' = MovedR(j, "cancelled", TRUE) \/ row' = MovedR(j, "interrupted", TRUE)
    BY <1>0, <1>2 DEF MarkResumable, MarkCancelling, SettleCancel, SettleCancelled, Freeze, On
  <2>2. {"resumable", "cancelling", "interrupted", "cancelled"} \subseteq Status \ {"queued"}
    BY StatusValues
  <2> QED BY <1>0, <2>1, <2>2, MovedAttempted, SameAttempted
<1>3. CASE PersistPayload(r)
  <2>1. rq[r].job \in Job  BY <1>0, <1>3 DEF PersistPayload, On
  <2> DEFINE c == [row[rq[r].job] EXCEPT !.payload = TRUE, !.sel = CarriedOver(r)]
  <2>2. /\ c.status = row[rq[r].job].status /\ c.prev = row[rq[r].job].prev
        /\ c.root = row[rq[r].job].root /\ Retains(rq[r].job, c)
    BY <1>0, <2>1 DEF RowsOK, RowType, Retains, CarriedOver
  <2>3. row' = [row EXCEPT ![rq[r].job] = c]  BY <1>3 DEF PersistPayload
  <2> HIDE DEF c
  <2> QED BY <1>0, <2>1, <2>2, <2>3, WriteAttempted
<1>4. CASE FlagCancel(r)
  <2>1. rq[r].job \in Job  BY <1>0, <1>4 DEF FlagCancel, On
  <2> DEFINE c == [row[rq[r].job] EXCEPT !.cancel = TRUE]
  <2>2. /\ c.status = row[rq[r].job].status /\ c.prev = row[rq[r].job].prev
        /\ c.root = row[rq[r].job].root /\ Retains(rq[r].job, c)
    BY <1>0, <2>1 DEF RowsOK, RowType, Retains
  <2>3. row' = [row EXCEPT ![rq[r].job] = c] \/ UNCHANGED row  BY <1>4 DEF FlagCancel
  <2> HIDE DEF c
  <2> QED BY <1>0, <2>1, <2>2, <2>3, WriteAttempted, SameAttempted
<1>5. CASE ConfirmPages(r) \/ Dismiss(r)
  <2>1. PICK j \in Job :
          \/ row' = [row EXCEPT ![j].sel = TRUE]
          \/ row' = [row EXCEPT ![j] = [@ EXCEPT !.recov = FALSE]]
    BY <1>5 DEF ConfirmPages, Dismiss
  <2> DEFINE c == [row[j] EXCEPT !.sel = TRUE]
             d == [row[j] EXCEPT !.recov = FALSE]
  <2>2. /\ c.status = row[j].status /\ c.prev = row[j].prev /\ c.root = row[j].root
        /\ Retains(j, c)
        /\ d.status = row[j].status /\ d.prev = row[j].prev /\ d.root = row[j].root
        /\ Retains(j, d)
    BY <1>0 DEF RowsOK, RowType, Retains
  <2>3. row' = [row EXCEPT ![j] = c] \/ row' = [row EXCEPT ![j] = d]  BY <2>1
  <2> HIDE DEF c, d
  <2> QED BY <1>0, <2>2, <2>3, WriteAttempted
<1>6. CASE ResolveReady(r)
  <2>1. PICK j \in Job :
          /\ row[j].status \in Released
          /\ row' = [row EXCEPT ![j] = [@ EXCEPT !.status = "queued", !.auth = TRUE]]
    BY <1>6 DEF ResolveReady, Resolvable, Released
  <2> DEFINE c == [row[j] EXCEPT !.status = "queued", !.auth = TRUE]
  <2>2. /\ c.status = "queued" /\ c.prev = row[j].prev /\ c.root = row[j].root
        /\ Retains(j, c)
    BY <1>0 DEF RowsOK, RowType, Retains
  <2>3. row' = [row EXCEPT ![j] = c]  BY <2>1
  <2>4. row[j].status # "absent"  BY <2>1 DEF Released
  <2> HIDE DEF c
  <2> QED BY <1>0, <2>1, <2>2, <2>3, <2>4, WriteAttempted
<1>7. CASE CompleteReview(r)
  <2>1. PICK j \in Job :
          /\ row[j].status = "review_required"
          /\ row' = [row EXCEPT ![j] = [@ EXCEPT !.status = "finished", !.owner = NoWorker,
                                           !.rw = NoWorker, !.top = TRUE, !.cancel = FALSE]]
    BY <1>7 DEF CompleteReview
  <2> DEFINE c == [row[j] EXCEPT !.status = "finished", !.owner = NoWorker,
                                 !.rw = NoWorker, !.top = TRUE, !.cancel = FALSE]
  <2>2. /\ c.status = "finished" /\ c.prev = row[j].prev /\ c.root = row[j].root
        /\ Retains(j, c)
    BY <1>0 DEF RowsOK, RowType, Retains
  <2>3. row' = [row EXCEPT ![j] = c]  BY <2>1
  <2> HIDE DEF c
  <2> QED BY <1>0, <2>1, <2>2, <2>3, WriteAttempted
<1> QED BY <1>1, <1>2, <1>3, <1>4, <1>5, <1>6, <1>7 DEF UiStep, UiContinues

\* The other processes share only the database with the requests.
LEMMA WorkerKeepsRequests ==
  ASSUME NEW w \in Worker, WorkerStep(w) \/ WorkerEvent(w)
  PROVE  UNCHANGED rq
BY DEF WorkerStep, WorkerEvent, StartWorker, WorkerCheck, Register, Heartbeat, LeaseExpires,
       RequestStop, WorkerStops, WorkerCrash, ScanOrphans, OrphanProbe, OrphanSurvives,
       OrphanSettle, OrphanCancel, OrphanClose, OrphansDone, Claim, Claimed,
       NothingQueued, Prepare, AnalysisFails, AnalysisCancelled,
       FailCancelled, AnalysisDone, Apply, Decide, FailSource, Handoff, SpawnRunner,
       PersistRunner, PersistFails, OpenGate, WatchStops, KillRunner, SettleStopped,
       CloseStopped, RunnerExited, ExitReconcile, ExitCancelled

\* A released row is requeued from a hold, or not at all.
LEMMA RequeueCarries ==
  ASSUME TypeOK, LateInv, NEW r \in Request, Requeue(r)
  PROVE  /\ rq[r].job \in Job /\ rq[r].pc = "requeue" /\ rq'[r].pc = "idle"
         /\ \A k \in Job \ {rq[r].job} : row'[k] = row[k]
         /\ \A k \in Job : Carried(k)
<1>0. RowsOK /\ RequestsOK  BY TypeParts
<1>1. /\ rq[r].job \in Job /\ rq[r].pc = "requeue" /\ Answers(r)
      /\ row' = Moved(rq[r].job, "queued") \/ UNCHANGED row
      /\ row[rq[r].job].status \in Holds \union {"cancelled", "failed"}
  BY <1>0 DEF Requeue, On, RequestsOK, LateInv
<1>2. rq'[r] = [pc |-> "idle", job |-> NoJob, seen |-> NoRow]  BY <1>0, <1>1, RequestTurns
<1>3. CASE UNCHANGED row  BY <1>1, <1>2, <1>3 DEF Carried, SameAttempt, Retains
<1>4. CASE row' = [row EXCEPT ![rq[r].job].status = "queued"] /\ CanMove(rq[r].job, "queued")
  <2> DEFINE c == [row[rq[r].job] EXCEPT !.status = "queued"]
  <2>1. /\ c.status = "queued" /\ c.prev = row[rq[r].job].prev /\ c.root = row[rq[r].job].root
        /\ Retains(rq[r].job, c)
    BY <1>0, <1>1 DEF RowsOK, RowType, Retains
  <2>2. row' = [row EXCEPT ![rq[r].job] = c]  BY <1>4
  <2> HIDE DEF c
  <2>3. row'[rq[r].job] = c /\ Others(rq[r].job)  BY <1>0, <1>1, <2>2, WriteRow
  <2>4. row[rq[r].job].status \in Holds
    BY <1>1, <1>4 DEF CanMove, TransitionAllowed, Holds
  <2> QED BY <1>1, <1>2, <2>1, <2>3, <2>4 DEF Others, Carried, SameAttempt, Retains, Holds
<1> QED BY <1>1, <1>3, <1>4 DEF Moved

\* Every step leaves the attempts what they are, or inserts one.
LEMMA NextAttempts ==
  ASSUME TypeOK, LateInv, [Next]_vars
  PROVE  \/ \A k \in Job : Attempted(k)
         \/ \E r \in Request : UiStep(r) /\ (Insert(r) \/ CreateResumed(r))
         \/ \E r \in Request : UiStep(r) /\ Requeue(r)
<1>1. CASE UNCHANGED vars  BY <1>1, SameAttempted DEF vars
<1>2. ASSUME NEW r \in Request, UiStep(r), ~Requeue(r), ~Insert(r), ~CreateResumed(r)
      PROVE  \A k \in Job : Attempted(k)
  BY <1>2, UiAttempts
<1>3. CASE Next  BY <1>2, <1>3, WorkerAttempts, RunnerAttempts DEF Next
<1> QED BY <1>1, <1>3

\* Every step leaves the attempts what they are, bringing a row back into the queue from
\* a hold only, or inserts one.
LEMMA NextCarries ==
  ASSUME TypeOK, LateInv, [Next]_vars
  PROVE  \/ \A k \in Job : Carried(k)
         \/ \E r \in Request : UiStep(r) /\ (Insert(r) \/ CreateResumed(r))
<1>1. (\A k \in Job : Attempted(k)) => \A k \in Job : Carried(k)
  BY DEF Attempted, Carried, Released, Holds
<1> QED BY <1>1, NextAttempts, RequeueCarries

\* A row that is past stays past, unless it is requeued.
LEMMA PastStays ==
  ASSUME StatusStep, NEW j \in Job, Carried(j), row[j].status \in Past
  PROVE  row'[j].status \in Past
<1>1. row'[j].status = row[j].status \/ Promised(row[j].status, row'[j].status)
  BY DEF StatusStep
<1>2. row'[j].status # "queued"
  BY DEF Carried, Holds, Past, Terminal
<1> QED BY <1>1, <1>2 DEF Promised, TransitionAllowed, Past, Terminal, Holds

\* A request comes to resume a row by resume_block_reason on one read of it.
LEMMA ResumeTurns ==
  ASSUME TypeOK, NEW r \in Request, UiStep(r), NEW q \in Request,
         rq'[q].pc \in {"mark", "create"}
  PROVE  \/ /\ rq[q].pc \in {"mark", "create"}
            /\ rq'[q].job = rq[q].job /\ rq'[q].seen = rq[q].seen
         \/ /\ UNCHANGED row /\ rq'[q].job \in Job
            /\ row[rq'[q].job].status \in {"interrupted", "resumable"}
            /\ AttemptOver(rq'[q].job) /\ rq'[q].seen = row[rq'[q].job]
<1>0. RequestsOK  BY TypeParts
<1>1. CASE Resume(r)
  <2>1. PICK j \in Job :
          /\ row[j].status \in {"interrupted", "resumable"} /\ AttemptOver(j)
          /\ Asks(r, IF row[j].status = "interrupted" THEN "mark" ELSE "create", j, row[j])
          /\ UNCHANGED row
    BY <1>1 DEF Resume
  <2> DEFINE pc == IF row[j].status = "interrupted" THEN "mark" ELSE "create"
  <2>2. Asks(r, pc, j, row[j])  BY <2>1
  <2> HIDE DEF pc
  <2>3. /\ rq'[r] = [pc |-> pc, job |-> j, seen |-> row[j]]
        /\ \A p \in Request \ {r} : rq'[p] = rq[p]
    BY <1>0, <2>2, RequestTurns
  <2>4. rq'[r].job = j /\ rq'[r].seen = row[j]  BY <2>3
  <2> QED BY <2>1, <2>3, <2>4
<1>2. CASE MarkResumable(r)
  <2>1. On(r, "mark") /\ (Next1(r, "create") \/ Answers(r))  BY <1>2 DEF MarkResumable
  <2>2. CASE Next1(r, "create")
    BY <1>0, <2>1, <2>2, RequestTurns DEF On
  <2>3. CASE Answers(r)
    BY <1>0, <2>3, RequestTurns
  <2> QED BY <2>1, <2>2, <2>3
<1>3. CASE \/ Insert(r) \/ Submit(r) \/ Cancel(r) \/ CancelHeld(r) \/ Reconcile(r)
           \/ ConfirmPages(r) \/ VerifySource(r) \/ AuthorizeDownload(r) \/ CreateResumed(r)
  <2>1. Answers(r) \/ \E pc \in {"insert", "payload", "flag", "cancelled", "reconcile", "requeue"} :
          \E j, seen : Asks(r, pc, j, seen)
    <3>1. CASE CreateResumed(r)  BY <3>1 DEF CreateResumed
    <3>2. CASE \/ Insert(r) \/ Submit(r) \/ Cancel(r) \/ CancelHeld(r) \/ Reconcile(r)
               \/ ConfirmPages(r) \/ VerifySource(r) \/ AuthorizeDownload(r)
      BY <3>2 DEF Insert, Submit, Cancel, CancelHeld, Reconcile, ConfirmPages, VerifySource,
         AuthorizeDownload
    <3> QED BY <1>3, <3>1, <3>2
  <2>2. CASE Answers(r)  BY <1>0, <2>2, RequestTurns
  <2>3. ASSUME NEW pc \in {"insert", "payload", "flag", "cancelled", "reconcile", "requeue"},
               NEW j, NEW seen, Asks(r, pc, j, seen)
        PROVE  rq[q].pc \in {"mark", "create"} /\ rq'[q] = rq[q]
    <3>1. /\ rq'[r] = [pc |-> pc, job |-> j, seen |-> seen]
          /\ \A p \in Request \ {r} : rq'[p] = rq[p]
      BY <1>0, <2>3, RequestTurns
    <3>2. rq'[r].pc = pc  BY <3>1
    <3> QED BY <3>1, <3>2
  <2> QED BY <2>1, <2>2, <2>3
<1>4. CASE \/ FlagCancel(r) \/ ProbeRunner(r) \/ MarkCancelling(r) \/ SettleCancel(r)
           \/ SettleCancelled(r) \/ Freeze(r) \/ Requeue(r) \/ PersistPayload(r) \/ UiRestart(r)
  <2>1. \/ Answers(r)
        \/ \E pc \in {"probe", "markcancel", "settlecancel", "cancelled"} : Next1(r, pc)
    BY <1>4 DEF FlagCancel, ProbeRunner, MarkCancelling, SettleCancel, SettleCancelled, Freeze,
       Requeue, PersistPayload, UiRestart
  <2> QED BY <1>0, <2>1, RequestTurns
<1>5. CASE ResolveReady(r) \/ Dismiss(r) \/ CompleteReview(r)
  BY <1>5 DEF ResolveReady, Dismiss, CompleteReview
<1> QED BY <1>1, <1>2, <1>3, <1>4, <1>5 DEF UiStep, UiContinues

\* What an insert does: a row that was not there, of no line or of the line resumed.
LEMMA Inserted ==
  ASSUME TypeOK, NEW r \in Request, Insert(r) \/ CreateResumed(r)
  PROVE  \/ UNCHANGED row
         \/ \E k \in Job :
              /\ row[k].status = "absent" /\ row'[k].status = "queued" /\ Others(k)
              /\ \/ row'[k].prev = NoJob /\ row'[k].root = k
                 \/ /\ rq[r].pc = "create" /\ ~HasSuccessor(rq[r].job)
                    /\ row'[k].prev = rq[r].job /\ row'[k].root = rq[r].seen.root
<1>0. RowsOK  BY TypeParts
<1>1. ASSUME NEW k \in Job, NextRow(k), NEW c, row' = [row EXCEPT ![k] = c]
      PROVE  row[k].status = "absent" /\ row'[k] = c /\ Others(k)
  BY <1>0, <1>1, WriteRow DEF NextRow
<1>2. CASE Insert(r)
  <2>1. UNCHANGED row \/ \E j \in Job :
          /\ NextRow(j)
          /\ row' = [row EXCEPT ![j] = NewRow(rq[r].seen.chap, NoJob, j, FALSE)]
    BY <1>2 DEF Insert
  <2>2. ASSUME NEW j \in Job, NextRow(j),
               row' = [row EXCEPT ![j] = NewRow(rq[r].seen.chap, NoJob, j, FALSE)]
        PROVE  /\ row[j].status = "absent" /\ row'[j].status = "queued" /\ Others(j)
               /\ row'[j].prev = NoJob /\ row'[j].root = j
    <3> DEFINE c == NewRow(rq[r].seen.chap, NoJob, j, FALSE)
    <3>1. c.status = "queued" /\ c.prev = NoJob /\ c.root = j  BY DEF NewRow, NoRow
    <3>2. row' = [row EXCEPT ![j] = c]  BY <2>2
    <3> HIDE DEF c
    <3>3. row[j].status = "absent" /\ row'[j] = c /\ Others(j)
      BY <1>1, <2>2, <3>2
    <3> QED BY <3>1, <3>3
  <2> QED BY <2>1, <2>2
<1>3. CASE CreateResumed(r)
  <2>1. \/ UNCHANGED row
        \/ /\ rq[r].pc = "create" /\ ~HasSuccessor(rq[r].job)
           /\ \E k \in Job :
                /\ NextRow(k)
                /\ row' = [row EXCEPT ![k] =
                     NewRow(rq[r].seen.chap, rq[r].job, rq[r].seen.root, rq[r].seen.auth)]
    BY <1>3 DEF CreateResumed, On, Attempt
  <2>2. ASSUME NEW k \in Job, NextRow(k),
               row' = [row EXCEPT ![k] =
                 NewRow(rq[r].seen.chap, rq[r].job, rq[r].seen.root, rq[r].seen.auth)]
        PROVE  /\ row[k].status = "absent" /\ row'[k].status = "queued" /\ Others(k)
               /\ row'[k].prev = rq[r].job /\ row'[k].root = rq[r].seen.root
    <3> DEFINE c == NewRow(rq[r].seen.chap, rq[r].job, rq[r].seen.root, rq[r].seen.auth)
    <3>1. c.status = "queued" /\ c.prev = rq[r].job /\ c.root = rq[r].seen.root
      BY DEF NewRow, NoRow
    <3>2. row' = [row EXCEPT ![k] = c]  BY <2>2
    <3> HIDE DEF c
    <3>3. row[k].status = "absent" /\ row'[k] = c /\ Others(k)
      BY <1>1, <2>2, <3>2
    <3> QED BY <3>1, <3>3
  <2> QED BY <2>1, <2>2
<1> QED BY <1>2, <1>3

\* A row of the table is never deleted, a cancellation of it is taken back only by the
\* end of its review, its payload and its selection stay, and a row that is over stays so.
LEMMA RowStays ==
  ASSUME TypeOK, [Next]_vars, NEW j \in Job, row[j].status # "absent"
  PROVE  /\ row'[j].status # "absent"
         /\ Retains(j, row'[j])
         /\ row[j].status \in Terminal => row'[j].status \in Terminal
<1> DEFINE Kept == Retains(j, row'[j])
<1>0. RowsOK /\ RequestsOK /\ StatusStep  BY TypeParts, NextStatusStep
<1>1. row'[j].status = row[j].status \/ Promised(row[j].status, row'[j].status)
  BY <1>0 DEF StatusStep
<1>2. row'[j].status # "absent"
  BY <1>1, StatusSets, StatusValues DEF Promised, TransitionAllowed, Holds
<1>3. row[j].status \in Terminal => row'[j].status \in Terminal
  BY <1>1, PromisedFinal DEF Terminal
<1>4. (\A k \in Job : Attempted(k)) => Kept  BY DEF Attempted, SameAttempt
<1>5. ASSUME NEW r \in Request, Requeue(r) PROVE Kept
  <2>1. /\ rq[r].job \in Job
        /\ UNCHANGED row \/ row' = [row EXCEPT ![rq[r].job].status = "queued"]
    BY <1>0, <1>5 DEF Requeue, Moved, On, RequestsOK
  <2> DEFINE c == [row[rq[r].job] EXCEPT !.status = "queued"]
  <2>2. Retains(rq[r].job, c)  BY <1>0, <2>1 DEF RowsOK, RowType, Retains
  <2>3. UNCHANGED row \/ row' = [row EXCEPT ![rq[r].job] = c]  BY <2>1
  <2> HIDE DEF c
  <2>4. UNCHANGED row \/ (row'[rq[r].job] = c /\ Others(rq[r].job))
    BY <1>0, <2>1, <2>3, WriteRow
  <2> QED BY <2>2, <2>4 DEF Others, Retains
<1>6. ASSUME NEW r \in Request, Insert(r) \/ CreateResumed(r) PROVE Kept
  BY <1>6, Inserted DEF Others, Retains
<1>7. ASSUME NEW r \in Request, UiStep(r) PROVE Kept
  BY <1>4, <1>5, <1>6, <1>7, UiAttempts
<1>8. CASE UNCHANGED vars  BY <1>8 DEF vars, Retains
<1>9. ASSUME NEW w \in Worker, WorkerStep(w) \/ WorkerEvent(w) PROVE Kept
  BY <1>4, <1>9, WorkerAttempts
<1>10. ASSUME NEW w \in Worker, NEW i \in Job, RunnerMoves(w, i) PROVE Kept
  BY <1>4, <1>10, RunnerAttempts
<1> QED BY <1>2, <1>3, <1>7, <1>8, <1>9, <1>10 DEF Next

(***************************************************************************)
(* A released row waits for its requeue.                                   *)
(***************************************************************************)

\* At first no row waits for its requeue.
LEMMA LateInit == Init => LateInv
BY DEF Init, LateInv

\* A held row leaves its hold for the queue, or for good; another step of the requeue of
\* a row that waits for one is what RequeuesApart excludes.
LEMMA LateStep ==
  TypeOK /\ LateInv /\ [Next]_vars /\ [RequeuesAlone]_vars => LateInv'
<1> SUFFICES ASSUME TypeOK, LateInv, [Next]_vars, [RequeuesAlone]_vars PROVE LateInv'  OBVIOUS
<1>0. RowsOK /\ RequestsOK /\ StatusStep  BY TypeParts, NextStatusStep
<1> DEFINE Waits == Holds \union {"cancelled", "failed"}
<1>1. CASE UNCHANGED vars  BY <1>1 DEF vars, LateInv
<1>2. ASSUME RequeuesAlone, NEW q \in Request, rq'[q].pc = "requeue",
             rq'[q] = rq[q], NEW j \in Job, j = rq[q].job
      PROVE  row'[j].status \in Waits
  <2>1. row[j].status \in Waits  BY <1>2 DEF LateInv
  <2>2. row'[j].status = row[j].status \/ row'[j].status \in Waits \union {"queued", "claiming"}
    <3>1. row'[j].status = row[j].status \/ Promised(row[j].status, row'[j].status)
      BY <1>0 DEF StatusStep
    <3> QED BY <2>1, <3>1 DEF Promised, TransitionAllowed, Holds
  <2>3. row'[j].status \notin {"queued", "claiming"}
    <3>1. Requeue(q) => rq'[q].pc = "idle"  BY RequeueCarries
    <3> QED BY <1>2, <3>1 DEF RequeuesAlone, RequeuesApart
  <2> QED BY <2>1, <2>2, <2>3
<1>3. ASSUME RequeuesAlone, Next, NEW q \in Request, rq'[q].pc = "requeue"
      PROVE  row'[rq'[q].job].status \in Waits
  <2>1. CASE rq'[q] = rq[q]
    <3>1. rq[q].job \in Job  BY <1>0, <1>3, <2>1 DEF RequestsOK
    <3> QED BY <1>2, <1>3, <2>1, <3>1
  <2>2. ASSUME NEW r \in Request, UiStep(r) PROVE row'[rq'[q].job].status \in Waits
    BY <1>3, <2>1, <2>2, RequeueTurns
  <2> QED BY <1>3, <2>1, <2>2, WorkerKeepsRequests DEF Next, RunnerMoves
<1> QED BY <1>1, <1>3 DEF LateInv

\* No two workers ever supervise one row: claim_next_job, the handoff of a ready row and
\* the loop around the runner leave each row in flight to one worker, whoever crashes,
\* loses its lease or is started twice, and whatever the requests do, as long as no two
\* requests requeue one row at a time and none requeues a row that is being handed over.
THEOREM OneWorkerAtATime == Spec /\ [][RequeuesAlone]_vars => []OneSupervisor
<1>1. TypeOK /\ LateInv /\ [Next]_vars /\ [RequeuesAlone]_vars => LateInv'  BY LateStep
<1>2. TypeOK /\ GateInv /\ OwnInv /\ LateInv /\ [Next]_vars /\ [RequeuesAlone]_vars => OwnInv'
  BY OwnStep
<1> QED BY <1>1, <1>2, TypeCorrect, GateInit, GateStep, LateInit, OwnInit, OwnSingle, PTL DEF Spec

\* Where no held row is released no request is ever about to requeue one.
LEMMA NobodyRequeues ==
  ASSUME UiOps \intersect {"confirm", "verify", "authorize"} = {}, TypeOK, [Next]_vars,
         NEW q \in Request, rq[q].pc # "requeue"
  PROVE  rq'[q].pc # "requeue"
<1>1. CASE UNCHANGED rq  BY <1>1
<1>2. ASSUME NEW r \in Request, UiStep(r), rq'[q].pc = "requeue" PROVE FALSE
  BY <1>2, RequeueTurns
<1> QED BY <1>1, <1>2, WorkerKeepsRequests DEF Next, RunnerMoves, vars

\* The two races need the operations that release a held row: where nobody confirms pages,
\* resumes a verification, resolves a ready source or authorizes a download, every
\* behaviour of the queue, with any crashes, resumes, cancels and reconciliations, keeps
\* RequeuesAlone.
THEOREM WithoutReviewNoRace ==
  ASSUME UiOps \intersect {"confirm", "verify", "resolve", "authorize"} = {}
  PROVE  Spec => [][RequeuesAlone]_vars
<1> DEFINE NoRequeue == \A r \in Request : rq[r].pc # "requeue"
<1>1. Init => NoRequeue  BY DEF Init
<1>2. TypeOK /\ NoRequeue /\ [Next]_vars => NoRequeue'  BY NobodyRequeues
<1>3. NoRequeue /\ [Next]_vars => [RequeuesAlone]_vars
  <2>1. NoRequeue => RequeuesApart  BY DEF RequeuesApart
  <2>2. NoRequeue => HandoffsApart  BY DEF HandoffsApart, ResolveReady, Requeue, On
  <2> QED BY <2>1, <2>2 DEF RequeuesAlone
<1> QED BY <1>1, <1>2, <1>3, TypeCorrect, PTL DEF Spec

(***************************************************************************)
(* A row with a successor is history.                                      *)
(***************************************************************************)

\* A row that has a successor, or is about to get one, is past.
HistoryInv ==
  /\ \A j \in Job : HasSuccessor(j) => row[j].status \in Past
  /\ \A r \in Request : rq[r].pc \in {"mark", "create"} => row[rq[r].job].status \in Past

\* The empty queue has no successors.
LEMMA HistoryInit == Init => HistoryInv
BY DEF Init, HistoryInv, HasSuccessor, NoRow

\* HistoryInv is inductive, with LateInv: build_resume_job inserts a successor only of a
\* row that is past, and no step brings a past row back.
LEMMA HistoryStep == TypeOK /\ LateInv /\ HistoryInv /\ [Next]_vars => HistoryInv'
<1> SUFFICES ASSUME TypeOK, LateInv, HistoryInv, [Next]_vars PROVE HistoryInv'  OBVIOUS
<1>0. RowsOK /\ RequestsOK /\ StatusStep
  BY TypeParts, NextStatusStep
<1>j. NoJob \notin Job  BY QueueAssumption DEF Job
<1>2. ASSUME NEW q \in Request, rq'[q].pc \in {"mark", "create"}
      PROVE  row[rq'[q].job].status \in Past /\ rq'[q].job \in Job
  <2>1. CASE UNCHANGED rq  BY <1>0, <1>2, <2>1 DEF HistoryInv, RequestsOK
  <2>2. ASSUME NEW r \in Request, UiStep(r)
        PROVE  row[rq'[q].job].status \in Past /\ rq'[q].job \in Job
    BY <1>0, <1>2, <2>2, ResumeTurns DEF HistoryInv, RequestsOK, Past
  <2>3. UNCHANGED rq \/ \E r \in Request : UiStep(r)
    BY WorkerKeepsRequests DEF Next, RunnerMoves, vars
  <2> QED BY <2>1, <2>2, <2>3
<1>3. ASSUME \A k \in Job : Carried(k) PROVE HistoryInv'
  <2>1. \A j \in Job : HasSuccessor(j)' => HasSuccessor(j)
    BY <1>3 DEF HasSuccessor, Carried, SameAttempt
  <2> QED BY <1>0, <1>2, <1>3, <2>1, PastStays DEF HistoryInv
<1>4. ASSUME NEW r \in Request, Insert(r) \/ CreateResumed(r) PROVE HistoryInv'
  <2>1. CASE UNCHANGED row  BY <1>3, <2>1 DEF Carried, SameAttempt, Retains
  <2>2. ASSUME NEW k \in Job, row[k].status = "absent", Others(k),
               \/ row'[k].prev = NoJob
               \/ rq[r].pc = "create" /\ row'[k].prev = rq[r].job
        PROVE  HistoryInv'
    <3>1. \A j \in Job : row[j].status \in Past => row'[j].status \in Past
      BY <2>2 DEF Others, Past, Terminal
    <3>2. ASSUME NEW j \in Job, HasSuccessor(j)' PROVE row[j].status \in Past
      <4>1. PICK i \in Job : row'[i].status # "absent" /\ row'[i].prev = j
        BY <3>2 DEF HasSuccessor
      <4>2. CASE i = k  BY <1>j, <2>2, <4>1, <4>2 DEF HistoryInv
      <4>3. CASE i # k
        BY <2>2, <4>1, <4>3 DEF Others, HistoryInv, HasSuccessor
      <4> QED BY <4>2, <4>3
    <3> QED BY <1>2, <3>1, <3>2 DEF HistoryInv
  <2> QED BY <1>4, <2>1, <2>2, Inserted
<1> QED BY <1>0, <1>3, <1>4, NextCarries

\* A row that was resumed never comes back: once build_resume_job has inserted its
\* successor, no worker, runner or request brings it back to a status that deduplicates,
\* waits or runs.
THEOREM ResumedRowsAreHistory == Spec /\ [][RequeuesAlone]_vars => []ResumedIsHistory
<1>1. TypeOK /\ LateInv /\ [Next]_vars /\ [RequeuesAlone]_vars => LateInv'  BY LateStep
<1>2. TypeOK /\ LateInv /\ HistoryInv /\ [Next]_vars => HistoryInv'  BY HistoryStep
<1>3. HistoryInv => ResumedIsHistory
  BY DEF HistoryInv, ResumedIsHistory, HasSuccessor, Past, Terminal, DedupeActive, InFlight,
     Holds
<1> QED BY <1>1, <1>2, <1>3, TypeCorrect, LateInit, HistoryInit, PTL DEF Spec

(***************************************************************************)
(* Pipelines.                                                              *)
(***************************************************************************)

\* A runner that is spawning its pipeline, or has it.
Working(c) == c.st \in {"spawn", "pid", "loop"}

\* A pipeline runs only under a runner in its loop, whose create time is the one that
\* was stored.
Sound(c) == ~c.skew /\ (c.pipe = "live" => c.st \in {"pid", "loop"})
PipeInv == \A w \in Worker, j \in Job : Sound(run[w][j])

\* No runner is killed without its pipeline, and the venv shim starts its interpreter
\* at once.
NoStrayRunner == Faults \intersect {"runner_alone", "shim_skew"} = {}

\* No runner, no pipeline.
LEMMA PipeInit == Init => PipeInv
BY DEF Init, PipeInv, Sound, NoRunner

\* A worker ends runners, or brings one to its gate.
LEMMA WorkerRuns ==
  ASSUME TypeOK, NEW w \in Worker, WorkerStep(w) \/ WorkerEvent(w)
  PROVE  \A v \in Worker, i \in Job :
           \/ /\ run'[v][i].st = run[v][i].st /\ run'[v][i].pipe = run[v][i].pipe
              /\ run'[v][i].skew = run[v][i].skew
              /\ run'[v][i].known =>
                   run[v][i].known \/ (v = w /\ i = Mine(w) /\ At(w, "persist"))
           \/ /\ run'[v][i].st \in {"none", "gate"} /\ run'[v][i].pipe = "none"
              /\ ~run'[v][i].known /\ (run'[v][i].skew => "shim_skew" \in Faults)
<1> DEFINE Same(v, i) ==
             /\ run'[v][i].st = run[v][i].st /\ run'[v][i].pipe = run[v][i].pipe
             /\ run'[v][i].skew = run[v][i].skew
             /\ run'[v][i].known =>
                  run[v][i].known \/ (v = w /\ i = Mine(w) /\ At(w, "persist"))
           Ended(v, i) ==
             /\ run'[v][i].st \in {"none", "gate"} /\ run'[v][i].pipe = "none"
             /\ ~run'[v][i].known /\ (run'[v][i].skew => "shim_skew" \in Faults)
<1>0. RowsOK /\ WorkersOK /\ RunnersOK /\ TodoOK  BY TypeParts
<1>m. wk[w].pc \in Busy => Mine(w) \in Job  BY <1>0, BusyJob
<1>1. ASSUME NEW v \in Worker, NEW i \in Job, NEW c, run' = [run EXCEPT ![v][i] = c],
             \/ /\ c.st = run[v][i].st /\ c.pipe = run[v][i].pipe /\ c.skew = run[v][i].skew
                /\ c.known => run[v][i].known \/ (v = w /\ i = Mine(w) /\ At(w, "persist"))
             \/ /\ c.st \in {"none", "gate"} /\ c.pipe = "none"
                /\ ~c.known /\ (c.skew => "shim_skew" \in Faults)
      PROVE  \A u \in Worker, k \in Job : Same(u, k) \/ Ended(u, k)
  BY <1>0, <1>1, RunBecomes DEF Becomes
<1>2. ASSUME NEW v \in Worker, NEW i \in Job, run' = Killed(v, i)
      PROVE  \A u \in Worker, k \in Job : Same(u, k) \/ Ended(u, k)
  <2>1. CASE run' = [run EXCEPT ![v][i] = NoRunner]
    <3>1. NoRunner.st = "none" /\ NoRunner.pipe = "none" /\ ~NoRunner.skew /\ ~NoRunner.known
      BY DEF NoRunner
    <3> QED BY <1>1, <2>1, <3>1
  <2> QED BY <1>2, <2>1 DEF Killed
<1>3. CASE SpawnRunner(w)
  <2>1. Mine(w) \in Job  BY <1>3, <1>m DEF SpawnRunner, At, Busy, Supervising
  <2>2. PICK skew \in (IF "shim_skew" \in Faults THEN BOOLEAN ELSE {FALSE}) :
          run' = [run EXCEPT ![w][Mine(w)] = [NoRunner EXCEPT !.st = "gate", !.skew = skew]]
    BY <1>3 DEF SpawnRunner
  <2> DEFINE c == [NoRunner EXCEPT !.st = "gate", !.skew = skew]
  <2>3. c.st = "gate" /\ c.pipe = "none" /\ ~c.known /\ (c.skew => "shim_skew" \in Faults)
    BY <2>2 DEF NoRunner
  <2>4. run' = [run EXCEPT ![w][Mine(w)] = c]  BY <2>2
  <2> HIDE DEF c
  <2> QED BY <1>1, <2>1, <2>3, <2>4
<1>4. CASE PersistRunner(w) \/ OpenGate(w)
  <2>1. Mine(w) \in Job  BY <1>4, <1>m DEF PersistRunner, OpenGate, At, Busy, Supervising
  <2> DEFINE c == [run[w][Mine(w)] EXCEPT !.known = TRUE]
             d == [run[w][Mine(w)] EXCEPT !.gate = TRUE]
  <2>2. run[w][Mine(w)] \in RunnerType  BY <1>0, <2>1 DEF RunnersOK
  <2>3. /\ c.st = run[w][Mine(w)].st /\ c.pipe = run[w][Mine(w)].pipe
        /\ c.skew = run[w][Mine(w)].skew
        /\ d.st = run[w][Mine(w)].st /\ d.pipe = run[w][Mine(w)].pipe
        /\ d.skew = run[w][Mine(w)].skew /\ d.known = run[w][Mine(w)].known
    BY <2>2 DEF RunnerType
  <2>4. \/ UNCHANGED run
        \/ At(w, "persist") /\ run' = [run EXCEPT ![w][Mine(w)] = c]
        \/ run' = [run EXCEPT ![w][Mine(w)] = d]
    BY <1>4 DEF PersistRunner, OpenGate
  <2> HIDE DEF c, d
  <2> QED BY <1>1, <2>1, <2>3, <2>4
<1>5. CASE OrphanProbe(w)
  <2>1. PICK o \in todo[w] : run' = IF TrackedUp(o, o.job) THEN Killed(o.rw, o.job) ELSE run
    BY <1>5 DEF OrphanProbe
  <2>2. o \in OrphanType  BY <1>0, TodoUpdate
  <2>3. o.job \in Job /\ (TrackedUp(o, o.job) => o.rw \in Worker)
    BY <2>2 DEF TrackedUp, OrphanType
  <2> QED BY <1>2, <2>1, <2>3
<1>6. CASE KillRunner(w)
  <2>1. Mine(w) \in Job  BY <1>6, <1>m DEF KillRunner, At, Busy
  <2> DEFINE v == IF TrackedUp(row[Mine(w)], Mine(w)) THEN row[Mine(w)].rw ELSE w
  <2>2. v \in Worker  BY <1>0, <2>1 DEF TrackedUp, RowsOK, RowType
  <2>3. run' = Killed(v, Mine(w))  BY <1>6 DEF KillRunner
  <2> HIDE DEF v
  <2> QED BY <1>2, <2>1, <2>2, <2>3
<1>7. \/ PersistRunner(w) \/ SpawnRunner(w) \/ OpenGate(w) \/ OrphanProbe(w) \/ KillRunner(w)
      \/ UNCHANGED run
  BY DEF WorkerStep, WorkerEvent, StartWorker, WorkerCheck, Register,
      Heartbeat, LeaseExpires, RequestStop, WorkerStops,
      WorkerCrash, ScanOrphans, OrphanSurvives, OrphanSettle,
      OrphanCancel, OrphanClose, OrphansDone, Claim, Claimed,
      NothingQueued, Prepare, AnalysisFails, AnalysisCancelled,
      FailCancelled, AnalysisDone, Apply, Decide, FailSource,
      Handoff, PersistFails, WatchStops, SettleStopped,
      CloseStopped, RunnerExited, ExitReconcile, ExitCancelled
<1> QED BY <1>3, <1>4, <1>5, <1>6, <1>7

\* A runner moves on, or ends; it comes to its pipeline only from a row it starts.
LEMMA RunnerRuns ==
  ASSUME TypeOK, GateInv, OwnInv, PipeInv, NoStrayRunner,
         NEW w \in Worker, NEW j \in Job, RunnerMoves(w, j)
  PROVE  /\ \A v \in Worker, i \in Job : ~(v = w /\ i = j) => run'[v][i] = run[v][i]
         /\ Sound(run'[w][j]) /\ (run'[w][j].known => run[w][j].known)
         /\ Working(run'[w][j]) =>
              \/ Working(run[w][j])
              \/ row[j].status = "starting" /\ row'[j].status = "running"
<1>0. /\ RowsOK /\ RunnersOK /\ run[w][j] \in RunnerType /\ row[j] \in RowType
      /\ RunOK(w, j) /\ Gated(run[w][j]) /\ Sound(run[w][j])
  BY TypeParts DEF RunnersOK, RowsOK, OwnInv, RunInv, GateInv, PipeInv
<1> DEFINE Goal == /\ \A v \in Worker, i \in Job : ~(v = w /\ i = j) => run'[v][i] = run[v][i]
                   /\ Sound(run'[w][j]) /\ (run'[w][j].known => run[w][j].known)
                   /\ Working(run'[w][j]) =>
                        \/ Working(run[w][j])
                        \/ row[j].status = "starting" /\ row'[j].status = "running"
<1>1. ASSUME NEW c, run' = [run EXCEPT ![w][j] = c], Sound(c),
             c.known => run[w][j].known,
             Working(c) =>
               \/ Working(run[w][j])
               \/ row[j].status = "starting" /\ row'[j].status = "running"
      PROVE  Goal
  BY <1>0, <1>1, RunBecomes DEF Becomes
<1>2. CASE Exits(w, j)
  <2>1. Sound(NoRunner) /\ ~Working(NoRunner) /\ ~NoRunner.known
    BY DEF NoRunner, Sound, Working
  <2> QED BY <1>1, <1>2, <2>1 DEF Exits
<1>3. ASSUME NEW from, NEW to, Step(w, j, from, to), from \notin {"pid", "loop"},
             to \in {"pid", "loop", "spawn"} =>
               row[j].status = "starting" /\ row'[j].status = "running"
      PROVE  Goal
  <2> DEFINE c == [run[w][j] EXCEPT !.st = to]
  <2>1. /\ c.st = to /\ c.pipe = run[w][j].pipe /\ c.skew = run[w][j].skew
        /\ c.known = run[w][j].known
    BY <1>0 DEF RunnerType
  <2>2. run' = [run EXCEPT ![w][j] = c] /\ run[w][j].st = from  BY <1>3 DEF Step
  <2> HIDE DEF c
  <2>3. Sound(c)  BY <1>0, <1>3, <2>1, <2>2 DEF Sound
  <2> QED BY <1>1, <1>3, <2>1, <2>2, <2>3 DEF Working
<1>4. CASE \/ GateTimeout(w, j) \/ Reject(w, j) \/ Finalize(w, j)
  BY <1>2, <1>4 DEF GateTimeout, Reject, Finalize
<1>5. CASE Boot(w, j)
  <2>1. Exits(w, j) \/ \E to \in {"cancel", "start", "running"} : Step(w, j, "gate", to)
    BY <1>5 DEF Boot
  <2> QED BY <1>2, <1>3, <2>1
<1>6. CASE BootCancel(w, j) \/ BootCancelled(w, j) \/ Start(w, j) \/ SpawnFails(w, j)
  <2>1. \/ Exits(w, j) \/ Step(w, j, "cancel", "cancelled") \/ Step(w, j, "start", "running")
    BY <1>6 DEF BootCancel, BootCancelled, Start, SpawnFails, StepOwned
  <2> QED BY <1>2, <1>3, <2>1
<1>7. CASE Running(w, j)
  <2>1. CASE Exits(w, j)  BY <1>2, <2>1
  <2>2. CASE ~Exits(w, j)
    <3>1. /\ Step(w, j, "running", "spawn") /\ row' = Moved(j, "running")
          /\ CanMove(j, "running")
      BY <1>7, <2>2 DEF Running, StepOwned, CanMoveOwned
    <3>2. row[j].status = "starting"
      BY <3>1 DEF CanMove, TransitionAllowed, Holds
    <3>3. row'[j].status = "running"
      BY <1>0, <3>1 DEF Moved, RowsOK, RowType
    <3> QED BY <1>3, <3>1, <3>2, <3>3
  <2> QED BY <2>1, <2>2
<1>8. CASE SpawnPipeline(w, j)
  <2> DEFINE c == [run[w][j] EXCEPT !.st = "pid", !.pipe = "live"]
  <2>1. c.st = "pid" /\ c.skew = run[w][j].skew /\ c.known = run[w][j].known
    BY <1>0 DEF RunnerType
  <2>2. run' = [run EXCEPT ![w][j] = c] /\ Working(run[w][j])
    BY <1>8 DEF SpawnPipeline, Working
  <2> HIDE DEF c
  <2>3. Sound(c)  BY <1>0, <2>1 DEF Sound
  <2> QED BY <1>1, <2>1, <2>2, <2>3
<1>9. CASE RecordPid(w, j)
  <2> DEFINE c == [run[w][j] EXCEPT !.st = "loop", !.skew = Skewed(w, j)]
  <2>1. c.st = "loop" /\ c.skew = Skewed(w, j) /\ c.known = run[w][j].known
    BY <1>0 DEF RunnerType
  <2>2. run' = [run EXCEPT ![w][j] = c] /\ run[w][j].st = "pid"  BY <1>9 DEF RecordPid
  <2> HIDE DEF c
  <2>3. row[j].rw = w  BY <1>0, <2>2 DEF RunOK, Gated
  <2>4. Sound(c)  BY <1>0, <2>1, <2>3 DEF Sound, Skewed
  <2> QED BY <1>1, <2>1, <2>2, <2>4 DEF Working
<1>10. CASE PipelineExits(w, j)
  <2> DEFINE c == [run[w][j] EXCEPT !.pipe = "none"]
  <2>1. /\ c.st = run[w][j].st /\ c.pipe = "none" /\ c.skew = run[w][j].skew
        /\ c.known = run[w][j].known
    BY <1>0 DEF RunnerType
  <2>2. run' = [run EXCEPT ![w][j] = c]  BY <1>10 DEF PipelineExits
  <2> HIDE DEF c
  <2>3. Sound(c)  BY <1>0, <2>1 DEF Sound
  <2> QED BY <1>1, <2>1, <2>2, <2>3 DEF Working
<1>11. CASE ObserveCancel(w, j) \/ ObserveStop(w, j) \/ PipelineDone(w, j)
  <2>1. PICK out : \/ run' = [run EXCEPT ![w][j] =
                                [@ EXCEPT !.st = "final", !.out = out, !.pipe = "none"]]
                   \/ /\ run[w][j].pipe = "none"
                      /\ run' = [run EXCEPT ![w][j] = [@ EXCEPT !.st = "final", !.out = out]]
    BY <1>11 DEF ObserveCancel, ObserveStop, PipelineDone
  <2> DEFINE c == [run[w][j] EXCEPT !.st = "final", !.out = out, !.pipe = "none"]
             d == [run[w][j] EXCEPT !.st = "final", !.out = out]
  <2>2. /\ c.st = "final" /\ c.pipe = "none" /\ c.skew = run[w][j].skew
        /\ d.st = "final" /\ d.pipe = run[w][j].pipe /\ d.skew = run[w][j].skew
        /\ c.known = run[w][j].known /\ d.known = run[w][j].known
    BY <1>0 DEF RunnerType
  <2>3. \/ run' = [run EXCEPT ![w][j] = c]
        \/ run[w][j].pipe = "none" /\ run' = [run EXCEPT ![w][j] = d]
    BY <2>1
  <2> HIDE DEF c, d
  <2>4. Sound(c) /\ (run[w][j].pipe = "none" => Sound(d)) /\ ~Working(c) /\ ~Working(d)
    BY <1>0, <2>2 DEF Sound, Working
  <2> QED BY <1>1, <2>2, <2>3, <2>4
<1>12. ~RunnerAlone(w, j)  BY DEF RunnerAlone, NoStrayRunner
<1> QED BY <1>4, <1>5, <1>6, <1>7, <1>8, <1>9, <1>10, <1>11, <1>12 DEF RunnerMoves, RunnerStep

\* PipeInv is inductive: workers and runners keep pipelines under their runners, and the
\* other steps move no runner.
LEMMA PipeStep ==
  ASSUME NoStrayRunner
  PROVE  TypeOK /\ GateInv /\ OwnInv /\ PipeInv /\ [Next]_vars => PipeInv'
<1> SUFFICES ASSUME TypeOK, GateInv, OwnInv, PipeInv, [Next]_vars PROVE PipeInv'  OBVIOUS
<1>1. CASE UNCHANGED run  BY <1>1 DEF PipeInv
<1>2. ASSUME NEW w \in Worker, WorkerStep(w) \/ WorkerEvent(w) PROVE PipeInv'
  BY <1>2, WorkerRuns DEF PipeInv, Sound, NoStrayRunner
<1>3. ASSUME NEW w \in Worker, NEW j \in Job, RunnerMoves(w, j) PROVE PipeInv'
  BY <1>3, RunnerRuns DEF PipeInv
<1> QED BY <1>1, <1>2, <1>3 DEF Next, UiStep, vars

\* The row of a pipeline points at its runner and belongs to its worker.
LEMMA SoundIsTracked == GateInv /\ OwnInv /\ PipeInv => PipelineTracked
<1> SUFFICES ASSUME GateInv, OwnInv, PipeInv, NEW w \in Worker, NEW j \in Job, Live(w, j)
             PROVE  row[j].owner = w /\ row[j].rw = w /\ TrackedUp(row[j], j)
  BY DEF PipelineTracked
<1>1. run[w][j].st \in {"pid", "loop"} /\ ~run[w][j].skew  BY DEF PipeInv, Sound, Live
<1>2. run[w][j].known  BY <1>1 DEF GateInv, Gated
<1>3. row[j].owner = w /\ row[j].rw = w  BY <1>1, <1>2 DEF OwnInv, RunInv, RunOK
<1>4. w # NoWorker  BY QueueAssumption
<1> QED BY <1>1, <1>2, <1>3, <1>4 DEF TrackedUp, RunnerUp

\* Whenever a pipeline runs, its row names the worker and the runner it belongs to, by
\* the pid and create time that the recoveries probe: the gate of open_runner stores them
\* before the pipeline starts, and no later write takes them away while it runs.
THEOREM PipelinesAreTracked ==
  ASSUME NoStrayRunner
  PROVE  Spec /\ [][RequeuesAlone]_vars => []PipelineTracked
<1>1. TypeOK /\ LateInv /\ [Next]_vars /\ [RequeuesAlone]_vars => LateInv'  BY LateStep
<1>2. TypeOK /\ GateInv /\ OwnInv /\ LateInv /\ [Next]_vars /\ [RequeuesAlone]_vars => OwnInv'
  BY OwnStep
<1>3. TypeOK /\ GateInv /\ OwnInv /\ PipeInv /\ [Next]_vars => PipeInv'  BY PipeStep
<1> QED BY <1>1, <1>2, <1>3, TypeCorrect, GateInit, GateStep, LateInit, OwnInit, PipeInit,
           SoundIsTracked, PTL DEF Spec

(***************************************************************************)
(* One line of attempts, one pipeline.                                     *)
(***************************************************************************)

\* No runner of row j is at its pipeline.
Quiet(j) == \A w \in Worker : ~Working(run[w][j])

\* A row that has a successor, or is about to get one, is quiet; the request that is
\* about to insert the successor carries the line of the row.
QuietInv ==
  /\ \A j \in Job : HasSuccessor(j) => Quiet(j)
  /\ \A r \in Request : rq[r].pc \in {"mark", "create"} =>
       Quiet(rq[r].job) /\ rq[r].seen.root = row[rq[r].job].root

\* A line of attempts is the one of its first row, and of two of its rows one is
\* continued.
LineInv ==
  /\ \A j \in Job : row[j].status # "absent" =>
       row[j].root \in Job /\ row[row[j].root].status # "absent"
  /\ \A j, k \in Job :
       j # k /\ row[j].status # "absent" /\ row[k].status # "absent"
         /\ row[j].root = row[k].root => HasSuccessor(j) \/ HasSuccessor(k)

\* The empty queue has no lines of attempts.
LEMMA LineInit == Init => QuietInv /\ LineInv
BY DEF Init, QuietInv, LineInv, HasSuccessor, NoRow

\* A past row stays quiet.
LEMMA QuietStays ==
  ASSUME TypeOK, GateInv, OwnInv, PipeInv, NoStrayRunner, [Next]_vars, NEW j \in Job,
         row[j].status \in Past, Quiet(j)
  PROVE  Quiet(j)'
<1>0. row[j].status # "starting"  BY DEF Past, Terminal
<1>1. CASE UNCHANGED run  BY <1>1 DEF Quiet, Working
<1>2. ASSUME NEW w \in Worker, WorkerStep(w) \/ WorkerEvent(w) PROVE Quiet(j)'
  BY <1>2, WorkerRuns DEF Quiet, Working
<1>3. ASSUME NEW w \in Worker, NEW i \in Job, RunnerMoves(w, i) PROVE Quiet(j)'
  BY <1>0, <1>3, RunnerRuns DEF Quiet, Working
<1> QED BY <1>1, <1>2, <1>3 DEF Next, UiStep, vars

\* The row a resume is granted for is quiet: its runner would be tracked.
LEMMA OverIsQuiet ==
  ASSUME GateInv, OwnInv, PipeInv, NEW j \in Job, AttemptOver(j)
  PROVE  Quiet(j)
<1> SUFFICES ASSUME NEW w \in Worker, Working(run[w][j]) PROVE FALSE  BY DEF Quiet
<1>1. run[w][j].known /\ ~run[w][j].skew /\ RunnerUp(w, j)
  BY DEF GateInv, Gated, PipeInv, Sound, Working, RunnerUp
<1>2. row[j].rw = w  BY <1>1 DEF OwnInv, RunInv, RunOK, RunnerUp
<1> QED BY <1>1, <1>2, QueueAssumption DEF AttemptOver, TrackedUp

\* QuietInv and LineInv are inductive: block_resume grants a resume only of a row whose
\* runner is over, and the successor it leads to is the only row that continues the line.
LEMMA LineStep ==
  ASSUME NoStrayRunner
  PROVE  TypeOK /\ GateInv /\ OwnInv /\ LateInv /\ HistoryInv /\ PipeInv /\ QuietInv /\ LineInv
           /\ [Next]_vars => QuietInv' /\ LineInv'
<1> SUFFICES ASSUME TypeOK, GateInv, OwnInv, LateInv, HistoryInv, PipeInv, QuietInv, LineInv,
                    [Next]_vars
             PROVE  QuietInv' /\ LineInv'
  OBVIOUS
<1>0. RowsOK /\ RequestsOK  BY TypeParts
<1>j. NoJob \notin Job  BY QueueAssumption DEF Job
<1>q. UNCHANGED rq \/ \E r \in Request : UiStep(r)
  BY WorkerKeepsRequests DEF Next, RunnerMoves, vars
<1>1. ASSUME NEW q \in Request, rq'[q].pc \in {"mark", "create"}
      PROVE  /\ rq'[q].job \in Job /\ row[rq'[q].job].status \in Past
             /\ Quiet(rq'[q].job) /\ rq'[q].seen.root = row[rq'[q].job].root
  <2>1. CASE UNCHANGED rq  BY <1>0, <1>1, <2>1 DEF HistoryInv, QuietInv, RequestsOK
  <2>2. ASSUME NEW r \in Request, UiStep(r)
        PROVE  /\ rq'[q].job \in Job /\ row[rq'[q].job].status \in Past
               /\ Quiet(rq'[q].job) /\ rq'[q].seen.root = row[rq'[q].job].root
    BY <1>0, <1>1, <2>2, ResumeTurns, OverIsQuiet DEF HistoryInv, QuietInv, RequestsOK, Past
  <2> QED BY <1>q, <2>1, <2>2
<1>2. ASSUME \A k \in Job : Carried(k) PROVE QuietInv' /\ LineInv'
  <2>1. \A j \in Job : HasSuccessor(j)' <=> HasSuccessor(j)
    BY <1>2 DEF HasSuccessor, Carried, SameAttempt
  <2>2. \A j \in Job : HasSuccessor(j)' => Quiet(j)'
    BY <2>1, QuietStays DEF QuietInv, HistoryInv
  <2>3. ASSUME NEW q \in Request, rq'[q].pc \in {"mark", "create"}, NEW j \in Job, j = rq'[q].job
        PROVE  Quiet(j)' /\ rq'[q].seen.root = row'[j].root
    BY <1>1, <1>2, <2>3, QuietStays DEF Carried, SameAttempt
  <2>4. \A q \in Request : rq'[q].pc \in {"mark", "create"} => rq'[q].job \in Job
    BY <1>1
  <2>5. (\A r \in Request : rq[r].pc \in {"mark", "create"} =>
           Quiet(rq[r].job) /\ rq[r].seen.root = row[rq[r].job].root)'
    BY <2>3, <2>4 DEF Quiet
  <2>6. ASSUME NEW j \in Job, row'[j].status # "absent"
        PROVE  row'[j].root \in Job /\ row'[row'[j].root].status # "absent"
    BY <1>2, <2>6 DEF LineInv, Carried, SameAttempt
  <2>7. ASSUME NEW j \in Job, NEW k \in Job, j # k, row'[j].status # "absent",
               row'[k].status # "absent", row'[j].root = row'[k].root
        PROVE  HasSuccessor(j)' \/ HasSuccessor(k)'
    BY <1>2, <2>1, <2>7 DEF LineInv, Carried, SameAttempt
  <2>8. LineInv'  BY <2>6, <2>7 DEF LineInv
  <2> QED BY <2>2, <2>5, <2>8 DEF QuietInv
<1>3. ASSUME NEW r \in Request, UiStep(r), NEW k \in Job, row[k].status = "absent",
             row'[k].status = "queued", Others(k),
             \/ row'[k].prev = NoJob /\ row'[k].root = k
             \/ /\ rq[r].pc = "create" /\ ~HasSuccessor(rq[r].job)
                /\ row'[k].prev = rq[r].job /\ row'[k].root = rq[r].seen.root
      PROVE  QuietInv' /\ LineInv'
  <2>0. UNCHANGED run  BY <1>3 DEF UiStep
  <2>1. \A j \in Job : row[j].status \in Past => j # k /\ row'[j] = row[j]
    BY <1>3 DEF Others, Past, Terminal
  <2>2. rq[r].pc = "create" =>
          /\ rq[r].job \in Job /\ row[rq[r].job].status \in Past /\ Quiet(rq[r].job)
          /\ rq[r].seen.root = row[rq[r].job].root
    BY <1>0 DEF RequestsOK, HistoryInv, QuietInv
  <2>3. ASSUME NEW j \in Job
        PROVE  HasSuccessor(j)' <=> HasSuccessor(j) \/ (rq[r].pc = "create" /\ row'[k].prev = j)
    <3>1. row'[k].prev = j => rq[r].pc = "create"  BY <1>3, <1>j
    <3>2. \A i \in Job \ {k} : row'[i] = row[i]  BY <1>3 DEF Others
    <3> QED BY <1>3, <3>1, <3>2 DEF HasSuccessor
  <2>4. \A j \in Job : HasSuccessor(j)' => Quiet(j)
    BY <1>3, <1>j, <2>2, <2>3 DEF QuietInv
  <2>5. \A j \in Job : Quiet(j)' <=> Quiet(j)  BY <2>0 DEF Quiet
  <2>6. QuietInv'
    BY <1>1, <2>1, <2>4, <2>5 DEF QuietInv
  <2>7. /\ row'[k].root \in Job /\ row'[row'[k].root].status # "absent"
        /\ row[k].status = "absent"
    <3>1. CASE row'[k].root = k  BY <1>3, <3>1
    <3>2. CASE rq[r].pc = "create" /\ row'[k].root = rq[r].seen.root
      <4>1. row[rq[r].job].status # "absent"  BY <2>2, <3>2 DEF Past, Terminal
      <4>2. row'[k].root \in Job /\ row[row'[k].root].status # "absent"
        BY <2>2, <3>2, <4>1 DEF LineInv
      <4> QED BY <1>3, <4>2 DEF Others
    <3> QED BY <1>3, <3>1, <3>2
  <2>8. \A j \in Job : row'[j].status # "absent" =>
          row'[j].root \in Job /\ row'[row'[j].root].status # "absent"
    BY <1>3, <2>7 DEF LineInv, Others
  <2>9. ASSUME NEW i \in Job, i # k, row'[i].status # "absent", row'[i].root = row'[k].root
        PROVE  HasSuccessor(i)'
    <3>1. row'[i] = row[i]  BY <1>3, <2>9 DEF Others
    <3>2. CASE row'[k].root = k
      BY <1>3, <2>9, <3>1, <3>2 DEF LineInv
    <3>3. CASE /\ rq[r].pc = "create" /\ ~HasSuccessor(rq[r].job)
               /\ row'[k].prev = rq[r].job /\ row'[k].root = rq[r].seen.root
      <4>1. CASE i = rq[r].job  BY <2>2, <2>3, <3>3, <4>1
      <4>2. CASE i # rq[r].job
        <5>1. row[rq[r].job].status # "absent"  BY <2>2, <3>3 DEF Past, Terminal
        <5>2. HasSuccessor(i)
          BY <2>2, <2>9, <3>1, <3>3, <4>2, <5>1 DEF LineInv
        <5> QED BY <2>3, <5>2
      <4> QED BY <4>1, <4>2
    <3> QED BY <1>3, <3>2, <3>3
  <2>10. ASSUME NEW i \in Job, NEW j \in Job, i # j, row'[i].status # "absent",
                row'[j].status # "absent", row'[i].root = row'[j].root
         PROVE  HasSuccessor(i)' \/ HasSuccessor(j)'
    <3>1. CASE i = k  BY <2>9, <2>10, <3>1
    <3>2. CASE j = k  BY <2>9, <2>10, <3>2
    <3>3. CASE i # k /\ j # k
      <4>1. row'[i] = row[i] /\ row'[j] = row[j]  BY <1>3, <3>3 DEF Others
      <4>2. HasSuccessor(i) \/ HasSuccessor(j)  BY <2>10, <4>1 DEF LineInv
      <4> QED BY <2>3, <4>2
    <3> QED BY <3>1, <3>2, <3>3
  <2>11. LineInv'  BY <2>8, <2>10 DEF LineInv
  <2> QED BY <2>6, <2>11
<1>4. ASSUME NEW r \in Request, UiStep(r), Insert(r) \/ CreateResumed(r)
      PROVE  QuietInv' /\ LineInv'
  <2>1. CASE UNCHANGED row  BY <1>2, <2>1 DEF Carried, SameAttempt, Retains
  <2> QED BY <1>3, <1>4, <2>1, Inserted
<1> QED BY <1>0, <1>2, <1>4, NextCarries

\* Two pipelines of one line of attempts would have a successor between them.
LEMMA OneLineOneWriter ==
  OwnInv /\ PipeInv /\ QuietInv /\ LineInv => OneWriterPerOutput
<1> SUFFICES ASSUME OwnInv, PipeInv, QuietInv, LineInv,
                    NEW w \in Worker, NEW v \in Worker, NEW j \in Job, NEW k \in Job,
                    Live(w, j), Live(v, k), row[j].root = row[k].root
             PROVE  w = v /\ j = k
  BY DEF OneWriterPerOutput
<1>1. Working(run[w][j]) /\ Working(run[v][k])
  BY DEF PipeInv, Sound, Live, Working
<1>2. /\ row[j].owner = w /\ row[j].status # "absent"
      /\ row[k].owner = v /\ row[k].status # "absent"
  BY <1>1 DEF OwnInv, RunInv, RunOK, Working, InFlight, Closed
<1>3. ~HasSuccessor(j) /\ ~HasSuccessor(k)  BY <1>1 DEF QuietInv, Quiet
<1> QED BY <1>2, <1>3 DEF LineInv

\* No two pipelines ever write one output: the rows of a line of attempts share their
\* output directory, and of all of them at most one has a live pipeline, under one
\* worker, across resumes, recoveries and replaced workers.
THEOREM OneWriterAtATime ==
  ASSUME NoStrayRunner
  PROVE  Spec /\ [][RequeuesAlone]_vars => []OneWriterPerOutput
<1>1. TypeOK /\ LateInv /\ [Next]_vars /\ [RequeuesAlone]_vars => LateInv'  BY LateStep
<1>2. TypeOK /\ GateInv /\ OwnInv /\ LateInv /\ [Next]_vars /\ [RequeuesAlone]_vars => OwnInv'
  BY OwnStep
<1>3. TypeOK /\ LateInv /\ HistoryInv /\ [Next]_vars => HistoryInv'  BY HistoryStep
<1>4. TypeOK /\ GateInv /\ OwnInv /\ PipeInv /\ [Next]_vars => PipeInv'  BY PipeStep
<1>5. TypeOK /\ GateInv /\ OwnInv /\ LateInv /\ HistoryInv /\ PipeInv /\ QuietInv /\ LineInv
        /\ [Next]_vars => QuietInv' /\ LineInv'
  BY LineStep
<1> QED BY <1>1, <1>2, <1>3, <1>4, <1>5, TypeCorrect, GateInit, GateStep, LateInit, OwnInit,
           HistoryInit, PipeInit, LineInit, OneLineOneWriter, PTL DEF Spec

(***************************************************************************)
(* A pipeline that goes on is wanted.                                      *)
(***************************************************************************)

\* reconcile_orphans judges a row by the runner columns it still has: no runner was
\* recorded since the row was listed.
FreezesFresh == \A r \in Request : Freeze(r) => rq[r].seen.rw = row[rq[r].job].rw

\* Program counters of a worker that has not registered, and of one that is gone.
Unborn == {"off", "check", "register"}
Gone == {"exited", "dead"}

\* The lease of a worker is fresh as long as it works.
LeaseInv == \A w \in Worker : wk[w].pc \notin Unborn \union Gone => lease[w] = "fresh"

\* Only a worker that registered owns rows, and a row in flight has an owner.
OwnerInv ==
  /\ \A j \in Job, w \in Worker : row[j].owner = w => wk[w].pc \notin Unborn
  /\ \A j \in Job : row[j].status \in InFlight => row[j].owner # NoWorker

\* The worker of the row is gone for good.
Deserted(j) ==
  /\ row[j].status \in InFlight \union Past
  /\ \/ row[j].owner \in Worker /\ wk[row[j].owner].pc \in Gone
     \/ row[j].owner = NoWorker /\ row[j].status = "finished"

\* A recorded runner of the orphan o is still to be looked at.
Probes(o) ==
  \A w \in Worker :
    run[w][o.job].st # "none" /\ run[w][o.job].known => o.phase = "probe" /\ o.rw = w

\* What a worker recovers has no worker, and once its runner was probed none.
TodoInv == \A v \in Worker : \A o \in todo[v] : Deserted(o.job) /\ Probes(o)

\* A request that cancels a row in flight found it; past the flag the row carries it, or
\* is over.
Cancels == {"probe", "markcancel", "settlecancel"}
CancelInv ==
  \A r \in Request :
    /\ rq[r].pc \in Cancels \union {"flag"} => row[rq[r].job].status # "absent"
    /\ rq[r].pc \in Cancels => row[rq[r].job].cancel \/ row[rq[r].job].status \in Terminal

\* A runner at its pipeline is wanted.
WantedInv ==
  \A w \in Worker, j \in Job :
    Working(run[w][j]) => row[j].status \in {"running", "cancelling"} \/ row[j].cancel

\* In the empty queue there is nothing to recover, to cancel or to want.
LEMMA WantInit == Init => LeaseInv /\ OwnerInv /\ TodoInv /\ CancelInv /\ WantedInv
<1> SUFFICES ASSUME Init PROVE LeaseInv /\ OwnerInv /\ TodoInv /\ CancelInv /\ WantedInv
  OBVIOUS
<1>1. /\ \A j \in Job : row[j].status = "absent" /\ row[j].owner = NoWorker
      /\ \A w \in Worker : wk[w].pc = "off" /\ todo[w] = {}
      /\ \A w \in Worker, j \in Job : run[w][j].st = "none"
      /\ \A r \in Request : rq[r].pc = "idle"
  BY DEF Init, NoRow, NoRunner
<1> QED BY <1>1, QueueAssumption DEF LeaseInv, OwnerInv, TodoInv, CancelInv, Cancels, WantedInv,
           Unborn, InFlight, Working

(***************************************************************************)
(* What the steps write.                                                   *)
(***************************************************************************)

\* A transition() writes the status of one row, if it may.
LEMMA MovedWrites ==
  ASSUME RowsOK, NEW j \in Job, NEW t, row' = Moved(j, t) \/ \E b : row' = MovedR(j, t, b)
  PROVE  /\ Others(j) /\ row'[j].owner = row[j].owner
         /\ \/ row'[j].status = row[j].status
            \/ row'[j].status = t /\ TransitionAllowed(row[j].status, t)
<1>1. CASE UNCHANGED row  BY <1>1 DEF Others
<1>2. ASSUME NEW c, row' = [row EXCEPT ![j] = c], CanMove(j, t), c.status = t,
             c.owner = row[j].owner
      PROVE  /\ Others(j) /\ row'[j].owner = row[j].owner
             /\ row'[j].status = t /\ TransitionAllowed(row[j].status, t)
  BY <1>2, WriteRow DEF CanMove
<1>3. CASE CanMove(j, t) /\ row' = [row EXCEPT ![j].status = t]
  <2> DEFINE c == [row[j] EXCEPT !.status = t]
  <2>1. c.status = t /\ c.owner = row[j].owner  BY DEF RowsOK, RowType
  <2>2. row' = [row EXCEPT ![j] = c]  BY <1>3
  <2> HIDE DEF c
  <2> QED BY <1>2, <1>3, <2>1, <2>2
<1>4. ASSUME NEW b, CanMove(j, t),
             row' = [row EXCEPT ![j] = [@ EXCEPT !.status = t, !.recov = b]]
      PROVE  /\ Others(j) /\ row'[j].owner = row[j].owner
             /\ row'[j].status = t /\ TransitionAllowed(row[j].status, t)
  <2> DEFINE c == [row[j] EXCEPT !.status = t, !.recov = b]
  <2>1. c.status = t /\ c.owner = row[j].owner  BY DEF RowsOK, RowType
  <2>2. row' = [row EXCEPT ![j] = c]  BY <1>4
  <2> HIDE DEF c
  <2> QED BY <1>2, <1>4, <2>1, <2>2
<1> QED BY <1>1, <1>3, <1>4 DEF Moved, MovedR

\* A worker moves alone; one that is gone stays so, one that works is registered, with
\* a lease that only its end or its death takes away.
LEMMA WorkerGoes ==
  ASSUME TypeOK, NEW w \in Worker, WorkerStep(w) \/ WorkerEvent(w)
  PROVE  /\ \A v \in Worker \ {w} :
              wk'[v] = wk[v] /\ lease'[v] = lease[v] /\ todo'[v] = todo[v]
         /\ wk[w].pc \in Gone => UNCHANGED wk
         /\ wk'[w].pc \in Unborn => wk[w].pc \in Unborn
         /\ wk'[w].pc \notin Unborn \union Gone =>
              \/ lease'[w] = "fresh" \/ "stale_lease" \in Faults
              \/ lease'[w] = lease[w] /\ wk[w].pc \notin Unborn \union Gone
<1> DEFINE Away == Unborn \union Gone
           Goal == /\ \A v \in Worker \ {w} :
                        wk'[v] = wk[v] /\ lease'[v] = lease[v] /\ todo'[v] = todo[v]
                   /\ wk[w].pc \in Gone => UNCHANGED wk
                   /\ wk'[w].pc \in Unborn => wk[w].pc \in Unborn
                   /\ wk'[w].pc \notin Away =>
                        \/ lease'[w] = "fresh" \/ "stale_lease" \in Faults
                        \/ lease'[w] = lease[w] /\ wk[w].pc \notin Away
<1>0. RowsOK /\ WorkersOK /\ LeasesOK /\ TodoOK  BY TypeParts
<1>1. ASSUME NEW pc, NEW j, Turns(w, pc, j), UNCHANGED <<lease, todo>>, pc \notin Unborn,
             wk[w].pc \notin Away
      PROVE  Goal
  BY <1>1 DEF Turns
<1>2. CASE Heartbeat(w) \/ LeaseExpires(w) \/ RequestStop(w)
  BY <1>0, <1>2 DEF Heartbeat, LeaseExpires, RequestStop, LeasesOK, At, Gone
<1>3. CASE OrphanProbe(w) \/ OrphanSettle(w) \/ OrphanCancel(w) \/ OrphanClose(w)
  <2>1. UNCHANGED <<wk, lease>> /\ \E c : todo' = [todo EXCEPT ![w] = c]
    BY <1>3 DEF OrphanProbe, OrphanSettle, OrphanCancel, OrphanClose, Advance, Drop
  <2> QED BY <1>0, <2>1 DEF TodoOK
<1>4. CASE StartWorker(w) \/ WorkerCheck(w)
  <2>1. /\ wk[w].pc \in Unborn /\ UNCHANGED <<lease, todo>>
        /\ \E pc \in {"check", "exited", "register"} : Turns(w, pc, wk[w].job)
    BY <1>0, <1>4, TurnsGoto DEF StartWorker, WorkerCheck, At, Unborn
  <2> QED BY <2>1 DEF Turns, Unborn, Gone
<1>5. CASE Register(w)
  <2>1. /\ Turns(w, "idle", NoJob) /\ UNCHANGED todo /\ At(w, "register")
        /\ lease' = [lease EXCEPT ![w] = "fresh"]
    BY <1>0, <1>5, TurnsIdle DEF Register
  <2> QED BY <1>0, <2>1 DEF Turns, LeasesOK, At, Unborn, Gone
<1>6. CASE WorkerStops(w)
  <2>1. /\ Turns(w, "exited", NoJob) /\ UNCHANGED todo /\ At(w, "idle")
        /\ lease' = [lease EXCEPT ![w] = "none"]
    BY <1>0, <1>6, TurnsIdle DEF WorkerStops, Leave
  <2> QED BY <1>0, <2>1 DEF Turns, LeasesOK, At, Unborn, Gone
<1>7. CASE WorkerCrash(w)
  <2>1. /\ Turns(w, "dead", NoJob) /\ UNCHANGED lease /\ wk[w].pc \notin Gone
        /\ todo' = [todo EXCEPT ![w] = {}]
    BY <1>0, <1>7, TurnsJob DEF WorkerCrash, WorkerUp, Down, Gone
  <2> QED BY <1>0, <2>1 DEF Turns, TodoOK, Unborn, Gone
<1>8. CASE ScanOrphans(w) \/ OrphanSurvives(w)
  <2> DEFINE c == [wk[w] EXCEPT !.pc = "orphans", !.safe = TRUE]
             d == [wk[w] EXCEPT !.safe = FALSE]
  <2>1. c.pc = "orphans" /\ d.pc = wk[w].pc  BY <1>0 DEF WorkersOK, WorkerType
  <2>2. /\ wk[w].pc \in {"idle", "orphans"} /\ UNCHANGED lease
        /\ wk' = [wk EXCEPT ![w] = c] \/ wk' = [wk EXCEPT ![w] = d]
        /\ \E p : todo' = [todo EXCEPT ![w] = p]
    BY <1>8 DEF ScanOrphans, OrphanSurvives, Reconciles, At, Drop
  <2> HIDE DEF c, d
  <2>3. \E pc \in {"orphans", wk[w].pc} : \E j : Turns(w, pc, j)
    BY <1>0, <2>1, <2>2, TurnsTo
  <2> QED BY <1>0, <2>2, <2>3 DEF Turns, TodoOK, Unborn, Gone
<1>9. CASE OrphansDone(w) \/ NothingQueued(w) \/ Prepare(w) \/ AnalysisDone(w) \/ Apply(w)
           \/ SpawnRunner(w) \/ PersistRunner(w) \/ PersistFails(w) \/ OpenGate(w)
           \/ WatchStops(w) \/ KillRunner(w) \/ AnalysisFails(w) \/ AnalysisCancelled(w)
           \/ FailCancelled(w) \/ FailSource(w) \/ Decide(w) \/ Handoff(w)
  <2>1. /\ wk[w].pc \notin Away /\ UNCHANGED <<lease, todo>>
        /\ GotoIdle(w) \/ \E pc \in WorkerPc \ Unborn : Goto(w, pc)
    BY <1>9 DEF OrphansDone, NothingQueued, Prepare, AnalysisDone, Apply, SpawnRunner,
       PersistRunner, PersistFails, OpenGate, WatchStops, KillRunner, AnalysisFails,
       AnalysisCancelled, FailCancelled, FailSource, Decide, Handoff, At, Unborn, Gone,
       WorkerPc, Busy, Supervising
  <2>2. \E pc, j : Turns(w, pc, j) /\ pc \notin Unborn
    BY <1>0, <2>1, TurnsGoto, TurnsIdle DEF Unborn
  <2> QED BY <1>1, <2>1, <2>2
<1>10. CASE SettleStopped(w) \/ CloseStopped(w)
  <2>1. /\ wk[w].pc \notin Away /\ UNCHANGED <<lease, todo>>
        /\ Stopped(w) \/ Goto(w, "close") \/ Goto(w, "haltclose")
    BY <1>10 DEF SettleStopped, CloseStopped, At, Unborn, Gone
  <2>2. \E pc \in {"watch", "idle", "close", "haltclose"} : \E j : Turns(w, pc, j)
    BY <1>0, <2>1, TurnsStopped, TurnsGoto
  <2> QED BY <1>1, <2>1, <2>2 DEF Unborn
<1>11. CASE Claim(w) \/ Claimed(w)
  <2>1. /\ wk[w].pc \notin Away /\ UNCHANGED <<lease, todo>>
        /\ \/ GotoIdle(w)
           \/ \E pc \in {"claimed", "prepare"} : \E j :
                wk' = [wk EXCEPT ![w] = [@ EXCEPT !.pc = pc, !.job = j]]
    BY <1>11 DEF Claim, Claimed, At, Unborn, Gone
  <2>2. \E pc \in {"claimed", "prepare", "idle"} : \E j : Turns(w, pc, j)
    BY <1>0, <2>1, TurnsJob, TurnsIdle
  <2> QED BY <1>1, <2>1, <2>2 DEF Unborn
<1>12. CASE RunnerExited(w)
  <2> DEFINE c == [wk[w] EXCEPT !.pc = "exit", !.seen = row[Mine(w)].status,
                                !.seenCancel = row[Mine(w)].cancel]
  <2>1. c.pc = "exit"  BY <1>0 DEF WorkersOK, WorkerType
  <2>2. /\ wk[w].pc \notin Away /\ UNCHANGED <<lease, todo>>
        /\ GotoIdle(w) \/ wk' = [wk EXCEPT ![w] = c]
    BY <1>12 DEF RunnerExited, At, Unborn, Gone
  <2> HIDE DEF c
  <2>3. \E pc \in {"exit", "idle"} : \E j : Turns(w, pc, j)
    BY <1>0, <2>1, <2>2, TurnsTo, TurnsIdle
  <2> QED BY <1>1, <2>2, <2>3 DEF Unborn
<1>13. CASE ExitReconcile(w) \/ ExitCancelled(w)
  <2>1. wk[w].pc \in {"exit", "exit2"} /\ UNCHANGED todo
    BY <1>13 DEF ExitReconcile, ExitCancelled, At
  <2>m. \E t \in {"interrupted", "cancelling", "cancelled"}, b \in BOOLEAN,
             next \in {"idle", "exit2"} : MoveOrUnwind(w, t, b, next)
    <3>1. Mine(w) \in Job  BY <1>0, <2>1, BusyJob DEF Busy
    <3>2. row[Mine(w)].recov \in BOOLEAN  BY <1>0, <3>1 DEF RowsOK, RowType
    <3>3. \E t \in {"interrupted", "cancelling", "cancelled"}, b \in BOOLEAN,
             next \in {"idle", "exit2"} : MoveOrUnwind(w, t, b, next)
      BY <1>13, <3>2 DEF ExitReconcile, ExitCancelled
    <3> QED BY <3>3
  <2>2. \E pc \in {"idle", "exit2", "exited"} : \E j : Turns(w, pc, j)
    BY <1>0, <2>m, TurnsUnwind
  <2>3. UNCHANGED lease \/ lease' = [lease EXCEPT ![w] = "none"]
    BY <2>m DEF MoveOrUnwind
  <2>4. CASE UNCHANGED lease  BY <1>1, <2>1, <2>2, <2>4 DEF Unborn, Gone
  <2>5. CASE wk'[w].pc = "exited" /\ lease' = [lease EXCEPT ![w] = "none"]
    BY <1>0, <2>1, <2>2, <2>5 DEF Turns, LeasesOK, Unborn, Gone
  <2>6. UNCHANGED lease \/ wk'[w].pc = "exited"
    <3>1. PICK t \in {"interrupted", "cancelling", "cancelled"}, b \in BOOLEAN,
             next \in {"idle", "exit2"} : MoveOrUnwind(w, t, b, next)
      BY <2>m
    <3> DEFINE d == [wk[w] EXCEPT !.pc = "exited", !.job = NoJob,
                                  !.seen = "absent", !.seenCancel = FALSE]
    <3>2. d.pc = "exited"  BY <1>0 DEF WorkersOK, WorkerType
    <3>3. UNCHANGED lease \/ wk' = [wk EXCEPT ![w] = d]  BY <3>1 DEF MoveOrUnwind
    <3> HIDE DEF d
    <3> QED BY <1>0, <3>2, <3>3 DEF WorkersOK
  <2> QED BY <2>3, <2>4, <2>5, <2>6
<1> QED BY <1>2, <1>3, <1>4, <1>5, <1>6, <1>7, <1>8, <1>9, <1>10, <1>11, <1>12, <1>13
        DEF WorkerStep, WorkerEvent

\* What worker w may write into row k: a claim, the outcome of its own job, or the
\* recovery of an orphan that was probed.
WorkerWrote(w, k) ==
  \/ row'[k].status = row[k].status /\ row'[k].owner = row[k].owner
  \/ /\ At(w, "claim") /\ row[k].status = "queued"
     /\ row'[k].status = "claiming" /\ row'[k].owner = w
  \/ row[k].owner = w /\ row'[k].owner = w /\ wk[w].pc \in Busy \ Beside
  \/ /\ row'[k].owner = row[k].owner
     /\ TransitionAllowed(row[k].status, row'[k].status)
     /\ row'[k].status \in {"cancelling", "interrupted", "cancelled"}
     /\ \E o \in todo[w] : o.job = k /\ o.phase # "probe"

\* A worker writes the row it claims, its own row while it is not beside its runner, or
\* one its recovery has listed and probed.
LEMMA WorkerWrites ==
  ASSUME TypeOK, OwnInv, NEW w \in Worker, WorkerStep(w) \/ WorkerEvent(w)
  PROVE  \A k \in Job : WorkerWrote(w, k)
<1>0. RowsOK /\ WorkersOK /\ TodoOK  BY TypeParts
<1>m. wk[w].pc \in Busy => Mine(w) \in Job  BY <1>0, BusyJob
<1>u. UNCHANGED row => \A k \in Job : WorkerWrote(w, k)  BY DEF WorkerWrote
<1>o. \* its own job
      ASSUME wk[w].pc \in Busy \ Beside, Others(Mine(w)), row[Mine(w)].owner = w,
             row'[Mine(w)].owner = w
      PROVE  \A k \in Job : WorkerWrote(w, k)
  BY <1>m, <1>o DEF Others, WorkerWrote
<1>e. wk[w].pc \in Early => row[Mine(w)].owner = w  BY DEF OwnInv, HoldInv, HoldOK, Held
<1>1. CASE
     \/ StartWorker(w) \/ WorkerCheck(w) \/ Register(w) \/ Heartbeat(w)
     \/ LeaseExpires(w) \/ RequestStop(w) \/ WorkerStops(w) \/ WorkerCrash(w)
     \/ ScanOrphans(w) \/ OrphanProbe(w) \/ OrphanSurvives(w) \/ OrphansDone(w)
     \/ Claimed(w) \/ NothingQueued(w) \/ Prepare(w) \/ AnalysisDone(w) \/ Apply(w)
     \/ SpawnRunner(w) \/ PersistFails(w) \/ OpenGate(w) \/ WatchStops(w)
     \/ KillRunner(w) \/ RunnerExited(w)
  BY <1>1, <1>u
  DEF StartWorker, WorkerCheck, Register, Heartbeat, LeaseExpires,
      RequestStop, WorkerStops, WorkerCrash, ScanOrphans,
      OrphanProbe, OrphanSurvives, OrphansDone, Claimed,
      NothingQueued, Prepare, AnalysisDone, Apply, SpawnRunner,
      PersistFails, OpenGate, WatchStops, KillRunner, RunnerExited
<1>2. CASE OrphanSettle(w) \/ OrphanCancel(w) \/ OrphanClose(w)
  <2>1. PICK o \in todo[w] :
          /\ o.phase # "probe"
          /\ \/ UNCHANGED row \/ row' = Moved(o.job, "cancelling")
             \/ row' = MovedR(o.job, "interrupted", TRUE)
             \/ row' = MovedR(o.job, "cancelled", FALSE)
    BY <1>2 DEF OrphanSettle, OrphanCancel, OrphanClose, RecoveredAs, Reconciles
  <2>2. o.job \in Job  BY <1>0, TodoUpdate DEF OrphanType
  <2>3. CASE UNCHANGED row  BY <1>u, <2>3
  <2>4. CASE ~UNCHANGED row
    <3>1. /\ Others(o.job) /\ row'[o.job].owner = row[o.job].owner
          /\ \/ row'[o.job].status = row[o.job].status
             \/ /\ row'[o.job].status \in {"cancelling", "interrupted", "cancelled"}
                /\ TransitionAllowed(row[o.job].status, row'[o.job].status)
      <4>1. CASE row' = Moved(o.job, "cancelling")  BY <1>0, <2>2, <4>1, MovedWrites
      <4>2. CASE row' = MovedR(o.job, "interrupted", TRUE)
        BY <1>0, <2>2, <4>2, MovedWrites
      <4>3. CASE row' = MovedR(o.job, "cancelled", FALSE)
        BY <1>0, <2>2, <4>3, MovedWrites
      <4> QED BY <2>1, <2>4, <4>1, <4>2, <4>3
    <3> QED BY <2>1, <3>1 DEF Others, WorkerWrote
  <2> QED BY <2>3, <2>4
<1>3. CASE \/ AnalysisFails(w) \/ AnalysisCancelled(w) \/ FailCancelled(w) \/ FailSource(w)
  <2>1. wk[w].pc \in {"analyse", "failcancel", "failsource"}
    BY <1>3 DEF AnalysisFails, AnalysisCancelled, FailCancelled, FailSource, At
  <2>2. wk[w].pc \in Early /\ wk[w].pc \in Busy \ Beside
    BY <2>1 DEF Early, Busy, Supervising, Beside
  <2>3. UNCHANGED row \/ \E t : row' = Moved(Mine(w), t)
    BY <1>3 DEF AnalysisFails, AnalysisCancelled, FailCancelled, FailSource
  <2> QED BY <1>0, <1>e, <1>m, <1>o, <1>u, <2>2, <2>3, MovedWrites
<1>4. CASE SettleStopped(w) \/ CloseStopped(w)
  <2>1. wk[w].pc \in {"settle", "haltsettle", "close", "haltclose"}
    BY <1>4 DEF SettleStopped, CloseStopped, At
  <2>2. wk[w].pc \in Busy \ Beside  BY <2>1 DEF Busy, Beside
  <2>3. \/ UNCHANGED row
        \/ /\ row[Mine(w)].owner = w
           /\ \/ row' = MovedR(Mine(w), "interrupted", TRUE)
              \/ \E t : row' = Moved(Mine(w), t)
    BY <1>4 DEF SettleStopped, CloseStopped, CanMoveOwned
  <2> QED BY <1>0, <1>m, <1>o, <1>u, <2>2, <2>3, MovedWrites
<1>5. CASE ExitReconcile(w) \/ ExitCancelled(w)
  <2>1. wk[w].pc \in {"exit", "exit2"}  BY <1>5 DEF ExitReconcile, ExitCancelled, At
  <2>2. wk[w].pc \in Busy \ Beside  BY <2>1 DEF Busy, Beside
  <2>3. row[Mine(w)].recov \in BOOLEAN  BY <1>0, <1>m, <2>2 DEF RowsOK, RowType
  <2>4. \E t \in {"interrupted", "cancelling", "cancelled"}, b \in BOOLEAN, next \in {"idle", "exit2"} :
          MoveOrUnwind(w, t, b, next)
    BY <1>5, <2>3 DEF ExitReconcile, ExitCancelled
  <2>5. \/ UNCHANGED row
        \/ /\ row[Mine(w)].owner = w
           /\ \E t, b : row' = MovedR(Mine(w), t, b)
    BY <2>4 DEF MoveOrUnwind, MovedR, CanMoveOwned
  <2> QED BY <1>0, <1>m, <1>o, <1>u, <2>2, <2>5, MovedWrites
<1>6. CASE Claim(w)
  <2>1. PICK j \in Job :
          /\ row[j].status = "queued" /\ At(w, "claim")
          /\ row' = [row EXCEPT ![j] = [@ EXCEPT !.status = "claiming", !.owner = w]]
    BY <1>6 DEF Claim, Claimable
  <2> DEFINE c == [row[j] EXCEPT !.status = "claiming", !.owner = w]
  <2>2. c.status = "claiming" /\ c.owner = w  BY <1>0 DEF RowsOK, RowType
  <2>3. row' = [row EXCEPT ![j] = c]  BY <2>1
  <2> HIDE DEF c
  <2>4. row'[j] = c /\ Others(j)  BY <1>0, <2>3, WriteRow
  <2> QED BY <2>1, <2>2, <2>4 DEF Others, WorkerWrote
<1>7. ASSUME wk[w].pc \in Early, NEW c, row' = [row EXCEPT ![Mine(w)] = c],
             c.owner = row[Mine(w)].owner, wk[w].pc \notin Beside \/ c.status = row[Mine(w)].status
      PROVE  \A k \in Job : WorkerWrote(w, k)
  <2>1. wk[w].pc \in Busy  BY <1>7 DEF Early, Busy, Supervising
  <2>2. row'[Mine(w)] = c /\ Others(Mine(w))  BY <1>0, <1>7, <1>m, <2>1, WriteRow
  <2> QED BY <1>7, <1>e, <1>o, <2>1, <2>2 DEF Others, WorkerWrote
<1>8. CASE Decide(w)
  <2>1. Mine(w) \in Job  BY <1>8, <1>m DEF Decide, At, Busy, Supervising
  <2>2. CASE ~UNCHANGED row
    <3>1. PICK t \in {"failed", "awaiting_source_review", "source_analysis_ready"} :
            row' = [row EXCEPT ![Mine(w)] = [@ EXCEPT !.status = t, !.sel = Selected(Mine(w), t)]]
      BY <1>8, <2>2 DEF Decide
    <3> DEFINE c == [row[Mine(w)] EXCEPT !.status = t, !.sel = Selected(Mine(w), t)]
    <3>2. c.owner = row[Mine(w)].owner  BY <1>0, <2>1 DEF RowsOK, RowType
    <3>3. row' = [row EXCEPT ![Mine(w)] = c]  BY <3>1
    <3> HIDE DEF c
    <3>4. wk[w].pc \in Early \ Beside  BY <1>8 DEF Decide, At, Early, Beside
    <3> QED BY <1>7, <3>2, <3>3, <3>4
  <2> QED BY <1>u, <2>2
<1>9. CASE Handoff(w)
  <2>1. Mine(w) \in Job  BY <1>9, <1>m DEF Handoff, At, Busy, Supervising
  <2>2. wk[w].pc \in Early \ Beside /\ wk[w].pc \in Busy \ Beside
    BY <1>9 DEF Handoff, At, Early, Beside, Busy, Supervising
  <2>3. CASE row' = Moved(Mine(w), "failed")
    BY <1>0, <1>e, <1>o, <1>u, <2>1, <2>2, <2>3, MovedWrites
  <2>4. CASE ~(UNCHANGED row \/ row' = Moved(Mine(w), "failed"))
    <3>1. row' = [row EXCEPT ![Mine(w)] = [@ EXCEPT !.status = "claiming", !.auth = TRUE]]
      BY <1>9, <2>4 DEF Handoff
    <3> DEFINE c == [row[Mine(w)] EXCEPT !.status = "claiming", !.auth = TRUE]
    <3>2. c.owner = row[Mine(w)].owner  BY <1>0, <2>1 DEF RowsOK, RowType
    <3>3. row' = [row EXCEPT ![Mine(w)] = c]  BY <3>1
    <3> HIDE DEF c
    <3> QED BY <1>7, <2>2, <3>2, <3>3
  <2> QED BY <1>u, <2>3, <2>4
<1>10. CASE PersistRunner(w)
  <2>1. Mine(w) \in Job  BY <1>10, <1>m DEF PersistRunner, At, Busy, Supervising
  <2> DEFINE c == [row[Mine(w)] EXCEPT !.rw = w, !.top = TRUE]
  <2>2. c.owner = row[Mine(w)].owner /\ c.status = row[Mine(w)].status
    BY <1>0, <2>1 DEF RowsOK, RowType
  <2>3. row' = [row EXCEPT ![Mine(w)] = c]  BY <1>10 DEF PersistRunner
  <2> HIDE DEF c
  <2>4. wk[w].pc \in Early  BY <1>10 DEF PersistRunner, At, Early
  <2> QED BY <1>7, <2>2, <2>3, <2>4
<1> QED BY <1>1, <1>2, <1>3, <1>4, <1>5, <1>6, <1>8, <1>9, <1>10 DEF WorkerStep, WorkerEvent

\* What a runner writes: the outcome of its own row, and nothing as long as it is at its
\* pipeline.
LEMMA RunnerWrites ==
  ASSUME TypeOK, OwnInv, PipeInv, NoStrayRunner, NEW w \in Worker, NEW j \in Job, RunnerMoves(w, j)
  PROVE  /\ run[w][j].st # "none" /\ Others(j) /\ row'[j].owner = row[j].owner
         /\ \/ row'[j].status = row[j].status
            \/ /\ TransitionAllowed(row[j].status, row'[j].status)
               /\ row'[j].status \in InFlight \union Past
         /\ Working(run[w][j]) /\ Working(run'[w][j]) => row'[j].status = row[j].status
<1>0. RowsOK /\ RunnersOK /\ run[w][j] \in RunnerType /\ Sound(run[w][j])
  BY TypeParts DEF RunnersOK, PipeInv
<1>1. run[w][j].st # "none"
  BY <1>0 DEF RunnerMoves, RunnerStep, RunnerAlone, NoStrayRunner, GateTimeout, Boot, BootCancel,
     BootCancelled, Reject, Start, Running, SpawnPipeline, SpawnFails, RecordPid, PipelineExits,
     ObserveCancel, ObserveStop, PipelineDone, Finalize, Step, StepOwned, Sound
<1>u. ASSUME UNCHANGED row
      PROVE  Others(j) /\ row'[j].owner = row[j].owner /\ row'[j].status = row[j].status
  BY <1>u DEF Others
<1>2. CASE \/ GateTimeout(w, j) \/ Boot(w, j) \/ SpawnPipeline(w, j) \/ PipelineExits(w, j)
           \/ ObserveStop(w, j) \/ PipelineDone(w, j)
  BY <1>1, <1>2, <1>u DEF GateTimeout, Boot, SpawnPipeline, PipelineExits, ObserveStop,
     PipelineDone
<1>e. ASSUME Exits(w, j) PROVE ~Working(run'[w][j])
  <2>1. run'[w][j] = NoRunner  BY <1>0, <1>e DEF Exits, RunnersOK
  <2> QED BY <2>1 DEF NoRunner, Working
<1>3. ASSUME NEW t \in InFlight \union Past,
             row' = Moved(j, t) \/ (\E b : row' = MovedR(j, t, b)),
             ~Working(run[w][j]) \/ ~Working(run'[w][j])
      PROVE  /\ Others(j) /\ row'[j].owner = row[j].owner
             /\ \/ row'[j].status = row[j].status
                \/ /\ TransitionAllowed(row[j].status, row'[j].status)
                   /\ row'[j].status \in InFlight \union Past
             /\ Working(run[w][j]) /\ Working(run'[w][j]) => row'[j].status = row[j].status
  BY <1>0, <1>3, MovedWrites
<1>4. CASE \/ BootCancel(w, j) \/ BootCancelled(w, j) \/ Start(w, j) \/ Running(w, j)
  <2>1. run[w][j].st \in {"cancel", "cancelled", "start", "running"}
    BY <1>4 DEF BootCancel, BootCancelled, Start, Running, StepOwned
  <2>2. UNCHANGED row \/ \E t \in {"cancelling", "cancelled", "starting", "running"} :
          row' = Moved(j, t)
    BY <1>4 DEF BootCancel, BootCancelled, Start, Running, StepOwned
  <2>3. ~Working(run[w][j])  BY <2>1 DEF Working
  <2>4. {"cancelling", "cancelled", "starting", "running"} \subseteq InFlight \union Past
    BY DEF InFlight, Past, Terminal
  <2> QED BY <1>1, <1>3, <1>u, <2>2, <2>3, <2>4
<1>5. CASE Reject(w, j) \/ SpawnFails(w, j)
  <2>1. Exits(w, j) /\ (UNCHANGED row \/ row' = Moved(j, "failed"))
    BY <1>5 DEF Reject, SpawnFails, StepOwned
  <2>2. "failed" \in InFlight \union Past  BY DEF Past, Terminal
  <2> QED BY <1>1, <1>3, <1>e, <1>u, <2>1, <2>2
<1>6. CASE Finalize(w, j)
  <2>1. Exits(w, j)  BY <1>6 DEF Finalize
  <2>2. \/ UNCHANGED row
        \/ \E t \in {"cancelled", "interrupted", "finished", "review_required", "failed"} :
             \E b : row' = MovedR(j, t, b)
    BY <1>0, <1>6 DEF Finalize, RunnerType
  <2>3. {"cancelled", "interrupted", "finished", "review_required", "failed"}
          \subseteq InFlight \union Past
    BY DEF Past, Terminal
  <2> QED BY <1>1, <1>3, <1>e, <1>u, <2>1, <2>2, <2>3
<1>7. CASE ObserveCancel(w, j)
  <2> DEFINE c == [run[w][j] EXCEPT !.st = "final", !.out = "cancelled", !.pipe = "none"]
  <2>1. c.st = "final"  BY <1>0 DEF RunnerType
  <2>2. run' = [run EXCEPT ![w][j] = c]  BY <1>7 DEF ObserveCancel
  <2>3. UNCHANGED row \/ row' = Moved(j, "cancelling")  BY <1>7 DEF ObserveCancel
  <2> HIDE DEF c
  <2>4. run'[w][j] = c  BY <1>0, <2>2 DEF RunnersOK
  <2>5. ~Working(run'[w][j])  BY <2>1, <2>4 DEF Working
  <2>6. "cancelling" \in InFlight \union Past  BY DEF InFlight
  <2> QED BY <1>1, <1>3, <1>u, <2>3, <2>5, <2>6
<1>8. CASE RecordPid(w, j)
  <2> DEFINE c == [row[j] EXCEPT !.rw = w, !.top = FALSE]
  <2>1. c.owner = row[j].owner /\ c.status = row[j].status  BY <1>0 DEF RowsOK, RowType
  <2>2. row' = [row EXCEPT ![j] = c]  BY <1>8 DEF RecordPid
  <2> HIDE DEF c
  <2>3. row'[j] = c /\ Others(j)  BY <1>0, <2>2, WriteRow
  <2> QED BY <1>1, <2>1, <2>3
<1>9. ~RunnerAlone(w, j)  BY DEF RunnerAlone, NoStrayRunner
<1> QED BY <1>2, <1>4, <1>5, <1>6, <1>7, <1>8, <1>9 DEF RunnerMoves, RunnerStep

\* What a request may write into row k.
UiWrote(r, k) ==
  \/ row'[k].status = row[k].status /\ row'[k].owner = row[k].owner
  \/ /\ row'[k].owner = row[k].owner
     /\ \/ row[k].status \in InFlight /\ row'[k].status = "cancelling"
        \/ row[k].status = "interrupted" /\ row'[k].status = "resumable"
        \/ /\ On(r, "cancelled") /\ k = rq[r].job
           /\ TransitionAllowed(row[k].status, "cancelled") /\ row'[k].status = "cancelled"
        \/ /\ Freeze(r) /\ k = rq[r].job /\ ~TrackedUp(rq[r].seen, k)
           /\ TransitionAllowed(row[k].status, row'[k].status)
           /\ row'[k].status \in {"cancelled", "interrupted"}
  \/ /\ row[k].status \notin InFlight \union Past /\ row'[k].status \notin InFlight
     /\ row'[k].owner \in {NoWorker, row[k].owner}
  \/ /\ row[k].status = "review_required"
     /\ row'[k].status = "finished" /\ row'[k].owner = NoWorker

\* A request cancels a row in flight, frees an interrupted one, freezes one whose runner
\* it has probed dead, ends a review, or writes a row that nobody runs.
LEMMA UiWrites ==
  ASSUME TypeOK, LateInv, NEW r \in Request, UiStep(r)
  PROVE  \A k \in Job : UiWrote(r, k)
<1>0. /\ RowsOK
      /\ rq[r].pc \notin {"idle", "insert"} => rq[r].job \in Job
  BY TypeParts DEF RequestsOK
<1>u. UNCHANGED row => \A k \in Job : UiWrote(r, k)  BY DEF UiWrote
<1>j. ASSUME NEW j \in Job, Others(j), UiWrote(r, j) PROVE \A k \in Job : UiWrote(r, k)
  BY <1>j DEF Others, UiWrote
<1>1. CASE \/ Submit(r) \/ Resume(r) \/ Cancel(r) \/ CancelHeld(r) \/ Reconcile(r)
           \/ ProbeRunner(r) \/ VerifySource(r) \/ AuthorizeDownload(r) \/ UiRestart(r)
  BY <1>1, <1>u DEF Submit, Resume, Cancel, CancelHeld, Reconcile, ProbeRunner, VerifySource,
     AuthorizeDownload, UiRestart
<1>m. ASSUME NEW j \in Job, NEW t, row' = Moved(j, t) \/ (\E b : row' = MovedR(j, t, b)),
             TransitionAllowed(row[j].status, t) /\ row'[j].status = t
                /\ row'[j].owner = row[j].owner => UiWrote(r, j)
      PROVE  \A k \in Job : UiWrote(r, k)
  <2>1. /\ Others(j) /\ row'[j].owner = row[j].owner
        /\ \/ row'[j].status = row[j].status
           \/ row'[j].status = t /\ TransitionAllowed(row[j].status, t)
    BY <1>0, <1>m, MovedWrites
  <2>2. UiWrote(r, j)  BY <1>m, <2>1 DEF UiWrote
  <2> QED BY <1>j, <2>1, <2>2
<1>2. CASE MarkResumable(r)
  <2>1. rq[r].job \in Job /\ row' = MovedR(rq[r].job, "resumable", TRUE)
    BY <1>0, <1>2 DEF MarkResumable, On
  <2>2. TransitionAllowed(row[rq[r].job].status, "resumable") => row[rq[r].job].status = "interrupted"
    BY DEF TransitionAllowed, Holds
  <2>3. TransitionAllowed(row[rq[r].job].status, "resumable")
          /\ row'[rq[r].job].status = "resumable" /\ row'[rq[r].job].owner = row[rq[r].job].owner
          => UiWrote(r, rq[r].job)
    BY <2>2 DEF UiWrote
  <2> QED BY <1>m, <2>1, <2>3
<1>3. CASE MarkCancelling(r) \/ SettleCancel(r)
  <2>1. rq[r].job \in Job /\ row' = Moved(rq[r].job, "cancelling")
    BY <1>0, <1>3 DEF MarkCancelling, SettleCancel, On
  <2>2. TransitionAllowed(row[rq[r].job].status, "cancelling") => row[rq[r].job].status \in InFlight
    BY DEF TransitionAllowed, Holds, InFlight
  <2>3. TransitionAllowed(row[rq[r].job].status, "cancelling")
          /\ row'[rq[r].job].status = "cancelling" /\ row'[rq[r].job].owner = row[rq[r].job].owner
          => UiWrote(r, rq[r].job)
    BY <2>2 DEF UiWrote
  <2> QED BY <1>m, <2>1, <2>3
<1>4. CASE SettleCancelled(r)
  <2>1. /\ rq[r].job \in Job /\ row' = Moved(rq[r].job, "cancelled") /\ On(r, "cancelled")
    BY <1>0, <1>4 DEF SettleCancelled, On
  <2>2. TransitionAllowed(row[rq[r].job].status, "cancelled")
          /\ row'[rq[r].job].status = "cancelled" /\ row'[rq[r].job].owner = row[rq[r].job].owner
          => UiWrote(r, rq[r].job)
    BY <2>1 DEF UiWrote
  <2> QED BY <1>m, <2>1, <2>2
<1>5. CASE Requeue(r)
  <2>1. PICK j \in Job :
          /\ row' = Moved(j, "queued") \/ UNCHANGED row
          /\ row[j].status \in Holds \union {"cancelled", "failed"}
    BY <1>0, <1>5 DEF Requeue, On, LateInv
  <2>2. TransitionAllowed(row[j].status, "queued") =>
          row[j].status \notin InFlight \union Past /\ "queued" \notin InFlight
    BY <2>1 DEF TransitionAllowed, Holds, InFlight, Past, Terminal
  <2>3. TransitionAllowed(row[j].status, "queued")
          /\ row'[j].status = "queued" /\ row'[j].owner = row[j].owner => UiWrote(r, j)
    BY <2>2 DEF UiWrote
  <2> QED BY <1>m, <1>u, <2>1, <2>3
<1>6. CASE Freeze(r)
  <2>1. rq[r].job \in Job  BY <1>0, <1>6 DEF Freeze, On
  <2>2. CASE ~UNCHANGED row
    <3>1. PICK t \in {"cancelled", "interrupted"} :
            row' = MovedR(rq[r].job, t, TRUE) /\ ~TrackedUp(rq[r].seen, rq[r].job)
      BY <1>6, <2>2 DEF Freeze
    <3>2. TransitionAllowed(row[rq[r].job].status, t)
            /\ row'[rq[r].job].status = t /\ row'[rq[r].job].owner = row[rq[r].job].owner
            => UiWrote(r, rq[r].job)
      BY <1>6, <3>1 DEF UiWrote
    <3> QED BY <1>m, <2>1, <3>1, <3>2
  <2> QED BY <1>u, <2>2
<1>7. ASSUME NEW j \in Job, NEW c, row' = [row EXCEPT ![j] = c], c.status = row[j].status,
             c.owner = row[j].owner
      PROVE  \A k \in Job : UiWrote(r, k)
  BY <1>0, <1>7, <1>j, WriteRow DEF UiWrote
<1>8. CASE PersistPayload(r)
  <2>1. rq[r].job \in Job  BY <1>0, <1>8 DEF PersistPayload, On
  <2> DEFINE c == [row[rq[r].job] EXCEPT !.payload = TRUE, !.sel = CarriedOver(r)]
  <2>2. c.status = row[rq[r].job].status /\ c.owner = row[rq[r].job].owner
    BY <1>0, <2>1 DEF RowsOK, RowType
  <2>3. row' = [row EXCEPT ![rq[r].job] = c]  BY <1>8 DEF PersistPayload
  <2> HIDE DEF c
  <2> QED BY <1>7, <2>1, <2>2, <2>3
<1>9. CASE FlagCancel(r)
  <2>1. rq[r].job \in Job  BY <1>0, <1>9 DEF FlagCancel, On
  <2> DEFINE c == [row[rq[r].job] EXCEPT !.cancel = TRUE]
  <2>2. c.status = row[rq[r].job].status /\ c.owner = row[rq[r].job].owner
    BY <1>0, <2>1 DEF RowsOK, RowType
  <2>3. row' = [row EXCEPT ![rq[r].job] = c] \/ UNCHANGED row  BY <1>9 DEF FlagCancel
  <2> HIDE DEF c
  <2> QED BY <1>7, <1>u, <2>1, <2>2, <2>3
<1>10. CASE ConfirmPages(r) \/ Dismiss(r)
  <2>1. PICK j \in Job : \/ row' = [row EXCEPT ![j].sel = TRUE]
                         \/ row' = [row EXCEPT ![j] = [@ EXCEPT !.recov = FALSE]]
    BY <1>10 DEF ConfirmPages, Dismiss
  <2> DEFINE c == [row[j] EXCEPT !.sel = TRUE]
             d == [row[j] EXCEPT !.recov = FALSE]
  <2>2. /\ c.status = row[j].status /\ c.owner = row[j].owner
        /\ d.status = row[j].status /\ d.owner = row[j].owner
    BY <1>0 DEF RowsOK, RowType
  <2>3. row' = [row EXCEPT ![j] = c] \/ row' = [row EXCEPT ![j] = d]  BY <2>1
  <2> HIDE DEF c, d
  <2> QED BY <1>7, <2>2, <2>3
<1>11. CASE ResolveReady(r)
  <2>1. PICK j \in Job :
          /\ row[j].status = "source_analysis_ready"
          /\ row' = [row EXCEPT ![j] = [@ EXCEPT !.status = "queued", !.auth = TRUE]]
    BY <1>11 DEF ResolveReady, Resolvable
  <2> DEFINE c == [row[j] EXCEPT !.status = "queued", !.auth = TRUE]
  <2>2. c.status = "queued" /\ c.owner = row[j].owner  BY <1>0 DEF RowsOK, RowType
  <2>3. row' = [row EXCEPT ![j] = c]  BY <2>1
  <2> HIDE DEF c
  <2>4. row'[j] = c /\ Others(j)  BY <1>0, <2>3, WriteRow
  <2>5. row[j].status \notin InFlight \union Past /\ "queued" \notin InFlight
    BY <2>1 DEF InFlight, Past, Terminal
  <2>6. UiWrote(r, j)  BY <2>2, <2>4, <2>5 DEF UiWrote
  <2> QED BY <1>j, <2>4, <2>6
<1>12. CASE CompleteReview(r)
  <2>1. PICK j \in Job :
          /\ row[j].status = "review_required"
          /\ row' = [row EXCEPT ![j] = [@ EXCEPT !.status = "finished", !.owner = NoWorker,
                                           !.rw = NoWorker, !.top = TRUE, !.cancel = FALSE]]
    BY <1>12 DEF CompleteReview
  <2> DEFINE c == [row[j] EXCEPT !.status = "finished", !.owner = NoWorker,
                                 !.rw = NoWorker, !.top = TRUE, !.cancel = FALSE]
  <2>2. c.status = "finished" /\ c.owner = NoWorker  BY <1>0 DEF RowsOK, RowType
  <2>3. row' = [row EXCEPT ![j] = c]  BY <2>1
  <2> HIDE DEF c
  <2>4. row'[j] = c /\ Others(j)  BY <1>0, <2>3, WriteRow
  <2>5. UiWrote(r, j)  BY <2>1, <2>2, <2>4 DEF UiWrote
  <2> QED BY <1>j, <2>4, <2>5
<1>13. CASE Insert(r) \/ CreateResumed(r)
  <2> DEFINE first(k) == NewRow(rq[r].seen.chap, NoJob, k, FALSE)
             again == NewRow(rq[r].seen.chap, rq[r].job, rq[r].seen.root, rq[r].seen.auth)
  <2>1. \/ UNCHANGED row
        \/ \E k \in Job :
             /\ NextRow(k)
             /\ (row' = [row EXCEPT ![k] = first(k)]) \/ (row' = [row EXCEPT ![k] = again])
    BY <1>13 DEF Insert, CreateResumed, Attempt
  <2>2. ASSUME NEW k \in Job, NextRow(k), NEW c, row' = [row EXCEPT ![k] = c],
               c.status = "queued", c.owner = NoWorker
        PROVE  \A i \in Job : UiWrote(r, i)
    <3>1. row'[k] = c /\ Others(k)  BY <1>0, <2>2, WriteRow
    <3>2. row[k].status \notin InFlight \union Past /\ "queued" \notin InFlight
      BY <2>2 DEF NextRow, InFlight, Past, Terminal
    <3>3. UiWrote(r, k)  BY <2>2, <3>1, <3>2 DEF UiWrote
    <3> QED BY <1>j, <3>1, <3>3
  <2>3. /\ again.status = "queued" /\ again.owner = NoWorker
        /\ \A k \in Job : first(k).status = "queued" /\ first(k).owner = NoWorker
    BY DEF NewRow, NoRow
  <2> HIDE DEF first, again
  <2>4. ASSUME NEW k \in Job, NextRow(k),
               (row' = [row EXCEPT ![k] = first(k)]) \/ (row' = [row EXCEPT ![k] = again])
        PROVE  \A i \in Job : UiWrote(r, i)
    BY <2>2, <2>3, <2>4, Zenon
  <2> QED BY <1>u, <2>1, <2>4
<1> QED BY <1>1, <1>2, <1>3, <1>4, <1>5, <1>6, <1>8, <1>9, <1>10, <1>11, <1>12, <1>13
        DEF UiStep, UiContinues

\* A worker that works is registered and keeps its lease.
LEMMA LeaseStep ==
  ASSUME "stale_lease" \notin Faults
  PROVE  TypeOK /\ LeaseInv /\ [Next]_vars => LeaseInv'
<1> SUFFICES ASSUME TypeOK, LeaseInv, [Next]_vars PROVE LeaseInv'  OBVIOUS
<1>1. CASE UNCHANGED <<lease, wk>>  BY <1>1 DEF LeaseInv
<1>2. ASSUME NEW w \in Worker, WorkerStep(w) \/ WorkerEvent(w) PROVE LeaseInv'
  BY <1>2, WorkerGoes DEF LeaseInv
<1> QED BY <1>1, <1>2 DEF Next, RunnerMoves, UiStep, vars

\* OwnerInv is inductive: only a worker that has registered claims or takes over a row,
\* and no step leaves a row in flight without an owner.
LEMMA OwnerStep ==
  ASSUME NoStrayRunner
  PROVE  TypeOK /\ OwnInv /\ PipeInv /\ LateInv /\ OwnerInv /\ [Next]_vars => OwnerInv'
<1> SUFFICES ASSUME TypeOK, OwnInv, PipeInv, LateInv, OwnerInv, [Next]_vars PROVE OwnerInv'
  OBVIOUS
<1>w. NoWorker \notin Worker  BY QueueAssumption
<1>1. CASE UNCHANGED <<row, wk>>  BY <1>1 DEF OwnerInv
<1>2. ASSUME NEW v \in Worker, WorkerStep(v) \/ WorkerEvent(v), NEW j \in Job
      PROVE  /\ \A w \in Worker : row'[j].owner = w => wk'[w].pc \notin Unborn
             /\ row'[j].status \in InFlight => row'[j].owner # NoWorker
  <2>1. WorkerWrote(v, j)  BY <1>2, WorkerWrites
  <2>2. \A w \in Worker : wk'[w].pc \in Unborn => wk[w].pc \in Unborn  BY <1>2, WorkerGoes
  <2>3. \A t : TransitionAllowed(row[j].status, t) /\ t = "cancelling" =>
          row[j].status \in InFlight
    BY DEF TransitionAllowed, InFlight, Holds
  <2>4. At(v, "claim") => wk[v].pc \notin Unborn  BY DEF At, Unborn
  <2>5. "interrupted" \notin InFlight /\ "cancelled" \notin InFlight  BY DEF InFlight
  <2> QED BY <1>w, <2>1, <2>2, <2>3, <2>4, <2>5 DEF WorkerWrote, OwnerInv
<1>3. ASSUME NEW v \in Worker, NEW i \in Job, RunnerMoves(v, i), NEW j \in Job
      PROVE  /\ \A w \in Worker : row'[j].owner = w => wk'[w].pc \notin Unborn
             /\ row'[j].status \in InFlight => row'[j].owner # NoWorker
  <2>1. UNCHANGED wk  BY <1>3 DEF RunnerMoves
  <2>2. CASE j # i
    <3>1. row'[j] = row[j]  BY <1>3, <2>2, RunnerWrites DEF Others
    <3> QED BY <2>1, <3>1 DEF OwnerInv
  <2>3. CASE j = i
    <3>1. row'[j].owner = row[j].owner /\ run[v][j].st # "none"  BY <1>3, <2>3, RunnerWrites
    <3>2. row[j].owner = v  BY <3>1 DEF OwnInv, RunInv, RunOK
    <3> QED BY <1>w, <2>1, <3>1, <3>2 DEF OwnerInv
  <2> QED BY <2>2, <2>3
<1>4. ASSUME NEW r \in Request, UiStep(r), NEW j \in Job
      PROVE  /\ \A w \in Worker : row'[j].owner = w => wk'[w].pc \notin Unborn
             /\ row'[j].status \in InFlight => row'[j].owner # NoWorker
  <2>1. UNCHANGED wk /\ UiWrote(r, j)  BY <1>4, UiWrites DEF UiStep
  <2>2. {"resumable", "cancelled", "interrupted", "finished"} \intersect InFlight = {}
    BY DEF InFlight
  <2> QED BY <1>w, <2>1, <2>2 DEF UiWrote, OwnerInv
<1>5. CASE \A j \in Job :
             /\ \A w \in Worker : row'[j].owner = w => wk'[w].pc \notin Unborn
             /\ row'[j].status \in InFlight => row'[j].owner # NoWorker
  BY <1>5 DEF OwnerInv
<1> QED BY <1>1, <1>2, <1>3, <1>4, <1>5 DEF Next, vars

\* The row of a worker that is gone is written by recoveries only, and stays its row.
LEMMA DesertedStays ==
  ASSUME NoStrayRunner, TypeOK, OwnInv, PipeInv, LateInv, [Next]_vars, NEW j \in Job, Deserted(j)
  PROVE  Deserted(j)'
<1>w. NoWorker \notin Worker  BY QueueAssumption
<1>0. StatusStep  BY NextStatusStep
<1>f. ASSUME row[j].status = "finished" PROVE row'[j].status = "finished"
  <2>1. row'[j].status = row[j].status \/ Promised(row[j].status, row'[j].status)
    BY <1>0 DEF StatusStep
  <2> QED BY <1>f, <2>1, PromisedFinal DEF Terminal
<1>g. \A w \in Worker : wk[w].pc \in Gone => wk'[w].pc \in Gone
  <2>1. CASE UNCHANGED wk  BY <2>1
  <2>2. ASSUME NEW v \in Worker, WorkerStep(v) \/ WorkerEvent(v), NEW w \in Worker, wk[w].pc \in Gone
        PROVE  wk'[w].pc \in Gone
    BY <2>2, WorkerGoes
  <2> QED BY <2>1, <2>2 DEF Next, RunnerMoves, UiStep, vars
<1>1. ASSUME row'[j].owner = row[j].owner, row'[j].status \in InFlight \union Past
      PROVE  Deserted(j)'
  BY <1>f, <1>g, <1>1 DEF Deserted
<1>2. CASE UNCHANGED row  BY <1>1, <1>2 DEF Deserted
<1>3. ASSUME NEW v \in Worker, WorkerStep(v) \/ WorkerEvent(v) PROVE Deserted(j)'
  <2>1. WorkerWrote(v, j)  BY <1>3, WorkerWrites
  <2>2. row[j].status # "queued"  BY DEF Deserted, InFlight, Past, Terminal
  <2>3. row[j].owner = v => wk[v].pc \notin Busy
    BY <1>w DEF Deserted, Gone, Busy, Supervising
  <2>4. {"cancelling", "interrupted", "cancelled"} \subseteq InFlight \union Past
    BY DEF InFlight, Past, Terminal
  <2> QED BY <1>1, <2>1, <2>2, <2>3, <2>4 DEF WorkerWrote, Deserted
<1>4. ASSUME NEW v \in Worker, NEW i \in Job, RunnerMoves(v, i) PROVE Deserted(j)'
  <2>1. row'[j] = row[j] \/ (row'[j].owner = row[j].owner /\ row'[j].status \in InFlight \union Past)
    BY <1>4, RunnerWrites DEF Others, Deserted
  <2> QED BY <1>1, <2>1 DEF Deserted
<1>5. ASSUME NEW r \in Request, UiStep(r) PROVE Deserted(j)'
  <2>1. UiWrote(r, j)  BY <1>5, UiWrites
  <2>2. {"cancelling", "resumable", "cancelled", "interrupted", "finished"}
          \subseteq InFlight \union Past
    BY DEF InFlight, Past, Terminal
  <2>3. row'[j].status = "finished" /\ row'[j].owner = NoWorker => Deserted(j)'
    BY <2>2 DEF Deserted
  <2> QED BY <1>1, <2>1, <2>2, <2>3 DEF UiWrote, Deserted
<1> QED BY <1>2, <1>3, <1>4, <1>5 DEF Next, vars

\* No new runner of a deserted row is recorded.
LEMMA ProbesStay ==
  ASSUME NoStrayRunner, TypeOK, GateInv, OwnInv, PipeInv, [Next]_vars, NEW o, o.job \in Job,
         Deserted(o.job), Probes(o)
  PROVE  \A w \in Worker :
           run'[w][o.job].st # "none" /\ run'[w][o.job].known => o.phase = "probe" /\ o.rw = w
<1> SUFFICES ASSUME NEW w \in Worker, run'[w][o.job].st # "none", run'[w][o.job].known
             PROVE  run[w][o.job].st # "none" /\ run[w][o.job].known
  BY DEF Probes
<1>1. CASE UNCHANGED run  BY <1>1
<1>2. ASSUME NEW v \in Worker, WorkerStep(v) \/ WorkerEvent(v)
      PROVE  run[w][o.job].st # "none" /\ run[w][o.job].known
  <2>1. ~(At(v, "persist") /\ o.job = Mine(v))
    <3> SUFFICES ASSUME At(v, "persist"), o.job = Mine(v) PROVE FALSE  OBVIOUS
    <3>1. row[o.job].owner = v /\ wk[v].pc \notin Gone
      BY DEF OwnInv, HoldInv, HoldOK, Held, Early, At, Gone
    <3> QED BY <3>1, QueueAssumption DEF Deserted
  <2> QED BY <1>2, <2>1, WorkerRuns
<1>3. ASSUME NEW v \in Worker, NEW i \in Job, RunnerMoves(v, i)
      PROVE  run[w][o.job].st # "none" /\ run[w][o.job].known
  BY <1>3, RunnerRuns, RunnerWrites
<1> QED BY <1>1, <1>2, <1>3 DEF Next, UiStep, vars

\* What a worker that recovers still has to do comes from its scan, or from what it had
\* to do: an orphan is probed before anything else is done to it.
LEMMA WorkerTodo ==
  ASSUME TypeOK, NEW w \in Worker, WorkerStep(w) \/ WorkerEvent(w), NEW o \in todo'[w]
  PROVE  \/ o \in todo[w]
         \/ UNCHANGED run /\ \E k \in Job : Orphaned(w, k) /\ o = Orphan(k)
         \/ \E p \in todo[w] :
              /\ o.job = p.job /\ o.rw = p.rw
              /\ \/ p.phase # "probe"
                 \/ run' = IF TrackedUp(p, p.job) THEN Killed(p.rw, p.job) ELSE run
<1>0. TodoOK  BY TypeParts
<1>1. CASE UNCHANGED todo  BY <1>1
<1>2. CASE ScanOrphans(w)
  BY <1>0, <1>2 DEF ScanOrphans, TodoOK
<1>3. CASE WorkerCrash(w)
  BY <1>0, <1>3 DEF WorkerCrash, TodoOK
<1>4. ASSUME NEW p \in todo[w], NEW t \in {"settle", "cancel", "close"}, Advance(w, p, t),
             \/ p.phase # "probe"
             \/ run' = IF TrackedUp(p, p.job) THEN Killed(p.rw, p.job) ELSE run
      PROVE  \/ o \in todo[w]
             \/ \E q \in todo[w] :
                  /\ o.job = q.job /\ o.rw = q.rw
                  /\ \/ q.phase # "probe"
                     \/ run' = IF TrackedUp(q, q.job) THEN Killed(q.rw, q.job) ELSE run
  <2> DEFINE q == [p EXCEPT !.phase = t]
  <2>1. p \in OrphanType  BY <1>0, TodoUpdate
  <2>2. q.job = p.job /\ q.rw = p.rw  BY <2>1 DEF OrphanType
  <2>3. todo'[w] = (todo[w] \ {p}) \union {q}  BY <1>0, <1>4 DEF Advance, TodoOK
  <2> HIDE DEF q
  <2> QED BY <1>4, <2>2, <2>3
<1>5. ASSUME NEW p \in todo[w], Drop(w, p) PROVE o \in todo[w]
  BY <1>0, <1>5 DEF Drop, TodoOK
<1>6. CASE OrphanProbe(w)
  BY <1>4, <1>6 DEF OrphanProbe
<1>7. CASE OrphanSettle(w) \/ OrphanCancel(w) \/ OrphanClose(w) \/ OrphanSurvives(w)
  <2>1. PICK p \in todo[w] :
          \/ Drop(w, p)
          \/ p.phase # "probe" /\ \E t \in {"settle", "cancel", "close"} : Advance(w, p, t)
    BY <1>7 DEF OrphanSettle, OrphanCancel, OrphanClose, OrphanSurvives, Reconciles
  <2> QED BY <1>4, <1>5, <2>1
<1> QED
  BY <1>1, <1>2, <1>3, <1>6, <1>7
  DEF WorkerStep, WorkerEvent, StartWorker, WorkerCheck, Register, Heartbeat, LeaseExpires,
      RequestStop, WorkerStops, OrphansDone, Claim, Claimed, NothingQueued, Prepare,
      AnalysisFails, AnalysisCancelled, FailCancelled, AnalysisDone, Apply, Decide, FailSource,
      Handoff, SpawnRunner, PersistRunner, PersistFails, OpenGate, WatchStops, KillRunner,
      SettleStopped, CloseStopped, RunnerExited, ExitReconcile, ExitCancelled

\* With leases that only a death or an end takes away, an orphan is a deserted row.
LEMMA OrphanIsDeserted ==
  ASSUME TypeOK, OwnInv, LeaseInv, OwnerInv, NEW w \in Worker, NEW k \in Job, Orphaned(w, k)
  PROVE  /\ Orphan(k).job = k /\ Deserted(k) /\ Probes(Orphan(k))
<1>0. Orphan(k).job = k /\ Orphan(k).rw = row[k].rw /\ Orphan(k).phase = "probe"  BY DEF Orphan
<1>1. row[k].owner \in Worker \union {NoWorker}  BY TypeParts DEF RowsOK, RowType
<1>2. row[k].status \in InFlight /\ row[k].owner \in Worker
  BY <1>1 DEF Orphaned, OwnerInv
<1>3. lease[row[k].owner] # "fresh" \/ ~WorkerUp(row[k].owner)
  BY <1>2, QueueAssumption DEF Orphaned
<1>4. wk[row[k].owner].pc \in Gone
  BY <1>2, <1>3 DEF LeaseInv, OwnerInv, WorkerUp, Down, Unborn, Gone
<1>5. \A v \in Worker : run[v][k].st # "none" /\ run[v][k].known => row[k].rw = v
  BY DEF OwnInv, RunInv, RunOK
<1> QED BY <1>0, <1>2, <1>4, <1>5 DEF Deserted, Probes

\* What is probed is gone: its runner, if it was recorded, was the one the row names.
LEMMA ProbedIsGone ==
  ASSUME TypeOK, PipeInv, NEW o \in OrphanType, Probes(o),
         run' = IF TrackedUp(o, o.job) THEN Killed(o.rw, o.job) ELSE run,
         NEW w \in Worker
  PROVE  ~(run'[w][o.job].st # "none" /\ run'[w][o.job].known)
<1> SUFFICES ASSUME run'[w][o.job].st # "none", run'[w][o.job].known PROVE FALSE  OBVIOUS
<1>0. RunnersOK /\ o.job \in Job /\ o.rw \in Worker \union {NoWorker}
  BY TypeParts DEF OrphanType
<1>1. CASE TrackedUp(o, o.job)
  <2>1. o.rw \in Worker  BY <1>0, <1>1 DEF TrackedUp
  <2>2. run'[o.rw][o.job].st = "none" /\ run'[w][o.job] = run[w][o.job]
    BY <1>0, <1>1, <2>1, KilledBecomes
  <2> QED BY <2>2 DEF Probes
<1>2. CASE ~TrackedUp(o, o.job)
  <2>1. run[w][o.job].st # "none" /\ run[w][o.job].known /\ o.rw = w
    BY <1>2 DEF Probes
  <2>2. ~run[w][o.job].skew  BY <1>0 DEF PipeInv, Sound
  <2> QED BY <1>2, <2>1, <2>2, QueueAssumption DEF TrackedUp, RunnerUp
<1> QED BY <1>1, <1>2

\* TodoInv is inductive as long as only a death or an end takes a lease away: what a
\* worker has to recover stays deserted, and is probed before it is written.
LEMMA TodoStep ==
  ASSUME NoStrayRunner
  PROVE  TypeOK /\ GateInv /\ OwnInv /\ PipeInv /\ LateInv /\ LeaseInv /\ OwnerInv /\ TodoInv
           /\ [Next]_vars => TodoInv'
<1> SUFFICES ASSUME TypeOK, GateInv, OwnInv, PipeInv, LateInv, LeaseInv, OwnerInv, TodoInv,
                    [Next]_vars, NEW v \in Worker, NEW o \in todo'[v]
             PROVE  /\ Deserted(o.job)'
                    /\ \A w \in Worker :
                         run'[w][o.job].st # "none" /\ run'[w][o.job].known =>
                           o.phase = "probe" /\ o.rw = w
  BY DEF TodoInv, Probes
<1>0. TodoOK  BY TypeParts
<1>1. ASSUME NEW p, p.job \in Job, Deserted(p.job), Probes(p)
      PROVE  /\ Deserted(p.job)'
             /\ \A w \in Worker :
                  run'[w][p.job].st # "none" /\ run'[w][p.job].known =>
                    p.phase = "probe" /\ p.rw = w
  BY <1>1, DesertedStays, ProbesStay
<1>2. CASE o \in todo[v]
  <2>1. o.job \in Job  BY <1>0, <1>2 DEF TodoOK, OrphanType
  <2> QED BY <1>1, <1>2, <2>1 DEF TodoInv
<1>3. ASSUME NEW k \in Job, Orphaned(v, k), o = Orphan(k)
      PROVE  /\ Deserted(o.job)'
             /\ \A w \in Worker :
                  run'[w][o.job].st # "none" /\ run'[w][o.job].known =>
                    o.phase = "probe" /\ o.rw = w
  <2>1. o.job = k /\ Deserted(k) /\ Probes(o)  BY <1>3, OrphanIsDeserted
  <2> QED BY <1>1, <2>1
<1>4. ASSUME NEW p \in todo[v], o.job = p.job, o.rw = p.rw,
             \/ p.phase # "probe"
             \/ run' = IF TrackedUp(p, p.job) THEN Killed(p.rw, p.job) ELSE run
      PROVE  /\ Deserted(o.job)'
             /\ \A w \in Worker :
                  run'[w][o.job].st # "none" /\ run'[w][o.job].known =>
                    o.phase = "probe" /\ o.rw = w
  <2>1. p \in OrphanType /\ p.job \in Job  BY <1>0 DEF TodoOK, OrphanType
  <2>2. Deserted(p.job) /\ Probes(p)  BY DEF TodoInv
  <2>3. /\ Deserted(p.job)'
        /\ \A w \in Worker :
             run'[w][p.job].st # "none" /\ run'[w][p.job].known => p.phase = "probe" /\ p.rw = w
    BY <1>1, <2>1, <2>2
  <2>4. ASSUME NEW w \in Worker PROVE ~(run'[w][p.job].st # "none" /\ run'[w][p.job].known)
    <3>1. CASE p.phase # "probe"  BY <2>3, <3>1
    <3>2. CASE run' = IF TrackedUp(p, p.job) THEN Killed(p.rw, p.job) ELSE run
      BY <2>1, <2>2, <3>2, ProbedIsGone
    <3> QED BY <1>4, <3>1, <3>2
  <2> QED BY <1>4, <2>3, <2>4
<1>5. CASE UNCHANGED todo  BY <1>2, <1>5
<1>6. ASSUME NEW w \in Worker, WorkerStep(w) \/ WorkerEvent(w)
      PROVE  /\ Deserted(o.job)'
             /\ \A u \in Worker :
                  run'[u][o.job].st # "none" /\ run'[u][o.job].known =>
                    o.phase = "probe" /\ o.rw = u
  <2>1. CASE v # w
    <3>1. todo'[v] = todo[v]  BY <1>6, <2>1, WorkerGoes
    <3> QED BY <1>2, <3>1
  <2>2. CASE v = w
    <3>1. \/ o \in todo[w]
          \/ UNCHANGED run /\ \E k \in Job : Orphaned(w, k) /\ o = Orphan(k)
          \/ \E p \in todo[w] :
               /\ o.job = p.job /\ o.rw = p.rw
               /\ \/ p.phase # "probe"
                  \/ run' = IF TrackedUp(p, p.job) THEN Killed(p.rw, p.job) ELSE run
      BY <1>6, <2>2, WorkerTodo
    <3> QED BY <1>2, <1>3, <1>4, <2>2, <3>1
  <2> QED BY <2>1, <2>2
<1> QED BY <1>5, <1>6 DEF Next, RunnerMoves, UiStep, vars

\* A request comes to cancel the row of a worker while it is in flight, and flags it first.
LEMMA CancelTurns ==
  ASSUME TypeOK, NEW r \in Request, UiStep(r), NEW q \in Request,
         rq'[q].pc \in Cancels \union {"flag"}
  PROVE  \/ rq'[q] = rq[q]
         \/ /\ rq'[q].job \in Job /\ UNCHANGED row /\ row[rq'[q].job].status \in InFlight
            /\ rq'[q].pc = "flag"
         \/ /\ rq'[q].job = rq[q].job
            /\ rq[q].pc \in Cancels \/ (q = r /\ On(q, "flag") /\ FlagCancel(q))
<1>0. RequestsOK  BY TypeParts
<1> DEFINE NoCancel == {"insert", "payload", "mark", "create", "cancelled", "reconcile",
                        "requeue"}
<1>1. CASE Cancel(r)
  <2>1. PICK j \in Job : row[j].status \in InFlight /\ Asks(r, "flag", j, row[j]) /\ UNCHANGED row
    BY <1>1 DEF Cancel
  <2>2. /\ rq'[r] = [pc |-> "flag", job |-> j, seen |-> row[j]]
        /\ \A p \in Request \ {r} : rq'[p] = rq[p]
    BY <1>0, <2>1, RequestTurns
  <2>3. rq'[r].pc = "flag" /\ rq'[r].job = j  BY <2>2
  <2> QED BY <2>1, <2>2, <2>3
<1>2. ASSUME Answers(r) \/ \E pc \in NoCancel :
               (\E j, seen : Asks(r, pc, j, seen)) \/ Next1(r, pc)
      PROVE  rq'[q] = rq[q]
  <2>1. CASE Answers(r)
    <3>1. rq'[r].pc = "idle" /\ \A p \in Request \ {r} : rq'[p] = rq[p]
      BY <1>0, <2>1, RequestTurns
    <3> QED BY <3>1 DEF Cancels
  <2>2. ASSUME NEW pc \in NoCancel,
               (\E j, seen : Asks(r, pc, j, seen)) \/ Next1(r, pc)
        PROVE  rq'[q] = rq[q]
    <3>1. rq'[r].pc = pc /\ \A p \in Request \ {r} : rq'[p] = rq[p]
      <4>1. CASE Next1(r, pc)  BY <1>0, <4>1, RequestTurns
      <4>2. ASSUME NEW j, NEW seen, Asks(r, pc, j, seen)
            PROVE  rq'[r].pc = pc /\ \A p \in Request \ {r} : rq'[p] = rq[p]
        <5>1. /\ rq'[r] = [pc |-> pc, job |-> j, seen |-> seen]
              /\ \A p \in Request \ {r} : rq'[p] = rq[p]
          BY <1>0, <4>2, RequestTurns
        <5> QED BY <5>1
      <4> QED BY <2>2, <4>1, <4>2
    <3> QED BY <3>1 DEF Cancels
  <2> QED BY <1>2, <2>1, <2>2
<1>3. CASE FlagCancel(r) \/ ProbeRunner(r) \/ SettleCancel(r)
  <2>1. \/ Answers(r) \/ Next1(r, "cancelled")
        \/ /\ \E pc \in Cancels : Next1(r, pc)
           /\ rq[r].pc \in Cancels \/ (On(r, "flag") /\ FlagCancel(r))
    BY <1>3 DEF FlagCancel, ProbeRunner, SettleCancel, Cancels, On
  <2>2. CASE Answers(r) \/ Next1(r, "cancelled")  BY <1>2, <2>2
  <2>3. ASSUME NEW pc \in Cancels, Next1(r, pc)
        PROVE  rq'[r].job = rq[r].job /\ \A p \in Request \ {r} : rq'[p] = rq[p]
    BY <1>0, <2>3, RequestTurns
  <2> QED BY <2>1, <2>2, <2>3
<1>4. CASE \/ Submit(r) \/ Insert(r) \/ Resume(r) \/ MarkResumable(r) \/ Reconcile(r)
           \/ CancelHeld(r) \/ ConfirmPages(r) \/ VerifySource(r) \/ AuthorizeDownload(r)
           \/ CreateResumed(r)
  <2>1. Answers(r) \/ \E pc \in NoCancel :
          (\E j, seen : Asks(r, pc, j, seen)) \/ Next1(r, pc)
    <3>1. CASE CreateResumed(r)  BY <3>1 DEF CreateResumed
    <3>2. CASE Resume(r)
      <4>1. PICK j \in Job :
              Asks(r, IF row[j].status = "interrupted" THEN "mark" ELSE "create", j, row[j])
        BY <3>2 DEF Resume
      <4>2. Asks(r, "mark", j, row[j]) \/ Asks(r, "create", j, row[j])  BY <4>1
      <4> QED BY <4>2
    <3>3. CASE \/ Submit(r) \/ Insert(r) \/ MarkResumable(r) \/ Reconcile(r) \/ CancelHeld(r)
               \/ ConfirmPages(r) \/ VerifySource(r) \/ AuthorizeDownload(r)
      BY <3>3 DEF Submit, Insert, MarkResumable, Reconcile, CancelHeld, ConfirmPages,
         VerifySource, AuthorizeDownload
    <3> QED BY <1>4, <3>1, <3>2, <3>3
  <2> QED BY <1>2, <2>1
<1>5. CASE \/ MarkCancelling(r) \/ SettleCancelled(r) \/ Freeze(r) \/ Requeue(r)
           \/ PersistPayload(r) \/ UiRestart(r)
  BY <1>2, <1>5 DEF MarkCancelling, SettleCancelled, Freeze, Requeue, PersistPayload, UiRestart
<1>6. CASE ResolveReady(r) \/ Dismiss(r) \/ CompleteReview(r)
  BY <1>6 DEF ResolveReady, Dismiss, CompleteReview
<1> QED BY <1>1, <1>3, <1>4, <1>5, <1>6 DEF UiStep, UiContinues

\* CancelInv is inductive: the cancellation of a row in flight flags it before it probes,
\* stops or settles anything, and the flag stays until the row is settled.
LEMMA CancelStep == TypeOK /\ CancelInv /\ [Next]_vars => CancelInv'
<1> SUFFICES ASSUME TypeOK, CancelInv, [Next]_vars,
                    NEW q \in Request, rq'[q].pc \in Cancels \union {"flag"},
                    NEW j, j = rq'[q].job
             PROVE  /\ row'[j].status # "absent"
                    /\ rq'[q].pc \in Cancels => row'[j].cancel \/ row'[j].status \in Terminal
  BY DEF CancelInv
<1>0. RowsOK /\ RequestsOK /\ StatusStep  BY TypeParts, NextStatusStep
<1>1. ASSUME j \in Job, row[j].status # "absent", row[j].cancel \/ row[j].status \in Terminal
      PROVE  row'[j].status # "absent" /\ (row'[j].cancel \/ row'[j].status \in Terminal)
  BY <1>1, RowStays DEF Terminal, Retains
<1>2. ASSUME j \in Job, row[j].status # "absent" PROVE row'[j].status # "absent"
  BY <1>2, RowStays
<1>3. CASE rq'[q] = rq[q]
  <2>1. j \in Job  BY <1>0, <1>3 DEF RequestsOK, Cancels
  <2> QED BY <1>1, <1>2, <1>3, <2>1 DEF CancelInv
<1>4. ASSUME NEW r \in Request, UiStep(r)
      PROVE  /\ row'[j].status # "absent"
             /\ rq'[q].pc \in Cancels => row'[j].cancel \/ row'[j].status \in Terminal
  <2>1. CASE /\ j \in Job /\ UNCHANGED row /\ row[j].status \in InFlight /\ rq'[q].pc = "flag"
    BY <2>1 DEF InFlight, Cancels
  <2>2. CASE j = rq[q].job /\ rq[q].pc \in Cancels
    <3>1. j \in Job  BY <1>0, <2>2 DEF RequestsOK, Cancels
    <3> QED BY <1>1, <2>2, <3>1 DEF CancelInv
  <2>3. CASE j = rq[q].job /\ On(q, "flag") /\ FlagCancel(q)
    <3>1. j \in Job /\ row[j].status # "absent"
      BY <1>0, <2>3 DEF RequestsOK, On, CancelInv
    <3> DEFINE c == [row[j] EXCEPT !.cancel = TRUE]
    <3>2. c.cancel /\ c.status = row[j].status  BY <1>0, <3>1 DEF RowsOK, RowType
    <3>3. (row[j].status \in Terminal /\ UNCHANGED row) \/ row' = [row EXCEPT ![j] = c]
      BY <2>3 DEF FlagCancel
    <3> HIDE DEF c
    <3>4. CASE row' = [row EXCEPT ![j] = c]
      <4>1. row'[j] = c  BY <1>0, <3>1, <3>4, WriteRow
      <4> QED BY <3>1, <3>2, <4>1
    <3> QED BY <3>1, <3>3, <3>4
  <2> QED BY <1>3, <1>4, <2>1, <2>2, <2>3, CancelTurns
<1> QED BY <1>3, <1>4, WorkerKeepsRequests DEF Next, RunnerMoves, vars

(***************************************************************************)
(* No row in flight is forgotten.  None of the hypotheses above is needed: *)
(* what a worker does to a row that other workers, stray runners and late  *)
(* requests also write still accounts for it.                              *)
(***************************************************************************)

\* A row whose cancellation was asked for, or that is over.
Flagged(j) == row[j].status # "absent" /\ (row[j].cancel \/ row[j].status \in Terminal)

\* A row that is being cancelled was flagged before, and whoever is about to cancel one
\* has seen the flag: the recovery in its snapshot, the worker at the exit of its runner,
\* the runner when it started.
CancellingInv == \A j \in Job : row[j].status = "cancelling" => row[j].cancel
SnapshotInv ==
  \A w \in Worker : \A o \in todo[w] :
    /\ row[o.job].status # "absent"
    /\ o.cancel => Flagged(o.job)
    /\ o.phase = "cancel" => o.cancel
ExitInv == \A w \in Worker : At(w, "exit") /\ wk[w].seenCancel => Flagged(Mine(w))
BootInv == \A w \in Worker, j \in Job : run[w][j].st = "cancel" => Flagged(j)

FlagInv == CancelInv /\ CancellingInv /\ SnapshotInv /\ ExitInv /\ BootInv

\* A runner that is past its gate, or finds it open.
Loose(c) == c.st # "none" /\ (c.st = "gate" => c.gate)

\* Such a runner is watched by its worker, unless the worker has died.
WatchInv ==
  \A w \in Worker, j \in Job :
    Loose(run[w][j]) => At(w, "dead") \/ (Mine(w) = j /\ wk[w].pc \in Late)

\* Program counters before a runner is started, and all at which a worker answers for
\* its row.
Young == {"claimed", "prepare", "analyse", "apply", "decide"}
Attending == Busy \ {"handoff", "failcancel", "exit2", "close", "haltclose"}

\* The owner of row j answers for it, or is gone; before it has a runner the row is as
\* it was claimed.
Attended(j) ==
  LET w == row[j].owner IN
    \/ wk[w].pc \in Gone
    \/ Mine(w) = j /\ wk[w].pc \in Attending /\ (wk[w].pc \in Young => row[j].status = "claiming")

AttendInv ==
  \A j \in Job : row[j].status \in InFlight =>
    row[j].owner \in Worker /\ (row[j].cancel \/ Attended(j))

\* In the empty queue there is nothing to cancel, to watch or to attend to.
LEMMA AttendInit == Init => FlagInv /\ WatchInv /\ AttendInv
<1> SUFFICES ASSUME Init PROVE FlagInv /\ WatchInv /\ AttendInv  OBVIOUS
<1>1. /\ \A j \in Job : row[j].status = "absent"
      /\ \A w \in Worker : wk[w].pc = "off" /\ todo[w] = {}
      /\ \A w \in Worker, j \in Job : run[w][j].st = "none"
      /\ \A r \in Request : rq[r].pc = "idle"
  BY DEF Init, NoRow, NoRunner
<1>2. CancelInv  BY <1>1 DEF CancelInv, Cancels
<1>3. CancellingInv /\ SnapshotInv  BY <1>1 DEF CancellingInv, SnapshotInv
<1>4. ExitInv /\ BootInv  BY <1>1 DEF ExitInv, BootInv, At
<1>5. WatchInv /\ AttendInv  BY <1>1 DEF WatchInv, Loose, AttendInv, InFlight
<1> QED BY <1>2, <1>3, <1>4, <1>5 DEF FlagInv

\* A flag stays.
LEMMA FlaggedStays ==
  ASSUME TypeOK, [Next]_vars, NEW j \in Job, Flagged(j)
  PROVE  Flagged(j)'
BY RowStays DEF Flagged, Terminal, Retains

\* A flagged row that may still be moved to cancelling carries the flag.
LEMMA FlaggedCancels ==
  ASSUME NEW j \in Job, TransitionAllowed(row[j].status, "cancelling")
  PROVE  row[j].status \in InFlight /\ (Flagged(j) => row[j].cancel)
BY DEF Flagged, TransitionAllowed, Terminal, InFlight, Holds

\* What a step does to row k that the worker of the row need not notice: nothing, taking
\* it out of flight, or beginning the cancellation that was asked for.
Stays(k) ==
  \/ row'[k].status = row[k].status /\ row'[k].owner = row[k].owner
  \/ row'[k].status \notin InFlight
  \/ /\ row'[k].status = "cancelling" /\ row[k].cancel
     /\ row'[k].owner = row[k].owner /\ row[k].status \in InFlight

\* A write of one row that keeps its status and owner, or takes it out of flight.
LEMMA WriteStays ==
  ASSUME RowsOK, NEW j \in Job, NEW c, row' = [row EXCEPT ![j] = c],
         (c.status = row[j].status /\ c.owner = row[j].owner) \/ c.status \notin InFlight
  PROVE  \A k \in Job : Stays(k)
BY WriteRow DEF Others, Stays

\* A transition() out of flight, or to cancelling of a row that was flagged.
LEMMA MovedStays ==
  ASSUME RowsOK, NEW j \in Job, NEW t, row' = Moved(j, t) \/ \E b : row' = MovedR(j, t, b),
         t \notin InFlight \/ (t = "cancelling" /\ (row[j].cancel \/ Flagged(j)))
  PROVE  \A k \in Job : Stays(k)
<1>1. /\ Others(j) /\ row'[j].owner = row[j].owner
      /\ \/ row'[j].status = row[j].status
         \/ row'[j].status = t /\ TransitionAllowed(row[j].status, t)
  BY MovedWrites
<1>2. Stays(j)  BY <1>1, FlaggedCancels DEF Stays
<1> QED BY <1>1, <1>2 DEF Others, Stays

\* Worker w takes row j into flight: by its claim, or by its handoff.
Takes(w, j) ==
  /\ Others(j) /\ row'[j].status = "claiming" /\ row'[j].owner = w /\ wk'[w].job = j
  /\ \/ At(w, "claim") /\ row[j].status = "queued" /\ wk'[w].pc = "claimed"
     \/ At(w, "handoff") /\ Mine(w) = j /\ wk'[w].pc = "spawn"

\* Whatever else a worker writes leaves every row to its owner.
LEMMA WorkerStays ==
  ASSUME TypeOK, FlagInv, NEW w \in Worker, WorkerStep(w) \/ WorkerEvent(w)
  PROVE  (\A k \in Job : Stays(k)) \/ (\E j \in Job : Takes(w, j))
<1>0. RowsOK /\ WorkersOK /\ TodoOK  BY TypeParts
<1>m. wk[w].pc \in Busy => Mine(w) \in Job  BY <1>0, BusyJob
<1>n. /\ "interrupted" \notin InFlight /\ "cancelled" \notin InFlight /\ "failed" \notin InFlight
      /\ "waiting_source_verification" \notin InFlight
  BY DEF InFlight
<1>u. UNCHANGED row => \A k \in Job : Stays(k)  BY DEF Stays
<1>1. CASE
     \/ StartWorker(w) \/ WorkerCheck(w) \/ Register(w) \/ Heartbeat(w)
     \/ LeaseExpires(w) \/ RequestStop(w) \/ WorkerStops(w) \/ WorkerCrash(w)
     \/ ScanOrphans(w) \/ OrphanProbe(w) \/ OrphanSurvives(w) \/ OrphansDone(w)
     \/ Claimed(w) \/ NothingQueued(w) \/ Prepare(w) \/ AnalysisDone(w) \/ Apply(w)
     \/ SpawnRunner(w) \/ PersistFails(w) \/ OpenGate(w) \/ WatchStops(w)
     \/ KillRunner(w) \/ RunnerExited(w)
  BY <1>1, <1>u
  DEF StartWorker, WorkerCheck, Register, Heartbeat, LeaseExpires,
      RequestStop, WorkerStops, WorkerCrash, ScanOrphans,
      OrphanProbe, OrphanSurvives, OrphansDone, Claimed,
      NothingQueued, Prepare, AnalysisDone, Apply, SpawnRunner,
      PersistFails, OpenGate, WatchStops, KillRunner, RunnerExited
<1>2. CASE OrphanSettle(w) \/ OrphanCancel(w) \/ OrphanClose(w)
  <2>1. PICK o \in todo[w] :
          \/ UNCHANGED row \/ (row' = Moved(o.job, "cancelling") /\ o.phase = "cancel")
          \/ row' = MovedR(o.job, "interrupted", TRUE)
          \/ row' = MovedR(o.job, "cancelled", FALSE)
    BY <1>2 DEF OrphanSettle, OrphanCancel, OrphanClose, RecoveredAs, Reconciles
  <2>2. o.job \in Job  BY <1>0, TodoUpdate DEF OrphanType
  <2>3. o.phase = "cancel" => Flagged(o.job)  BY DEF FlagInv, SnapshotInv
  <2>4. CASE row' = Moved(o.job, "cancelling") /\ o.phase = "cancel"
    BY <1>0, <2>2, <2>3, <2>4, MovedStays
  <2>5. CASE row' = MovedR(o.job, "interrupted", TRUE)  BY <1>0, <1>n, <2>2, <2>5, MovedStays
  <2>6. CASE row' = MovedR(o.job, "cancelled", FALSE)  BY <1>0, <1>n, <2>2, <2>6, MovedStays
  <2> QED BY <1>u, <2>1, <2>4, <2>5, <2>6
<1>3. CASE AnalysisFails(w) \/ FailCancelled(w) \/ FailSource(w)
  <2>1. Mine(w) \in Job
    BY <1>3, <1>m DEF AnalysisFails, FailCancelled, FailSource, At, Busy, Supervising
  <2>2. \E t \in {"failed", "waiting_source_verification", "cancelled"} : row' = Moved(Mine(w), t)
    BY <1>3 DEF AnalysisFails, FailCancelled, FailSource
  <2> QED BY <1>0, <1>n, <2>1, <2>2, MovedStays
<1>4. CASE AnalysisCancelled(w)
  <2>1. Mine(w) \in Job  BY <1>4, <1>m DEF AnalysisCancelled, At, Busy, Supervising
  <2>2. UNCHANGED row \/ (row' = Moved(Mine(w), "cancelling") /\ row[Mine(w)].cancel)
    BY <1>4 DEF AnalysisCancelled
  <2> QED BY <1>0, <1>u, <2>1, <2>2, MovedStays
<1>5. CASE SettleStopped(w) \/ CloseStopped(w)
  <2>1. Mine(w) \in Job  BY <1>5, <1>m DEF SettleStopped, CloseStopped, At, Busy
  <2>2. \/ UNCHANGED row \/ (row' = Moved(Mine(w), "cancelling") /\ row[Mine(w)].cancel)
        \/ row' = MovedR(Mine(w), "interrupted", TRUE) \/ row' = Moved(Mine(w), "cancelled")
    BY <1>5 DEF SettleStopped, CloseStopped
  <2>3. CASE row' = MovedR(Mine(w), "interrupted", TRUE)  BY <1>0, <1>n, <2>1, <2>3, MovedStays
  <2> QED BY <1>0, <1>n, <1>u, <2>1, <2>2, <2>3, MovedStays
<1>6. CASE ExitReconcile(w) \/ ExitCancelled(w)
  <2>1. Mine(w) \in Job  BY <1>6, <1>m DEF ExitReconcile, ExitCancelled, At, Busy
  <2>2. At(w, "exit") /\ wk[w].seenCancel => Flagged(Mine(w))  BY DEF FlagInv, ExitInv
  <2>3. \E t, b, next : /\ MoveOrUnwind(w, t, b, next)
                        /\ \/ t \in {"interrupted", "cancelled"}
                           \/ t = "cancelling" /\ Flagged(Mine(w))
    <3>1. CASE ExitReconcile(w)  BY <2>2, <3>1 DEF ExitReconcile
    <3>2. CASE ExitCancelled(w)  BY <3>2 DEF ExitCancelled
    <3> QED BY <1>6, <3>1, <3>2
  <2>4. \/ UNCHANGED row
        \/ \E t, b : /\ row' = MovedR(Mine(w), t, b)
                     /\ \/ t \in {"interrupted", "cancelled"}
                        \/ t = "cancelling" /\ Flagged(Mine(w))
    BY <2>3 DEF MoveOrUnwind, MovedR, CanMoveOwned
  <2> QED BY <1>0, <1>n, <1>u, <2>1, <2>4, MovedStays
<1>7. CASE Claim(w)
  <2>1. PICK j \in Job :
          /\ row[j].status = "queued"
          /\ row' = [row EXCEPT ![j] = [@ EXCEPT !.status = "claiming", !.owner = w]]
          /\ wk' = [wk EXCEPT ![w] = [@ EXCEPT !.pc = "claimed", !.job = j]]
    BY <1>7 DEF Claim, Claimable
  <2> DEFINE c == [row[j] EXCEPT !.status = "claiming", !.owner = w]
  <2>2. c.status = "claiming" /\ c.owner = w  BY <1>0 DEF RowsOK, RowType
  <2>3. row' = [row EXCEPT ![j] = c]  BY <2>1
  <2> HIDE DEF c
  <2>4. row'[j] = c /\ Others(j)  BY <1>0, <2>3, WriteRow
  <2>5. Turns(w, "claimed", j)  BY <1>0, <2>1, TurnsJob
  <2> QED BY <1>7, <2>1, <2>2, <2>4, <2>5 DEF Takes, Turns, Claim
<1>8. CASE Decide(w)
  <2>1. Mine(w) \in Job  BY <1>8, <1>m DEF Decide, At, Busy, Supervising
  <2>2. CASE UNCHANGED row  BY <1>u, <2>2
  <2>3. CASE ~UNCHANGED row
    <3>1. PICK t \in {"failed", "awaiting_source_review", "source_analysis_ready"} :
            row' = [row EXCEPT ![Mine(w)] =
                      [@ EXCEPT !.status = t, !.sel = Selected(Mine(w), t)]]
      BY <1>8, <2>3 DEF Decide
    <3> DEFINE c == [row[Mine(w)] EXCEPT !.status = t, !.sel = Selected(Mine(w), t)]
    <3>2. c.status = t  BY <1>0, <2>1 DEF RowsOK, RowType
    <3>3. row' = [row EXCEPT ![Mine(w)] = c]  BY <3>1
    <3>4. t \notin InFlight  BY DEF InFlight
    <3> HIDE DEF c
    <3> QED BY <1>0, <2>1, <3>2, <3>3, <3>4, WriteStays
  <2> QED BY <2>2, <2>3
<1>9. CASE Handoff(w)
  <2>1. Mine(w) \in Job  BY <1>9, <1>m DEF Handoff, At, Busy, Supervising
  <2>2. CASE UNCHANGED row  BY <1>u, <2>2
  <2>3. CASE row' = Moved(Mine(w), "failed")  BY <1>0, <1>n, <2>1, <2>3, MovedStays
  <2>4. CASE ~UNCHANGED row /\ row' # Moved(Mine(w), "failed")
    <3>1. /\ At(w, "handoff") /\ row[Mine(w)].owner = w /\ Goto(w, "spawn")
          /\ row' = [row EXCEPT ![Mine(w)] = [@ EXCEPT !.status = "claiming", !.auth = TRUE]]
      BY <1>9, <2>4 DEF Handoff
    <3> DEFINE c == [row[Mine(w)] EXCEPT !.status = "claiming", !.auth = TRUE]
    <3>2. c.status = "claiming" /\ c.owner = w  BY <1>0, <2>1, <3>1 DEF RowsOK, RowType
    <3>3. row' = [row EXCEPT ![Mine(w)] = c]  BY <3>1
    <3> HIDE DEF c
    <3>4. row'[Mine(w)] = c /\ Others(Mine(w))  BY <1>0, <2>1, <3>3, WriteRow
    <3>5. Turns(w, "spawn", Mine(w))  BY <1>0, <3>1, TurnsGoto DEF Mine
    <3>6. \E j \in Job : j = Mine(w) /\ Takes(w, j)
      <4>1. PICK j \in Job : j = Mine(w)  BY <2>1
      <4> QED BY <3>1, <3>2, <3>4, <3>5, <4>1 DEF Takes, Turns
    <3> QED BY <3>6
  <2> QED BY <2>2, <2>3, <2>4
<1>10. CASE PersistRunner(w)
  <2>1. Mine(w) \in Job  BY <1>10, <1>m DEF PersistRunner, At, Busy, Supervising
  <2> DEFINE c == [row[Mine(w)] EXCEPT !.rw = w, !.top = TRUE]
  <2>2. c.owner = row[Mine(w)].owner /\ c.status = row[Mine(w)].status
    BY <1>0, <2>1 DEF RowsOK, RowType
  <2>3. row' = [row EXCEPT ![Mine(w)] = c]  BY <1>10 DEF PersistRunner
  <2> HIDE DEF c
  <2> QED BY <1>0, <2>1, <2>2, <2>3, WriteStays
<1> QED BY <1>1, <1>2, <1>3, <1>4, <1>5, <1>6, <1>7, <1>8, <1>9, <1>10 DEF WorkerStep, WorkerEvent

\* A runner past its gate, or one that finds it open, was one before its step; it comes to
\* cancel its row only because the row is flagged.
LEMMA RunnerLoose ==
  ASSUME TypeOK, NEW w \in Worker, NEW j \in Job, RunnerMoves(w, j)
  PROVE  /\ \A v \in Worker, i \in Job : ~(v = w /\ i = j) => run'[v][i] = run[v][i]
         /\ Loose(run'[w][j]) => Loose(run[w][j])
         /\ run'[w][j].st = "cancel" => run[w][j].st = "cancel" \/ Flagged(j)
<1> DEFINE Goal == /\ \A v \in Worker, i \in Job : ~(v = w /\ i = j) => run'[v][i] = run[v][i]
                   /\ Loose(run'[w][j]) => Loose(run[w][j])
                   /\ run'[w][j].st = "cancel" => run[w][j].st = "cancel" \/ Flagged(j)
<1>0. RunnersOK /\ run[w][j] \in RunnerType  BY TypeParts DEF RunnersOK
<1>1. ASSUME NEW c, run' = [run EXCEPT ![w][j] = c],
             c.st = "none" \/ Loose(run[w][j]) \/ (c.st = run[w][j].st /\ c.gate = run[w][j].gate),
             c.st = "cancel" => run[w][j].st = "cancel" \/ Flagged(j)
      PROVE  Goal
  BY <1>0, <1>1, RunBecomes DEF Becomes, Loose
<1>2. CASE Exits(w, j)
  <2>1. NoRunner.st = "none"  BY DEF NoRunner
  <2> QED BY <1>1, <1>2, <2>1 DEF Exits
<1>3. ASSUME NEW from, NEW to, Step(w, j, from, to), from # "none",
             from = "gate" => run[w][j].gate, to = "cancel" => Flagged(j)
      PROVE  Goal
  <2> DEFINE c == [run[w][j] EXCEPT !.st = to]
  <2>1. c.st = to  BY <1>0 DEF RunnerType
  <2>2. run' = [run EXCEPT ![w][j] = c] /\ run[w][j].st = from  BY <1>3 DEF Step
  <2> HIDE DEF c
  <2> QED BY <1>1, <1>3, <2>1, <2>2 DEF Loose
<1>4. CASE \/ GateTimeout(w, j) \/ Reject(w, j) \/ Finalize(w, j)
  BY <1>2, <1>4 DEF GateTimeout, Reject, Finalize
<1>5. CASE Boot(w, j)
  <2>1. \/ Exits(w, j)
        \/ /\ run[w][j].gate
           /\ \/ Step(w, j, "gate", "start") \/ Step(w, j, "gate", "running")
              \/ /\ Step(w, j, "gate", "cancel")
                 /\ row[j].cancel /\ row[j].status \in {"claiming", "starting"}
    BY <1>5 DEF Boot, GateOpen
  <2>2. row[j].cancel /\ row[j].status \in {"claiming", "starting"} => Flagged(j)
    BY DEF Flagged
  <2> QED BY <1>2, <1>3, <2>1, <2>2
<1>6. CASE \/ BootCancel(w, j) \/ BootCancelled(w, j) \/ Start(w, j) \/ Running(w, j)
           \/ SpawnFails(w, j)
  <2>1. \/ Exits(w, j) \/ Step(w, j, "cancel", "cancelled") \/ Step(w, j, "start", "running")
        \/ Step(w, j, "running", "spawn")
    BY <1>6 DEF BootCancel, BootCancelled, Start, Running, SpawnFails, StepOwned
  <2> QED BY <1>2, <1>3, <2>1
<1>7. CASE SpawnPipeline(w, j) \/ RecordPid(w, j)
  <2> DEFINE c == [run[w][j] EXCEPT !.st = "pid", !.pipe = "live"]
             d == [run[w][j] EXCEPT !.st = "loop", !.skew = Skewed(w, j)]
  <2>1. c.st = "pid" /\ d.st = "loop"  BY <1>0 DEF RunnerType
  <2>2. /\ run[w][j].st \in {"spawn", "pid"}
        /\ run' = [run EXCEPT ![w][j] = c] \/ run' = [run EXCEPT ![w][j] = d]
    BY <1>7 DEF SpawnPipeline, RecordPid
  <2> HIDE DEF c, d
  <2> QED BY <1>1, <2>1, <2>2 DEF Loose
<1>8. CASE PipelineExits(w, j)
  <2> DEFINE c == [run[w][j] EXCEPT !.pipe = "none"]
  <2>1. c.st = run[w][j].st /\ c.gate = run[w][j].gate  BY <1>0 DEF RunnerType
  <2>2. run' = [run EXCEPT ![w][j] = c]  BY <1>8 DEF PipelineExits
  <2> HIDE DEF c
  <2> QED BY <1>1, <2>1, <2>2
<1>9. CASE ObserveCancel(w, j) \/ ObserveStop(w, j) \/ PipelineDone(w, j)
  <2>1. PICK out : \/ run' = [run EXCEPT ![w][j] =
                                [@ EXCEPT !.st = "final", !.out = out, !.pipe = "none"]]
                   \/ run' = [run EXCEPT ![w][j] = [@ EXCEPT !.st = "final", !.out = out]]
    BY <1>9 DEF ObserveCancel, ObserveStop, PipelineDone
  <2> DEFINE c == [run[w][j] EXCEPT !.st = "final", !.out = out, !.pipe = "none"]
             d == [run[w][j] EXCEPT !.st = "final", !.out = out]
  <2>2. c.st = "final" /\ d.st = "final"  BY <1>0 DEF RunnerType
  <2>3. run' = [run EXCEPT ![w][j] = c] \/ run' = [run EXCEPT ![w][j] = d]  BY <2>1
  <2>4. run[w][j].st = "loop"  BY <1>9 DEF ObserveCancel, ObserveStop, PipelineDone
  <2> HIDE DEF c, d
  <2> QED BY <1>1, <2>2, <2>3, <2>4 DEF Loose
<1>10. CASE RunnerAlone(w, j)
  <2> DEFINE c == [NoRunner EXCEPT !.pipe = run[w][j].pipe]
  <2>1. c.st = "none"  BY DEF NoRunner
  <2>2. run' = [run EXCEPT ![w][j] = c]  BY <1>10 DEF RunnerAlone
  <2> HIDE DEF c
  <2> QED BY <1>1, <2>1, <2>2
<1> QED BY <1>4, <1>5, <1>6, <1>7, <1>8, <1>9, <1>10 DEF RunnerMoves, RunnerStep

\* A runner takes its own row further, when it is past its gate; whatever else it writes
\* leaves every row to its owner.
LEMMA RunnerStays ==
  ASSUME TypeOK, FlagInv, NEW w \in Worker, NEW j \in Job, RunnerMoves(w, j)
  PROVE  \/ \A k \in Job : Stays(k)
         \/ /\ Others(j) /\ Loose(run[w][j]) /\ row[j].status \in InFlight
            /\ row[j].owner = w /\ row'[j].owner = w
            /\ row'[j].status \in {"starting", "running"}
<1>0. RowsOK /\ RunnersOK /\ run[w][j] \in RunnerType  BY TypeParts DEF RunnersOK
<1>n. {"cancelled", "failed", "interrupted", "finished", "review_required"} \intersect InFlight = {}
  BY DEF InFlight
<1>u. UNCHANGED row => \A k \in Job : Stays(k)  BY DEF Stays
<1>1. CASE \/ GateTimeout(w, j) \/ Boot(w, j) \/ SpawnPipeline(w, j) \/ PipelineExits(w, j)
           \/ ObserveStop(w, j) \/ PipelineDone(w, j) \/ RunnerAlone(w, j)
  BY <1>1, <1>u DEF GateTimeout, Boot, SpawnPipeline, PipelineExits, ObserveStop,
     PipelineDone, RunnerAlone
<1>2. CASE BootCancelled(w, j) \/ Reject(w, j) \/ SpawnFails(w, j)
  <2>1. UNCHANGED row \/ \E t \in {"cancelled", "failed"} : row' = Moved(j, t)
    BY <1>2 DEF BootCancelled, Reject, SpawnFails, StepOwned
  <2> QED BY <1>0, <1>n, <1>u, <2>1, MovedStays
<1>3. CASE BootCancel(w, j) \/ ObserveCancel(w, j)
  <2>1. \/ UNCHANGED row
        \/ row' = Moved(j, "cancelling") /\ (row[j].cancel \/ run[w][j].st = "cancel")
    BY <1>3 DEF BootCancel, ObserveCancel, StepOwned
  <2>2. run[w][j].st = "cancel" => Flagged(j)  BY DEF FlagInv, BootInv
  <2> QED BY <1>0, <1>u, <2>1, <2>2, MovedStays
<1>4. CASE Start(w, j) \/ Running(w, j)
  <2>1. \/ UNCHANGED row
        \/ \E t \in {"starting", "running"} :
             row' = Moved(j, t) /\ TransitionAllowed(row[j].status, t) /\ row[j].owner = w
    BY <1>4 DEF Start, Running, StepOwned, CanMoveOwned, CanMove
  <2>2. run[w][j].st \in {"start", "running"}  BY <1>4 DEF Start, Running, StepOwned
  <2>3. ASSUME NEW t \in {"starting", "running"}, row' = Moved(j, t),
               TransitionAllowed(row[j].status, t), row[j].owner = w
        PROVE  /\ Others(j) /\ row'[j].owner = w /\ row[j].status \in InFlight
               /\ row'[j].status = t
    <3> DEFINE c == [row[j] EXCEPT !.status = t]
    <3>1. c.status = t /\ c.owner = w  BY <1>0, <2>3 DEF RowsOK, RowType
    <3>2. row' = [row EXCEPT ![j] = c]  BY <2>3 DEF Moved, CanMove
    <3> HIDE DEF c
    <3> QED BY <1>0, <2>3, <3>1, <3>2, WriteRow DEF TransitionAllowed, InFlight, Holds
  <2> QED BY <1>u, <2>1, <2>2, <2>3 DEF Loose
<1>5. CASE RecordPid(w, j)
  <2> DEFINE c == [row[j] EXCEPT !.rw = w, !.top = FALSE]
  <2>1. c.owner = row[j].owner /\ c.status = row[j].status  BY <1>0 DEF RowsOK, RowType
  <2>2. row' = [row EXCEPT ![j] = c]  BY <1>5 DEF RecordPid
  <2> HIDE DEF c
  <2> QED BY <1>0, <2>1, <2>2, WriteStays
<1>6. CASE Finalize(w, j)
  <2>1. \/ UNCHANGED row
        \/ \E t \in {"cancelled", "interrupted", "finished", "review_required", "failed"} :
             \E b : row' = MovedR(j, t, b)
    BY <1>0, <1>6 DEF Finalize, RunnerType
  <2> QED BY <1>0, <1>n, <1>u, <2>1, MovedStays
<1> QED BY <1>1, <1>2, <1>3, <1>4, <1>5, <1>6 DEF RunnerMoves, RunnerStep

\* No request takes a row into flight, or away from its owner but out of flight.
LEMMA UiStays ==
  ASSUME TypeOK, FlagInv, NEW r \in Request, UiStep(r)
  PROVE  \A k \in Job : Stays(k)
<1>0. /\ RowsOK
      /\ rq[r].pc \notin {"idle", "insert"} => rq[r].job \in Job
      /\ rq[r].pc \in Cancels => Flagged(rq[r].job)
  BY TypeParts DEF RequestsOK, FlagInv, CancelInv, Flagged
<1>n. {"queued", "cancelled", "failed", "interrupted", "finished", "resumable"} \intersect InFlight = {}
  BY DEF InFlight
<1>u. UNCHANGED row => \A k \in Job : Stays(k)  BY DEF Stays
<1>1. CASE \/ Submit(r) \/ Resume(r) \/ Cancel(r) \/ CancelHeld(r) \/ Reconcile(r)
           \/ ProbeRunner(r) \/ VerifySource(r) \/ AuthorizeDownload(r) \/ UiRestart(r)
  BY <1>1, <1>u DEF Submit, Resume, Cancel, CancelHeld, Reconcile, ProbeRunner, VerifySource,
     AuthorizeDownload, UiRestart
<1>2. CASE MarkResumable(r) \/ SettleCancelled(r) \/ Freeze(r) \/ Requeue(r)
  <2>1. PICK j \in Job :
          \/ UNCHANGED row \/ row' = MovedR(j, "resumable", TRUE)
          \/ row' = Moved(j, "queued") \/ row' = Moved(j, "cancelled")
          \/ row' = MovedR(j, "cancelled", TRUE) \/ row' = MovedR(j, "interrupted", TRUE)
    BY <1>0, <1>2 DEF MarkResumable, SettleCancelled, Freeze, Requeue, On
  <2> QED BY <1>0, <1>n, <1>u, <2>1, MovedStays
<1>3. CASE MarkCancelling(r) \/ SettleCancel(r)
  <2>1. /\ rq[r].job \in Job /\ Flagged(rq[r].job)
        /\ row' = Moved(rq[r].job, "cancelling")
    BY <1>0, <1>3 DEF MarkCancelling, SettleCancel, On, Cancels
  <2> QED BY <1>0, <2>1, MovedStays
<1>4. CASE PersistPayload(r) \/ FlagCancel(r)
  <2>1. rq[r].job \in Job  BY <1>0, <1>4 DEF PersistPayload, FlagCancel, On
  <2> DEFINE c == [row[rq[r].job] EXCEPT !.payload = TRUE, !.sel = CarriedOver(r)]
             d == [row[rq[r].job] EXCEPT !.cancel = TRUE]
  <2>2. /\ c.status = row[rq[r].job].status /\ c.owner = row[rq[r].job].owner
        /\ d.status = row[rq[r].job].status /\ d.owner = row[rq[r].job].owner
    BY <1>0, <2>1 DEF RowsOK, RowType
  <2>3. \/ UNCHANGED row \/ row' = [row EXCEPT ![rq[r].job] = c]
        \/ row' = [row EXCEPT ![rq[r].job] = d]
    BY <1>4 DEF PersistPayload, FlagCancel
  <2> HIDE DEF c, d
  <2> QED BY <1>0, <1>u, <2>1, <2>2, <2>3, WriteStays
<1>5. CASE ConfirmPages(r) \/ Dismiss(r)
  <2>1. PICK j \in Job : \/ row' = [row EXCEPT ![j].sel = TRUE]
                         \/ row' = [row EXCEPT ![j] = [@ EXCEPT !.recov = FALSE]]
    BY <1>5 DEF ConfirmPages, Dismiss
  <2> DEFINE c == [row[j] EXCEPT !.sel = TRUE]
             d == [row[j] EXCEPT !.recov = FALSE]
  <2>2. /\ c.status = row[j].status /\ c.owner = row[j].owner
        /\ d.status = row[j].status /\ d.owner = row[j].owner
    BY <1>0 DEF RowsOK, RowType
  <2>3. row' = [row EXCEPT ![j] = c] \/ row' = [row EXCEPT ![j] = d]  BY <2>1
  <2> HIDE DEF c, d
  <2> QED BY <1>0, <2>2, <2>3, WriteStays
<1>6. CASE ResolveReady(r) \/ CompleteReview(r)
  <2>1. PICK j \in Job :
          \/ row' = [row EXCEPT ![j] = [@ EXCEPT !.status = "queued", !.auth = TRUE]]
          \/ row' = [row EXCEPT ![j] = [@ EXCEPT !.status = "finished", !.owner = NoWorker,
                                           !.rw = NoWorker, !.top = TRUE, !.cancel = FALSE]]
    BY <1>6 DEF ResolveReady, CompleteReview
  <2> DEFINE c == [row[j] EXCEPT !.status = "queued", !.auth = TRUE]
             d == [row[j] EXCEPT !.status = "finished", !.owner = NoWorker,
                                 !.rw = NoWorker, !.top = TRUE, !.cancel = FALSE]
  <2>2. c.status = "queued" /\ d.status = "finished"  BY <1>0 DEF RowsOK, RowType
  <2>3. row' = [row EXCEPT ![j] = c] \/ row' = [row EXCEPT ![j] = d]  BY <2>1
  <2> HIDE DEF c, d
  <2> QED BY <1>0, <1>n, <2>2, <2>3, WriteStays
<1>7. ASSUME Insert(r) \/ CreateResumed(r) PROVE \A k \in Job : Stays(k)
  <2>1. UNCHANGED row \/ \E k \in Job : row'[k].status = "queued" /\ Others(k)
    BY <1>7, Inserted
  <2> QED BY <1>n, <1>u, <2>1 DEF Others, Stays
<1> QED BY <1>1, <1>2, <1>3, <1>4, <1>5, <1>6, <1>7 DEF UiStep, UiContinues

\* Where a worker goes: on with its turn, or, with what it read, to the exit of its runner.
LEMMA WorkerTurns ==
  ASSUME TypeOK, NEW w \in Worker, WorkerStep(w) \/ WorkerEvent(w)
  PROVE  \/ UNCHANGED wk
         \/ RunnerExited(w)
         \/ \E pc \in WorkerPc \ {"exit"} : \E j : Turns(w, pc, j)
<1>0. RowsOK /\ WorkersOK  BY TypeParts
<1>p. /\ Down \union {"check", "register", "idle", "orphans", "claim"} \subseteq WorkerPc \ {"exit"}
      /\ Busy \ {"exit"} \subseteq WorkerPc \ {"exit"}
  BY DEF WorkerPc, Down, Busy, Supervising
<1>1. CASE \/ Heartbeat(w) \/ LeaseExpires(w) \/ RequestStop(w) \/ OrphanProbe(w)
           \/ OrphanSettle(w) \/ OrphanCancel(w) \/ OrphanClose(w)
  BY <1>1 DEF Heartbeat, LeaseExpires, RequestStop, OrphanProbe, OrphanSettle, OrphanCancel,
     OrphanClose
<1>2. CASE StartWorker(w) \/ WorkerCheck(w) \/ Register(w) \/ WorkerStops(w)
  <2>1. \/ GotoIdle(w) \/ Leave(w)
        \/ \E pc \in {"check", "exited", "register"} : Goto(w, pc)
    BY <1>2 DEF StartWorker, WorkerCheck, Register, WorkerStops
  <2>2. \E pc \in {"check", "exited", "register", "idle"} : \E j : Turns(w, pc, j)
    BY <1>0, <2>1, TurnsGoto, TurnsIdle
  <2> QED BY <1>p, <2>2 DEF Down
<1>3. CASE WorkerCrash(w)
  <2>1. Turns(w, "dead", NoJob)  BY <1>0, <1>3, TurnsJob DEF WorkerCrash
  <2> QED BY <1>p, <2>1 DEF Down
<1>4. CASE ScanOrphans(w) \/ OrphanSurvives(w)
  <2> DEFINE c == [wk[w] EXCEPT !.pc = "orphans", !.safe = TRUE]
             d == [wk[w] EXCEPT !.safe = FALSE]
  <2>1. c.pc = "orphans" /\ d.pc = wk[w].pc  BY <1>0 DEF WorkersOK, WorkerType
  <2>2. \/ wk' = [wk EXCEPT ![w] = c]
        \/ wk' = [wk EXCEPT ![w] = d] /\ wk[w].pc = "orphans"
    BY <1>4 DEF ScanOrphans, OrphanSurvives, Reconciles, At
  <2> HIDE DEF c, d
  <2>3. \E j : Turns(w, "orphans", j)  BY <1>0, <2>1, <2>2, TurnsTo
  <2> QED BY <1>p, <2>3
<1>5. CASE OrphansDone(w) \/ NothingQueued(w) \/ Prepare(w) \/ AnalysisDone(w) \/ Apply(w)
           \/ SpawnRunner(w) \/ PersistRunner(w) \/ PersistFails(w) \/ OpenGate(w)
           \/ WatchStops(w) \/ KillRunner(w) \/ AnalysisFails(w) \/ AnalysisCancelled(w)
           \/ FailCancelled(w) \/ FailSource(w) \/ Decide(w) \/ Handoff(w)
  <2>1. GotoIdle(w) \/ \E pc \in {"idle", "claim"} \union (Busy \ {"exit"}) : Goto(w, pc)
    BY <1>5 DEF OrphansDone, NothingQueued, Prepare, AnalysisDone, Apply, SpawnRunner,
       PersistRunner, PersistFails, OpenGate, WatchStops, KillRunner, AnalysisFails,
       AnalysisCancelled, FailCancelled, FailSource, Decide, Handoff, Busy, Supervising
  <2>2. \E pc \in {"idle", "claim"} \union (Busy \ {"exit"}) : \E j : Turns(w, pc, j)
    BY <1>0, <2>1, TurnsGoto, TurnsIdle
  <2> QED BY <1>p, <2>2
<1>6. CASE SettleStopped(w) \/ CloseStopped(w)
  <2>1. Stopped(w) \/ Goto(w, "close") \/ Goto(w, "haltclose")
    BY <1>6 DEF SettleStopped, CloseStopped
  <2>2. \E pc \in {"watch", "idle", "close", "haltclose"} : \E j : Turns(w, pc, j)
    BY <1>0, <2>1, TurnsStopped, TurnsGoto
  <2> QED BY <1>p, <2>2 DEF Busy, Supervising
<1>7. CASE Claim(w) \/ Claimed(w)
  <2>1. \/ GotoIdle(w)
        \/ \E pc \in {"claimed", "prepare"} : \E j :
             wk' = [wk EXCEPT ![w] = [@ EXCEPT !.pc = pc, !.job = j]]
    BY <1>7 DEF Claim, Claimed
  <2>2. \E pc \in {"claimed", "prepare", "idle"} : \E j : Turns(w, pc, j)
    BY <1>0, <2>1, TurnsJob, TurnsIdle
  <2> QED BY <1>p, <2>2 DEF Busy
<1>8. CASE ExitReconcile(w) \/ ExitCancelled(w)
  <2>1. \E t, b : \E next \in {"idle", "exit2"} : MoveOrUnwind(w, t, b, next)
    BY <1>8 DEF ExitReconcile, ExitCancelled
  <2>2. \E pc \in {"idle", "exit2", "exited"} : \E j : Turns(w, pc, j)
    BY <1>0, <2>1, TurnsUnwind
  <2> QED BY <1>p, <2>2 DEF Busy, Down
<1> QED BY <1>1, <1>2, <1>3, <1>4, <1>5, <1>6, <1>7, <1>8 DEF WorkerStep, WorkerEvent

\* The worker that saw its runner exit has read a row in flight and its flag.
LEMMA ExitSeen ==
  ASSUME TypeOK, NEW w \in Worker, RunnerExited(w), At(w, "exit")', (wk[w].seenCancel)'
  PROVE  Flagged(Mine(w))' /\ Mine(w)' = Mine(w)
<1>0. WorkersOK  BY TypeParts
<1> DEFINE c == [wk[w] EXCEPT !.pc = "exit", !.seen = row[Mine(w)].status,
                              !.seenCancel = row[Mine(w)].cancel]
<1>1. /\ c.seenCancel = row[Mine(w)].cancel /\ c.job = wk[w].job
  BY <1>0 DEF WorkersOK, WorkerType
<1>2. \/ GotoIdle(w)
      \/ row[Mine(w)].status \in InFlight /\ wk' = [wk EXCEPT ![w] = c]
  BY <1>0 DEF RunnerExited
<1> HIDE DEF c
<1>3. ~GotoIdle(w)  BY <1>0, TurnsIdle DEF Turns, At
<1>4. wk'[w] = c  BY <1>0, <1>2, <1>3 DEF WorkersOK
<1>5. Mine(w)' = Mine(w) /\ row[Mine(w)].cancel  BY <1>1, <1>4 DEF Mine
<1>6. UNCHANGED row  BY DEF RunnerExited
<1>7. row[Mine(w)].status # "absent"  BY <1>2, <1>3 DEF InFlight
<1> QED BY <1>5, <1>6, <1>7 DEF Flagged

\* What a recovery still has to do comes from its scan, or is a step further: it comes to
\* cancel an orphan only if the orphan was flagged when it was listed.
LEMMA TodoSeen ==
  ASSUME TypeOK, NEW w \in Worker, WorkerStep(w) \/ WorkerEvent(w), NEW o \in todo'[w]
  PROVE  \/ o \in todo[w]
         \/ \E k \in Job : row[k].status \in InFlight /\ o = Orphan(k)
         \/ \E p \in todo[w] :
              o.job = p.job /\ o.cancel = p.cancel /\ (o.phase = "cancel" => p.cancel)
<1>0. TodoOK  BY TypeParts
<1>1. CASE UNCHANGED todo  BY <1>1
<1>2. CASE ScanOrphans(w)
  BY <1>0, <1>2 DEF ScanOrphans, TodoOK, Orphaned
<1>3. CASE WorkerCrash(w)
  BY <1>0, <1>3 DEF WorkerCrash, TodoOK
<1>4. ASSUME NEW p \in todo[w], NEW t \in {"settle", "cancel", "close"}, Advance(w, p, t),
             t = "cancel" => p.cancel
      PROVE  \/ o \in todo[w]
             \/ \E q \in todo[w] :
                  o.job = q.job /\ o.cancel = q.cancel /\ (o.phase = "cancel" => q.cancel)
  <2> DEFINE q == [p EXCEPT !.phase = t]
  <2>1. p \in OrphanType  BY <1>0, TodoUpdate
  <2>2. q.job = p.job /\ q.cancel = p.cancel /\ q.phase = t  BY <2>1 DEF OrphanType
  <2>3. todo'[w] = (todo[w] \ {p}) \union {q}  BY <1>0, <1>4 DEF Advance, TodoOK
  <2> HIDE DEF q
  <2> QED BY <1>4, <2>2, <2>3
<1>5. ASSUME NEW p \in todo[w], Drop(w, p) PROVE o \in todo[w]
  BY <1>0, <1>5 DEF Drop, TodoOK
<1>6. CASE \/ OrphanProbe(w) \/ OrphanSettle(w) \/ OrphanCancel(w) \/ OrphanClose(w)
           \/ OrphanSurvives(w)
  <2>1. PICK p \in todo[w] :
          \/ Drop(w, p)
          \/ \E t \in {"settle", "cancel", "close"} : Advance(w, p, t) /\ (t = "cancel" => p.cancel)
    BY <1>6 DEF OrphanProbe, OrphanSettle, OrphanCancel, OrphanClose, OrphanSurvives
  <2> QED BY <1>4, <1>5, <2>1
<1> QED
  BY <1>1, <1>2, <1>3, <1>6
  DEF WorkerStep, WorkerEvent, StartWorker, WorkerCheck, Register, Heartbeat, LeaseExpires,
      RequestStop, WorkerStops, OrphansDone, Claim, Claimed, NothingQueued, Prepare,
      AnalysisFails, AnalysisCancelled, FailCancelled, AnalysisDone, Apply, Decide, FailSource,
      Handoff, SpawnRunner, PersistRunner, PersistFails, OpenGate, WatchStops, KillRunner,
      SettleStopped, CloseStopped, RunnerExited, ExitReconcile, ExitCancelled

\* FlagInv is inductive: who is about to cancel a row has seen its flag, and a flag stays.
LEMMA FlagStep == TypeOK /\ FlagInv /\ [Next]_vars => FlagInv'
<1> SUFFICES ASSUME TypeOK, FlagInv, [Next]_vars PROVE FlagInv'  OBVIOUS
<1>0. RowsOK /\ WorkersOK /\ TodoOK /\ RunnersOK /\ StatusStep  BY TypeParts, NextStatusStep
<1>1. CancelInv'  BY CancelStep DEF FlagInv
<1>2. CancellingInv'
  <2> SUFFICES ASSUME NEW j \in Job, row'[j].status = "cancelling" PROVE row'[j].cancel
    BY DEF CancellingInv
  <2>1. row[j].status # "absent"
    BY <1>0 DEF StatusStep, Promised, TransitionAllowed, Holds
  <2>2. row[j].cancel => row'[j].cancel  BY <2>1, RowStays DEF Retains
  <2>3. Stays(j) => row'[j].cancel
    BY <2>2 DEF Stays, InFlight, FlagInv, CancellingInv
  <2>4. row'[j] = row[j] => row'[j].cancel  BY DEF FlagInv, CancellingInv
  <2>5. ASSUME NEW w \in Worker, WorkerStep(w) \/ WorkerEvent(w) PROVE row'[j].cancel
    BY <2>3, <2>4, <2>5, WorkerStays DEF Takes, Others
  <2>6. ASSUME NEW w \in Worker, NEW i \in Job, RunnerMoves(w, i) PROVE row'[j].cancel
    BY <2>3, <2>4, <2>6, RunnerStays DEF Others
  <2>7. ASSUME NEW r \in Request, UiStep(r) PROVE row'[j].cancel
    BY <2>3, <2>7, UiStays
  <2> QED BY <2>4, <2>5, <2>6, <2>7 DEF Next, vars
<1>3. SnapshotInv'
  <2> SUFFICES ASSUME NEW v \in Worker, NEW o \in todo'[v]
               PROVE  /\ row'[o.job].status # "absent"
                      /\ o.cancel => Flagged(o.job)'
                      /\ o.phase = "cancel" => o.cancel
    BY DEF SnapshotInv
  <2> DEFINE Goal == /\ row'[o.job].status # "absent"
                     /\ o.cancel => Flagged(o.job)'
                     /\ o.phase = "cancel" => o.cancel
  <2>1. ASSUME NEW p \in todo[v], o.job = p.job, o.cancel = p.cancel,
               o.phase = "cancel" => p.phase = "cancel" \/ p.cancel
        PROVE  Goal
    <3>1. p.job \in Job  BY <1>0, TodoUpdate DEF OrphanType
    <3>2. /\ row[p.job].status # "absent" /\ (p.cancel => Flagged(p.job))
          /\ p.phase = "cancel" => p.cancel
      BY DEF FlagInv, SnapshotInv
    <3>3. PICK k \in Job : k = o.job  BY <2>1, <3>1
    <3>4. row'[k].status # "absent" /\ (Flagged(k) => Flagged(k)')
      BY <2>1, <3>2, <3>3, RowStays, FlaggedStays DEF Retains
    <3> QED BY <2>1, <3>2, <3>3, <3>4
  <2>2. ASSUME NEW k \in Job, row[k].status \in InFlight, o = Orphan(k) PROVE Goal
    <3>1. o.job = k /\ o.cancel = row[k].cancel /\ o.phase = "probe"  BY <2>2 DEF Orphan
    <3>2. row[k].status # "absent" /\ (o.cancel => Flagged(k))
      BY <2>2, <3>1 DEF InFlight, Flagged
    <3>3. row'[k].status # "absent" /\ (Flagged(k) => Flagged(k)')
      BY <3>2, RowStays, FlaggedStays DEF Retains
    <3> QED BY <3>1, <3>2, <3>3
  <2>3. CASE todo'[v] = todo[v]  BY <2>1, <2>3
  <2>4. ASSUME NEW w \in Worker, WorkerStep(w) \/ WorkerEvent(w) PROVE Goal
    <3>1. CASE v # w  BY <2>3, <2>4, <3>1, WorkerGoes
    <3>2. CASE v = w  BY <2>1, <2>2, <2>4, <3>2, TodoSeen
    <3> QED BY <3>1, <3>2
  <2> QED BY <2>3, <2>4 DEF Next, RunnerMoves, UiStep, vars
<1>4. ExitInv'
  <2> SUFFICES ASSUME NEW v \in Worker, At(v, "exit")', (wk[v].seenCancel)'
               PROVE  Flagged(Mine(v))'
    BY DEF ExitInv
  <2>1. ASSUME wk'[v] = wk[v] PROVE Flagged(Mine(v))'
    <3>1. At(v, "exit") /\ wk[v].seenCancel  BY <2>1 DEF At
    <3>2. Mine(v) \in Job /\ Flagged(Mine(v))
      BY <1>0, <3>1, BusyJob DEF At, Busy, FlagInv, ExitInv
    <3>3. PICK j \in Job : j = Mine(v)  BY <3>2
    <3>4. Mine(v)' = j /\ Flagged(j)'  BY <2>1, <3>2, <3>3, FlaggedStays DEF Mine
    <3> QED BY <3>4
  <2>2. ASSUME NEW w \in Worker, WorkerStep(w) \/ WorkerEvent(w) PROVE Flagged(Mine(v))'
    <3>1. CASE v # w  BY <2>1, <2>2, <3>1, WorkerGoes
    <3>2. CASE v = w  BY <2>1, <2>2, <3>2, WorkerTurns, ExitSeen DEF Turns, At
    <3> QED BY <3>1, <3>2
  <2> QED BY <2>1, <2>2 DEF Next, RunnerMoves, UiStep, vars
<1>5. BootInv'
  <2> SUFFICES ASSUME NEW v \in Worker, NEW i \in Job, run'[v][i].st = "cancel"
               PROVE  Flagged(i)'
    BY DEF BootInv
  <2>1. Flagged(i) => Flagged(i)'  BY FlaggedStays
  <2>2. run[v][i].st = "cancel" => Flagged(i)'  BY <2>1 DEF FlagInv, BootInv
  <2>3. ASSUME NEW w \in Worker, WorkerStep(w) \/ WorkerEvent(w) PROVE Flagged(i)'
    BY <2>2, <2>3, WorkerRuns
  <2>4. ASSUME NEW w \in Worker, NEW j \in Job, RunnerMoves(w, j) PROVE Flagged(i)'
    BY <2>1, <2>2, <2>4, RunnerLoose
  <2> QED BY <2>2, <2>3, <2>4 DEF Next, UiStep, vars
<1> QED BY <1>1, <1>2, <1>3, <1>4, <1>5 DEF FlagInv

\* A worker lets nothing past the gate but the runner it opens the gate of.
LEMMA WorkerLoose ==
  ASSUME TypeOK, NEW w \in Worker, WorkerStep(w) \/ WorkerEvent(w)
  PROVE  \A v \in Worker, i \in Job :
           Loose(run'[v][i]) =>
             Loose(run[v][i]) \/ (v = w /\ i = Mine(w) /\ Turns(w, "watch", i))
<1> DEFINE Goal == \A v \in Worker, i \in Job :
                     Loose(run'[v][i]) =>
                       Loose(run[v][i]) \/ (v = w /\ i = Mine(w) /\ Turns(w, "watch", i))
<1>0. RowsOK /\ WorkersOK /\ RunnersOK /\ TodoOK  BY TypeParts
<1>m. wk[w].pc \in Busy => Mine(w) \in Job  BY <1>0, BusyJob
<1>1. ASSUME NEW v \in Worker, NEW i \in Job, NEW c, run' = [run EXCEPT ![v][i] = c],
             Loose(c) => Loose(run[v][i]) \/ (v = w /\ i = Mine(w) /\ Turns(w, "watch", i))
      PROVE  Goal
  BY <1>0, <1>1, RunBecomes DEF Becomes
<1>2. ASSUME NEW v \in Worker, NEW i \in Job, run' = Killed(v, i) PROVE Goal
  BY <1>0, <1>2, KilledBecomes DEF Loose
<1>3. CASE SpawnRunner(w)
  <2>1. Mine(w) \in Job  BY <1>3, <1>m DEF SpawnRunner, At, Busy, Supervising
  <2>2. PICK skew : run' = [run EXCEPT ![w][Mine(w)] = [NoRunner EXCEPT !.st = "gate", !.skew = skew]]
    BY <1>3 DEF SpawnRunner
  <2> DEFINE c == [NoRunner EXCEPT !.st = "gate", !.skew = skew]
  <2>3. ~Loose(c)  BY DEF NoRunner, Loose
  <2>4. run' = [run EXCEPT ![w][Mine(w)] = c]  BY <2>2
  <2> HIDE DEF c
  <2> QED BY <1>1, <2>1, <2>3, <2>4
<1>4. CASE PersistRunner(w)
  <2>1. Mine(w) \in Job  BY <1>4, <1>m DEF PersistRunner, At, Busy, Supervising
  <2> DEFINE c == [run[w][Mine(w)] EXCEPT !.known = TRUE]
  <2>2. c.st = run[w][Mine(w)].st /\ c.gate = run[w][Mine(w)].gate
    BY <1>0, <2>1 DEF RunnersOK, RunnerType
  <2>3. UNCHANGED run \/ run' = [run EXCEPT ![w][Mine(w)] = c]  BY <1>4 DEF PersistRunner
  <2> HIDE DEF c
  <2> QED BY <1>1, <2>1, <2>2, <2>3 DEF Loose
<1>5. CASE OpenGate(w)
  <2>1. Mine(w) \in Job  BY <1>5, <1>m DEF OpenGate, At, Busy, Supervising
  <2>2. Turns(w, "watch", Mine(w))  BY <1>0, <1>5, TurnsGoto DEF OpenGate, Mine
  <2> DEFINE c == [run[w][Mine(w)] EXCEPT !.gate = TRUE]
  <2>3. UNCHANGED run \/ run' = [run EXCEPT ![w][Mine(w)] = c]  BY <1>5 DEF OpenGate
  <2> HIDE DEF c
  <2> QED BY <1>1, <2>1, <2>2, <2>3
<1>6. CASE OrphanProbe(w)
  <2>1. PICK o \in todo[w] : run' = IF TrackedUp(o, o.job) THEN Killed(o.rw, o.job) ELSE run
    BY <1>6 DEF OrphanProbe
  <2>2. o \in OrphanType  BY <1>0, TodoUpdate
  <2>3. o.job \in Job /\ (TrackedUp(o, o.job) => o.rw \in Worker)
    BY <2>2 DEF TrackedUp, OrphanType
  <2> QED BY <1>2, <2>1, <2>3
<1>7. CASE KillRunner(w)
  <2>1. Mine(w) \in Job  BY <1>7, <1>m DEF KillRunner, At, Busy
  <2> DEFINE v == IF TrackedUp(row[Mine(w)], Mine(w)) THEN row[Mine(w)].rw ELSE w
  <2>2. v \in Worker  BY <1>0, <2>1 DEF TrackedUp, RowsOK, RowType
  <2>3. run' = Killed(v, Mine(w))  BY <1>7 DEF KillRunner
  <2> HIDE DEF v
  <2> QED BY <1>2, <2>1, <2>2, <2>3
<1>8. \/ PersistRunner(w) \/ SpawnRunner(w) \/ OpenGate(w) \/ OrphanProbe(w) \/ KillRunner(w)
      \/ UNCHANGED run
  BY DEF WorkerStep, WorkerEvent, StartWorker, WorkerCheck, Register,
      Heartbeat, LeaseExpires, RequestStop, WorkerStops,
      WorkerCrash, ScanOrphans, OrphanSurvives, OrphanSettle,
      OrphanCancel, OrphanClose, OrphansDone, Claim, Claimed,
      NothingQueued, Prepare, AnalysisFails, AnalysisCancelled,
      FailCancelled, AnalysisDone, Apply, Decide, FailSource,
      Handoff, PersistFails, WatchStops, SettleStopped,
      CloseStopped, RunnerExited, ExitReconcile, ExitCancelled
<1> QED BY <1>3, <1>4, <1>5, <1>6, <1>7, <1>8

\* A worker that watches its runner goes on doing so while the runner is up, unless it dies.
LEMMA LateTurns ==
  ASSUME TypeOK, NEW w \in Worker, WorkerStep(w) \/ WorkerEvent(w), wk[w].pc \in Late,
         OwnRunnerUp(w)
  PROVE  wk'[w].pc = "dead" \/ (wk'[w].job = wk[w].job /\ wk'[w].pc \in Late)
<1>0. WorkersOK  BY TypeParts
<1>1. ASSUME NEW pc \in Late, Goto(w, pc)
      PROVE  wk'[w].job = wk[w].job /\ wk'[w].pc \in Late
  BY <1>0, <1>1, TurnsGoto DEF Turns
<1>2. CASE WorkerCrash(w)  BY <1>0, <1>2, TurnsJob DEF WorkerCrash, Turns
<1>3. CASE \/ WatchStops(w) \/ KillRunner(w) \/ SettleStopped(w) \/ CloseStopped(w)
  <2>1. \E pc \in Late : Goto(w, pc)
    BY <1>3 DEF WatchStops, KillRunner, SettleStopped, CloseStopped, Stopped, At, Late
  <2> QED BY <1>1, <2>1
<1>4. CASE Heartbeat(w) \/ LeaseExpires(w) \/ RequestStop(w)
  BY <1>4 DEF Heartbeat, LeaseExpires, RequestStop
<1> QED
  BY <1>2, <1>3, <1>4
  DEF WorkerStep, WorkerEvent, Late, At, StartWorker, WorkerCheck, Register, WorkerStops,
      ScanOrphans, OrphanProbe, OrphanSettle, OrphanCancel, OrphanClose, OrphanSurvives,
      Reconciles, OrphansDone, Claim, Claimed, NothingQueued, Prepare, AnalysisFails,
      AnalysisCancelled, FailCancelled, AnalysisDone, Apply, Decide, FailSource, Handoff,
      SpawnRunner, PersistRunner, PersistFails, OpenGate, RunnerExited, ExitReconcile,
      ExitCancelled

\* WatchInv is inductive: a worker opens the gate of its own runner only, and then watches.
LEMMA WatchStep == TypeOK /\ WatchInv /\ [Next]_vars => WatchInv'
<1> SUFFICES ASSUME TypeOK, WatchInv, [Next]_vars, NEW v \in Worker, NEW i \in Job,
                    Loose(run'[v][i])
             PROVE  At(v, "dead")' \/ (Mine(v)' = i /\ wk'[v].pc \in Late)
  BY DEF WatchInv
<1> DEFINE Goal == At(v, "dead")' \/ (Mine(v)' = i /\ wk'[v].pc \in Late)
<1>1. ASSUME Loose(run[v][i]), wk'[v] = wk[v] PROVE Goal
  BY <1>1 DEF WatchInv, At, Mine
<1>2. ASSUME NEW w \in Worker, WorkerStep(w) \/ WorkerEvent(w) PROVE Goal
  <2>1. CASE v = w /\ i = Mine(w) /\ Turns(w, "watch", i)
    BY <2>1 DEF Turns, Late, Mine
  <2>2. CASE Loose(run[v][i]) /\ v # w  BY <1>1, <1>2, <2>2, WorkerGoes
  <2>3. CASE Loose(run[v][i]) /\ v = w
    <3>1. CASE At(w, "dead")
      BY <1>1, <1>2, <2>3, <3>1, WorkerGoes DEF At, Gone
    <3>2. CASE Mine(w) = i /\ wk[w].pc \in Late
      BY <1>2, <2>3, <3>2, LateTurns DEF At, Mine, OwnRunnerUp, RunnerUp, Loose
    <3> QED BY <2>3, <3>1, <3>2 DEF WatchInv
  <2> QED BY <1>2, <2>1, <2>2, <2>3, WorkerLoose
<1>3. ASSUME NEW w \in Worker, NEW j \in Job, RunnerMoves(w, j) PROVE Goal
  <2>1. Loose(run[v][i])  BY <1>3, RunnerLoose
  <2> QED BY <1>1, <1>3, <2>1 DEF RunnerMoves
<1>4. ASSUME NEW r \in Request, UiStep(r) PROVE Goal  BY <1>1, <1>4 DEF UiStep
<1>5. CASE UNCHANGED vars  BY <1>1, <1>5 DEF vars
<1> QED BY <1>2, <1>3, <1>4, <1>5 DEF Next

\* A transition() that may be made is made.
LEMMA MovedTo ==
  ASSUME RowsOK, NEW j \in Job, NEW t, CanMove(j, t),
         row' = Moved(j, t) \/ \E b : row' = MovedR(j, t, b)
  PROVE  row'[j].status = t
<1>1. CASE row' = [row EXCEPT ![j].status = t]
  <2> DEFINE c == [row[j] EXCEPT !.status = t]
  <2>1. c.status = t  BY DEF RowsOK, RowType
  <2>2. row' = [row EXCEPT ![j] = c]  BY <1>1
  <2> HIDE DEF c
  <2> QED BY <2>1, <2>2, WriteRow
<1>2. ASSUME NEW b, row' = [row EXCEPT ![j] = [@ EXCEPT !.status = t, !.recov = b]]
      PROVE  row'[j].status = t
  <2> DEFINE c == [row[j] EXCEPT !.status = t, !.recov = b]
  <2>1. c.status = t  BY DEF RowsOK, RowType
  <2>2. row' = [row EXCEPT ![j] = c]  BY <1>2
  <2> HIDE DEF c
  <2> QED BY <2>1, <2>2, WriteRow
<1> QED BY <1>1, <1>2 DEF Moved, MovedR

\* The worker of a row in flight that nobody cancels goes on answering for it: it takes
\* the row a step further, or out of flight.
LEMMA WorkerAttends ==
  ASSUME TypeOK, FlagInv, NEW w \in Worker, WorkerStep(w) \/ WorkerEvent(w), NEW j \in Job,
         row[j].owner = w, row[j].status \in InFlight, ~row[j].cancel, Attended(j),
         row'[j].status = row[j].status
  PROVE  \/ wk'[w].pc \in Gone
         \/ /\ Mine(w)' = j /\ wk'[w].pc \in Attending
            /\ wk'[w].pc \in Young => row'[j].status = "claiming"
<1> DEFINE Goal == \/ wk'[w].pc \in Gone
                   \/ /\ Mine(w)' = j /\ wk'[w].pc \in Attending
                      /\ wk'[w].pc \in Young => row'[j].status = "claiming"
<1>0. RowsOK /\ WorkersOK /\ TodoOK  BY TypeParts
<1>1. CASE wk[w].pc \in Gone  BY <1>1, WorkerGoes
<1>a. ASSUME wk[w].pc \notin Gone
      PROVE  Mine(w) = j /\ wk[w].pc \in Attending /\ (wk[w].pc \in Young => row[j].status = "claiming")
  BY <1>a DEF Attended
<1>b. row[j].status \in {"claiming", "starting", "running"}
  BY DEF FlagInv, CancellingInv, InFlight
<1>c. ASSUME NEW pc \in Attending, Goto(w, pc), Mine(w) = j,
             pc \in Young => row[j].status = "claiming"
      PROVE  Goal
  BY <1>0, <1>c, TurnsGoto DEF Turns, Mine
<1>d. ASSUME NEW t, t \notin InFlight, CanMove(j, t),
             row' = Moved(j, t) \/ \E b : row' = MovedR(j, t, b)
      PROVE  FALSE
  BY <1>0, <1>d, MovedTo
<1>e. CanMove(j, "failed") /\ CanMove(j, "interrupted")
  BY <1>b DEF CanMove, TransitionAllowed
<1>f. /\ Young \union {"spawn", "persist", "open", "watch", "stop", "settle", "halt", "haltsettle",
                        "failsource", "exit"} = Attending
      /\ {"spawn", "persist", "open", "watch", "stop", "settle", "halt", "haltsettle",
          "failsource", "exit"} \intersect Young = {}
  BY DEF Young, Attending, Busy, Supervising
<1>2. CASE Heartbeat(w) \/ LeaseExpires(w) \/ RequestStop(w)
  BY <1>2, <1>a DEF Heartbeat, LeaseExpires, RequestStop, Mine
<1>3. CASE WorkerCrash(w)  BY <1>0, <1>3, TurnsJob DEF WorkerCrash, Turns, Gone
<1>4. CASE Claimed(w)
  <2>1. Mine(w) = j /\ row[j].status = "claiming"
    BY <1>4, <1>a DEF Claimed, At, Gone, Young
  <2>2. wk' = [wk EXCEPT ![w] = [@ EXCEPT !.pc = "prepare", !.job = j]]
    BY <1>4, <2>1 DEF Claimed, Mine
  <2>3. Turns(w, "prepare", j)  BY <1>0, <2>2, TurnsJob
  <2> QED BY <1>f, <2>1, <2>3 DEF Turns, Mine, Young
<1>5. CASE Prepare(w) \/ AnalysisDone(w) \/ Apply(w)
  <2>1. Mine(w) = j /\ row[j].status = "claiming"
    BY <1>5, <1>a DEF Prepare, AnalysisDone, Apply, At, Gone, Young
  <2>2. \E pc \in {"analyse", "spawn", "apply", "decide"} : Goto(w, pc)
    BY <1>5, <2>1 DEF Prepare, AnalysisDone, Apply, Terminal
  <2> QED BY <1>c, <1>f, <2>1, <2>2 DEF Young
<1>6. CASE AnalysisFails(w) \/ Decide(w)
  <2>1. Mine(w) = j /\ row[j].status = "claiming"
    BY <1>6, <1>a DEF AnalysisFails, Decide, At, Gone, Young
  <2>2. CASE AnalysisFails(w)
    <3>1. PICK t \in {"failed", "waiting_source_verification"} : row' = Moved(j, t)
      BY <2>1, <2>2 DEF AnalysisFails
    <3>2. CanMove(j, t) /\ t \notin InFlight
      BY <2>1 DEF CanMove, TransitionAllowed, Holds, InFlight
    <3> QED BY <1>d, <3>1, <3>2
  <2>3. CASE Decide(w)
    <3>1. PICK t \in {"failed", "awaiting_source_review", "source_analysis_ready"} :
            CanMove(j, t) =>
              row' = [row EXCEPT ![j] = [@ EXCEPT !.status = t, !.sel = Selected(j, t)]]
      BY <2>1, <2>3 DEF Decide
    <3>2. CanMove(j, t) /\ t \notin InFlight
      BY <2>1 DEF CanMove, TransitionAllowed, Holds, InFlight
    <3> DEFINE c == [row[j] EXCEPT !.status = t, !.sel = Selected(j, t)]
    <3>3. c.status = t  BY <1>0 DEF RowsOK, RowType
    <3>4. row' = [row EXCEPT ![j] = c]  BY <3>1, <3>2
    <3> HIDE DEF c
    <3> QED BY <1>0, <3>2, <3>3, <3>4, WriteRow
  <2> QED BY <1>6, <2>2, <2>3
<1>7. CASE AnalysisCancelled(w)
  BY <1>7, <1>a, <1>b DEF AnalysisCancelled, At, Gone
<1>8. CASE FailSource(w)
  <2>1. row' = Moved(j, "failed")  BY <1>8, <1>a DEF FailSource, At, Gone
  <2> QED BY <1>d, <1>e, <2>1 DEF InFlight
<1>9. CASE \/ SpawnRunner(w) \/ PersistRunner(w) \/ PersistFails(w) \/ OpenGate(w)
           \/ WatchStops(w) \/ KillRunner(w)
  <2>1. Mine(w) = j
    BY <1>9, <1>a DEF SpawnRunner, PersistRunner, PersistFails, OpenGate, WatchStops, KillRunner,
       At, Gone
  <2>2. \E pc \in {"persist", "open", "halt", "watch", "stop", "settle", "haltsettle"} : Goto(w, pc)
    BY <1>9 DEF SpawnRunner, PersistRunner, PersistFails, OpenGate, WatchStops, KillRunner
  <2> QED BY <1>c, <1>f, <2>1, <2>2
<1>10. CASE SettleStopped(w)
  <2>1. Mine(w) = j  BY <1>10, <1>a DEF SettleStopped, At, Gone
  <2>2. row' = MovedR(j, "interrupted", TRUE)  BY <1>10, <2>1 DEF SettleStopped
  <2> QED BY <1>d, <1>e, <2>2 DEF InFlight
<1>11. CASE RunnerExited(w)
  <2>1. Mine(w) = j  BY <1>11, <1>a DEF RunnerExited, At, Gone
  <2> DEFINE c == [wk[w] EXCEPT !.pc = "exit", !.seen = row[j].status, !.seenCancel = row[j].cancel]
  <2>2. c.pc = "exit" /\ c.job = j  BY <1>0, <2>1 DEF WorkersOK, WorkerType, Mine
  <2>3. wk' = [wk EXCEPT ![w] = c]  BY <1>11, <2>1 DEF RunnerExited
  <2> HIDE DEF c
  <2>4. Turns(w, "exit", j)  BY <1>0, <2>2, <2>3, TurnsTo
  <2> QED BY <1>f, <2>4 DEF Turns, Mine
<1>12. CASE ExitReconcile(w)
  <2>1. Mine(w) = j /\ At(w, "exit")  BY <1>12, <1>a DEF ExitReconcile, At, Gone
  <2>2. ~wk[w].seenCancel  BY <1>b, <2>1 DEF FlagInv, ExitInv, Flagged, Terminal
  <2>3. PICK b : row' = [row EXCEPT ![j] = [@ EXCEPT !.status = "interrupted", !.recov = b]]
    BY <1>12, <1>e, <2>1, <2>2 DEF ExitReconcile, MoveOrUnwind, CanMoveOwned
  <2>4. row' = MovedR(j, "interrupted", b)  BY <1>e, <2>3 DEF MovedR
  <2> QED BY <1>d, <1>e, <2>4 DEF InFlight
<1>13. ASSUME wk[w].pc \notin Attending \union Gone PROVE FALSE  BY <1>13, <1>a
<1>14. CASE \/ StartWorker(w) \/ WorkerCheck(w) \/ Register(w) \/ WorkerStops(w) \/ ScanOrphans(w)
            \/ OrphanProbe(w) \/ OrphanSettle(w) \/ OrphanCancel(w) \/ OrphanClose(w)
            \/ OrphanSurvives(w) \/ OrphansDone(w) \/ Claim(w) \/ NothingQueued(w) \/ Handoff(w)
            \/ FailCancelled(w) \/ ExitCancelled(w) \/ CloseStopped(w)
  <2>1. wk[w].pc \in {"off", "check", "register", "idle", "orphans", "claim", "handoff",
                      "failcancel", "exit2", "close", "haltclose"}
    BY <1>14 DEF StartWorker, WorkerCheck, Register, WorkerStops, ScanOrphans, OrphanProbe,
       OrphanSettle, OrphanCancel, OrphanClose, OrphanSurvives, Reconciles, OrphansDone, Claim,
       NothingQueued, Handoff, FailCancelled, ExitCancelled, CloseStopped, At
  <2> QED BY <1>13, <2>1 DEF Attending, Busy, Supervising, Gone
<1> QED BY <1>1, <1>2, <1>3, <1>4, <1>5, <1>6, <1>7, <1>8, <1>9, <1>10, <1>11, <1>12, <1>14
        DEF WorkerStep, WorkerEvent

\* AttendInv is inductive.
LEMMA AttendStep ==
  TypeOK /\ FlagInv /\ WatchInv /\ AttendInv /\ [Next]_vars => AttendInv'
<1> SUFFICES ASSUME TypeOK, FlagInv, WatchInv, AttendInv, [Next]_vars, NEW j \in Job,
                    row'[j].status \in InFlight
             PROVE  row'[j].owner \in Worker /\ (row'[j].cancel \/ Attended(j)')
  BY DEF AttendInv
<1> DEFINE Goal == row'[j].owner \in Worker /\ (row'[j].cancel \/ Attended(j)')
<1>1. ASSUME row[j].status \in InFlight, row[j].cancel, row'[j].owner = row[j].owner PROVE Goal
  <2>1. row'[j].cancel  BY <1>1, RowStays DEF InFlight, Retains
  <2> QED BY <1>1, <2>1 DEF AttendInv
<1>2. ASSUME row[j].status \in InFlight, row'[j].status = row[j].status,
             row'[j].owner = row[j].owner, wk'[row[j].owner] = wk[row[j].owner]
      PROVE  Goal
  <2>1. CASE Attended(j)
    <3>1. PICK v : v = row[j].owner  OBVIOUS
    <3>2. Attended(j)'  BY <1>2, <2>1, <3>1 DEF Attended, Mine
    <3> QED BY <1>2, <3>2 DEF AttendInv
  <2>2. CASE row[j].cancel  BY <1>1, <1>2, <2>2
  <2> QED BY <1>2, <2>1, <2>2 DEF AttendInv
<1>3. ASSUME Stays(j), ~(row'[j].status = row[j].status /\ row'[j].owner = row[j].owner)
      PROVE  Goal
  BY <1>1, <1>3 DEF Stays
<1>4. ASSUME NEW w \in Worker, WorkerStep(w) \/ WorkerEvent(w) PROVE Goal
  <2>0. \A v \in Worker \ {w} : wk'[v] = wk[v]  BY <1>4, WorkerGoes
  <2>1. ASSUME row'[j].status = row[j].status, row'[j].owner = row[j].owner,
               row[j].cancel \/ row[j].owner # w \/ Attended(j)
        PROVE  Goal
    <3>0. row[j].status \in InFlight /\ row[j].owner \in Worker  BY <2>1 DEF AttendInv
    <3>1. CASE row[j].owner # w  BY <1>2, <2>0, <2>1, <3>0, <3>1
    <3>2. CASE row[j].cancel  BY <1>1, <2>1, <3>0, <3>2
    <3>3. CASE row[j].owner = w /\ ~row[j].cancel
      <4>1. \/ wk'[w].pc \in Gone
            \/ /\ Mine(w)' = j /\ wk'[w].pc \in Attending
               /\ wk'[w].pc \in Young => row'[j].status = "claiming"
        BY <1>4, <2>1, <3>0, <3>3, WorkerAttends
      <4>2. Attended(j)'  BY <2>1, <3>3, <4>1 DEF Attended
      <4> QED BY <2>1, <3>0, <4>2
    <3> QED BY <3>1, <3>2, <3>3
  <2>2. CASE \A k \in Job : Stays(k)
    <3>1. CASE row'[j].status = row[j].status /\ row'[j].owner = row[j].owner
      BY <2>1, <3>1 DEF AttendInv
    <3> QED BY <1>3, <2>2, <3>1
  <2>3. ASSUME NEW i \in Job, Takes(w, i) PROVE Goal
    <3>1. CASE i = j
      <4>1. Mine(w)' = j /\ row'[j].owner = w /\ row'[j].status = "claiming"
        BY <2>3, <3>1 DEF Takes, Mine
      <4>2. wk'[w].pc \in Attending  BY <2>3 DEF Takes, Attending, Busy, Supervising
      <4>3. Attended(j)'  BY <4>1, <4>2 DEF Attended
      <4> QED BY <4>1, <4>3
    <3>2. CASE i # j
      <4>1. row'[j] = row[j]  BY <2>3, <3>2 DEF Takes, Others
      <4>2. wk[w].pc \notin Attending \union Gone
        BY <2>3 DEF Takes, At, Attending, Busy, Supervising, Gone
      <4>3. row[j].owner = w => ~Attended(j)  BY <4>2 DEF Attended
      <4> QED BY <2>1, <4>1, <4>3 DEF AttendInv
    <3> QED BY <3>1, <3>2
  <2> QED BY <1>4, <2>2, <2>3, WorkerStays
<1>5. ASSUME NEW w \in Worker, NEW i \in Job, RunnerMoves(w, i) PROVE Goal
  <2>0. UNCHANGED wk  BY <1>5 DEF RunnerMoves
  <2>1. CASE row'[j].status = row[j].status /\ row'[j].owner = row[j].owner
    BY <1>2, <2>0, <2>1
  <2>2. CASE Stays(j)  BY <1>3, <2>1, <2>2
  <2>3. CASE /\ Others(i) /\ Loose(run[w][i]) /\ row[i].status \in InFlight
             /\ row[i].owner = w /\ row'[i].owner = w
    <3>1. CASE i # j  BY <2>1, <2>3, <3>1 DEF Others
    <3>2. CASE i = j /\ row[j].cancel  BY <1>1, <2>3, <3>2
    <3>3. CASE i = j /\ ~row[j].cancel
      <4>1. Attended(j)  BY <2>3, <3>3 DEF AttendInv
      <4>2. At(w, "dead") \/ (Mine(w) = j /\ wk[w].pc \in Late)  BY <2>3, <3>3 DEF WatchInv
      <4>3. wk[w].pc \in Gone \/ (Mine(w) = j /\ wk[w].pc \in Attending \ Young)
        BY <2>3, <3>3, <4>1, <4>2 DEF Attended, At, Gone, Late, Young
      <4>4. Mine(w)' = Mine(w)  BY <2>0 DEF Mine
      <4>5. Attended(j)'  BY <2>0, <2>3, <3>3, <4>3, <4>4 DEF Attended
      <4> QED BY <2>3, <3>3, <4>5
    <3> QED BY <3>1, <3>2, <3>3
  <2> QED BY <1>5, <2>2, <2>3, RunnerStays
<1>6. ASSUME NEW r \in Request, UiStep(r) PROVE Goal
  <2>0. UNCHANGED wk /\ Stays(j)  BY <1>6, UiStays DEF UiStep
  <2> QED BY <1>2, <1>3, <2>0
<1>7. CASE UNCHANGED vars  BY <1>2, <1>7 DEF vars
<1> QED BY <1>4, <1>5, <1>6, <1>7 DEF Next

\* No row in flight is forgotten, whatever leases, crashes, stray runners and late requests
\* do: unless its cancellation was asked for, the worker it belongs to is busy with it or gone.
THEOREM RowsAreAttended == Spec => []NoRowForgotten
<1>1. AttendInv => NoRowForgotten
  <2> SUFFICES ASSUME AttendInv, NEW j \in Job, row[j].status \in InFlight, ~row[j].cancel,
                      NEW w, w = row[j].owner
               PROVE  w \in Worker /\ (WorkerUp(w) => wk[w].pc \in Busy /\ Mine(w) = j)
    BY DEF NoRowForgotten
  <2> QED BY DEF AttendInv, Attended, Attending, WorkerUp, Down, Gone
<1> QED BY <1>1, AttendInit, FlagStep, WatchStep, AttendStep, TypeCorrect, PTL DEF Spec

(***************************************************************************)
(* A live pipeline is wanted.                                              *)
(***************************************************************************)

\* Nobody takes the row of a working runner away from it but by cancelling it.
LEMMA WantedStep ==
  ASSUME NoStrayRunner
  PROVE  TypeOK /\ GateInv /\ OwnInv /\ PipeInv /\ LateInv /\ TodoInv /\ CancellingInv /\ WantedInv
           /\ [Next]_vars /\ [FreezesFresh]_vars => WantedInv'
<1> SUFFICES ASSUME TypeOK, GateInv, OwnInv, PipeInv, LateInv, TodoInv, CancellingInv, WantedInv,
                    [Next]_vars, [FreezesFresh]_vars, NEW w \in Worker, NEW j \in Job,
                    Working(run'[w][j])
             PROVE  row'[j].status \in {"running", "cancelling"} \/ row'[j].cancel
  BY DEF WantedInv
<1> DEFINE Wanted == row[j].status \in {"running", "cancelling"} \/ row[j].cancel
           Goal == row'[j].status \in {"running", "cancelling"} \/ row'[j].cancel
<1>0. RowsOK /\ RequestsOK  BY TypeParts
<1>w. w # NoWorker  BY QueueAssumption
<1>1. CASE UNCHANGED <<row, run>>  BY <1>1 DEF WantedInv
<1>2. ASSUME Working(run[w][j])
      PROVE  /\ Wanted /\ run[w][j].st # "none" /\ run[w][j].known /\ ~run[w][j].skew
             /\ row[j].owner = w /\ row[j].rw = w /\ row[j].status \in InFlight \union Closed
             /\ row[j].status \notin {"absent", "queued", "review_required"}
             /\ row[j].status \in InFlight \union Past
             /\ wk[w].pc # "dead" => Mine(w) = j /\ wk[w].pc \in Beside
  <2>1. run[w][j].st # "none" /\ run[w][j].known /\ ~run[w][j].skew /\ Wanted
    BY <1>2 DEF Working, GateInv, Gated, PipeInv, Sound, WantedInv
  <2> QED BY <2>1 DEF OwnInv, RunInv, RunOK, InFlight, Closed, Past, Terminal
<1>c. ASSUME Working(run[w][j]), [Next]_vars, row'[j].status # "finished", row[j].cancel
      PROVE  row'[j].cancel
  <2>1. CASE \A k \in Job : Carried(k)  BY <1>c, <2>1 DEF Carried, SameAttempt, Retains
  <2>2. ASSUME NEW r \in Request, Insert(r) \/ CreateResumed(r) PROVE row'[j] = row[j]
    BY <1>2, <1>c, <2>2, Inserted DEF Others
  <2> QED BY <1>c, <2>1, <2>2, NextCarries
<1>3. ASSUME Working(run[w][j]), row'[j].status = row[j].status PROVE Goal
  <2>1. row[j].cancel => row'[j].cancel
    <3>1. CASE row[j].status # "finished"  BY <1>3, <1>c, <3>1
    <3>2. CASE row[j].status = "finished"  BY <1>2, <1>3, <3>2 DEF InFlight, Closed
    <3> QED BY <3>1, <3>2
  <2> QED BY <1>2, <1>3, <2>1
<1>4. ASSUME NEW v \in Worker, WorkerStep(v) \/ WorkerEvent(v) PROVE Goal
  <2>1. Working(run[w][j])  BY <1>4, WorkerRuns DEF Working
  <2>2. WorkerWrote(v, j)  BY <1>4, WorkerWrites
  <2>3. ~(row[j].owner = v /\ wk[v].pc \in Busy \ Beside)
    BY <1>2, <2>1 DEF Busy, Supervising
  <2>4. ~ \E o \in todo[v] : o.job = j /\ o.phase # "probe"
    BY <1>2, <2>1 DEF TodoInv, Probes
  <2> QED BY <1>2, <1>3, <2>1, <2>2, <2>3, <2>4 DEF WorkerWrote
<1>5. ASSUME NEW v \in Worker, NEW i \in Job, RunnerMoves(v, i) PROVE Goal
  <2>1. CASE ~(v = w /\ i = j)
    <3>1. run'[w][j] = run[w][j]  BY <1>5, <2>1, RunnerRuns
    <3>2. i # j
      BY <1>2, <1>5, <2>1, <3>1, RunnerWrites DEF OwnInv, RunInv, RunOK
    <3>3. row'[j] = row[j]  BY <1>5, <3>2, RunnerWrites DEF Others
    <3> QED BY <1>2, <3>1, <3>3
  <2>2. CASE v = w /\ i = j
    <3>1. \/ Working(run[w][j]) \/ row'[j].status = "running"
      BY <1>5, <2>2, RunnerRuns
    <3>2. Working(run[w][j]) => row'[j].status = row[j].status
      BY <1>5, <2>2, RunnerWrites
    <3> QED BY <1>3, <3>1, <3>2
  <2> QED BY <2>1, <2>2
<1>6. ASSUME NEW r \in Request, UiStep(r) PROVE Goal
  <2>1. UNCHANGED run /\ UiWrote(r, j)  BY <1>6, UiWrites DEF UiStep
  <2>2. Working(run[w][j])  BY <2>1
  <2>3. CASE row'[j].status = row[j].status  BY <1>3, <2>2, <2>3
  <2>4. CASE row'[j].status = "cancelling"  BY <2>4
  <2>5. CASE row[j].status = "interrupted" /\ row'[j].status = "resumable"
    BY <1>2, <1>c, <2>2, <2>5
  <2>6. CASE /\ On(r, "cancelled") /\ j = rq[r].job /\ row'[j].status = "cancelled"
             /\ TransitionAllowed(row[j].status, "cancelled")
    <3>1. row[j].status \notin Holds \union {"staging", "queued", "running"}
      BY <1>2, <2>2, <2>6 DEF TransitionAllowed, InFlight, Past, Terminal, Holds
    <3>2. row[j].cancel  BY <1>2, <2>2, <3>1 DEF CancellingInv
    <3> QED BY <1>c, <2>2, <2>6, <3>2
  <2>7. CASE Freeze(r) /\ j = rq[r].job /\ ~TrackedUp(rq[r].seen, j)
    <3>1. CASE UNCHANGED vars  BY <1>1, <3>1 DEF vars
    <3>2. CASE FreezesFresh
      <4>1. rq[r].seen.rw = w  BY <1>2, <2>2, <2>7, <3>2 DEF FreezesFresh
      <4> QED BY <1>2, <1>w, <2>2, <2>7, <4>1 DEF TrackedUp, RunnerUp
    <3> QED BY <3>1, <3>2
  <2> QED BY <1>2, <2>1, <2>2, <2>3, <2>4, <2>5, <2>6, <2>7 DEF UiWrote
<1> QED BY <1>1, <1>4, <1>5, <1>6 DEF Next, vars

\* What WantedInv says of a working runner covers every live pipeline.
LEMMA WantedIsWanted == PipeInv /\ WantedInv => LivePipelineIsWanted
BY DEF PipeInv, Sound, WantedInv, Working, LivePipelineIsWanted, Live

\* A live pipeline is wanted: its row is running, or being cancelled, or flagged to be
\* cancelled; neither a recovery nor a reconciliation gives the row of a live pipeline up
\* as interrupted or cancelled, as long as leases are lost by an end or a death only and
\* reconcile_orphans writes what it has listed before a runner is recorded.
THEOREM PipelinesAreWanted ==
  ASSUME NoStrayRunner, "stale_lease" \notin Faults
  PROVE  Spec /\ [][RequeuesAlone]_vars /\ [][FreezesFresh]_vars => []LivePipelineIsWanted
<1>1. TypeOK /\ LateInv /\ [Next]_vars /\ [RequeuesAlone]_vars => LateInv'  BY LateStep
<1>2. TypeOK /\ GateInv /\ OwnInv /\ LateInv /\ [Next]_vars /\ [RequeuesAlone]_vars => OwnInv'
  BY OwnStep
<1>3. TypeOK /\ GateInv /\ OwnInv /\ PipeInv /\ [Next]_vars => PipeInv'  BY PipeStep
<1>4. TypeOK /\ LeaseInv /\ [Next]_vars => LeaseInv'  BY LeaseStep
<1>5. TypeOK /\ OwnInv /\ PipeInv /\ LateInv /\ OwnerInv /\ [Next]_vars => OwnerInv'
  BY OwnerStep
<1>6. TypeOK /\ GateInv /\ OwnInv /\ PipeInv /\ LateInv /\ LeaseInv /\ OwnerInv /\ TodoInv
        /\ [Next]_vars => TodoInv'
  BY TodoStep
<1>7. TypeOK /\ FlagInv /\ [Next]_vars => FlagInv'  BY FlagStep
<1>8. TypeOK /\ GateInv /\ OwnInv /\ PipeInv /\ LateInv /\ TodoInv /\ CancellingInv /\ WantedInv
        /\ [Next]_vars /\ [FreezesFresh]_vars => WantedInv'
  BY WantedStep
<1>9. Init => LeaseInv /\ OwnerInv /\ TodoInv /\ WantedInv  BY WantInit
<1>10. Init => FlagInv  BY AttendInit
<1>11. FlagInv => CancellingInv  BY DEF FlagInv
<1> QED BY <1>1, <1>2, <1>3, <1>4, <1>5, <1>6, <1>7, <1>8, <1>9, <1>10, <1>11, TypeCorrect, GateInit,
           GateStep, LateInit, OwnInit, PipeInit, WantedIsWanted, PTL DEF Spec

(***************************************************************************)
(* The hypotheses on behaviours, discharged by some on the constants.      *)
(***************************************************************************)

\* No request reads the orphans where nobody reconciles.
LEMMA NobodyReconciles ==
  ASSUME "reconcile" \notin UiOps, TypeOK, [Next]_vars, NEW q \in Request,
         rq[q].pc # "reconcile"
  PROVE  rq'[q].pc # "reconcile"
<1>0. RequestsOK  BY TypeParts
<1>1. CASE UNCHANGED rq  BY <1>1
<1>2. ASSUME NEW r \in Request, UiStep(r) PROVE rq'[q].pc # "reconcile"
  <2>1. \/ UNCHANGED rq
        \/ Answers(r)
        \/ \E pc \in {"insert", "payload", "mark", "create", "flag", "cancelled", "requeue"} :
             \E j, seen : Asks(r, pc, j, seen)
        \/ \E pc \in {"create", "probe", "markcancel", "settlecancel", "cancelled"} :
             Next1(r, pc)
    <3>1. CASE \/ Insert(r) \/ Submit(r) \/ Resume(r) \/ Cancel(r) \/ CancelHeld(r)
               \/ ConfirmPages(r) \/ VerifySource(r) \/ AuthorizeDownload(r)
      BY <3>1 DEF Insert, Submit, Resume, Cancel, CancelHeld, ConfirmPages, VerifySource,
         AuthorizeDownload
    <3>2. CASE CreateResumed(r)  BY <3>2 DEF CreateResumed
    <3>3. CASE \/ MarkResumable(r) \/ FlagCancel(r) \/ ProbeRunner(r) \/ MarkCancelling(r)
               \/ SettleCancel(r) \/ SettleCancelled(r) \/ Freeze(r) \/ Requeue(r)
               \/ PersistPayload(r) \/ UiRestart(r)
      BY <3>3 DEF MarkResumable, FlagCancel, ProbeRunner, MarkCancelling, SettleCancel,
         SettleCancelled, Freeze, Requeue, PersistPayload, UiRestart
    <3>4. CASE ResolveReady(r) \/ Dismiss(r) \/ CompleteReview(r)
      <4>1. UNCHANGED rq
        BY <3>4 DEF ResolveReady, Dismiss, CompleteReview
      <4> QED BY <4>1
    <3>5. ~Reconcile(r)  BY DEF Reconcile
    <3> QED BY <1>2, <3>1, <3>2, <3>3, <3>4, <3>5 DEF UiStep, UiContinues
  <2>2. ASSUME NEW pc \in {"insert", "payload", "mark", "create", "flag", "cancelled", "requeue"},
               NEW j, NEW seen, Asks(r, pc, j, seen)
        PROVE  rq'[q].pc # "reconcile"
    <3>1. /\ rq'[r] = [pc |-> pc, job |-> j, seen |-> seen]
          /\ \A p \in Request \ {r} : rq'[p] = rq[p]
      BY <1>0, <2>2, RequestTurns
    <3>2. rq'[r].pc = pc  BY <3>1
    <3> QED BY <3>1, <3>2
  <2>3. CASE Answers(r)  BY <1>0, <2>3, RequestTurns
  <2>4. ASSUME NEW pc \in {"create", "probe", "markcancel", "settlecancel", "cancelled"},
               Next1(r, pc)
        PROVE  rq'[q].pc # "reconcile"
    BY <1>0, <2>4, RequestTurns
  <2> QED BY <2>1, <2>2, <2>3, <2>4
<1> QED BY <1>1, <1>2, WorkerKeepsRequests DEF Next, RunnerMoves, vars

\* Where nobody reconciles, nothing is judged by what reconcile_orphans once listed.
LEMMA WithoutReconcileFresh ==
  ASSUME "reconcile" \notin UiOps
  PROVE  Spec => [][FreezesFresh]_vars
<1> DEFINE NoFreeze == \A r \in Request : rq[r].pc # "reconcile"
<1>1. Init => NoFreeze  BY DEF Init
<1>2. TypeOK /\ NoFreeze /\ [Next]_vars => NoFreeze'  BY NobodyReconciles
<1>3. NoFreeze /\ [Next]_vars => [FreezesFresh]_vars  BY DEF FreezesFresh, Freeze, On
<1> QED BY <1>1, <1>2, <1>3, TypeCorrect, PTL DEF Spec

\* A queue in which nobody releases a held row, whatever is submitted, cancelled, resumed or reconciled and
\* whoever crashes or sleeps: one worker supervises a row, a resumed row never comes back,
\* every live pipeline can be found from its row, and no two of them write one output.
THEOREM QueueWithoutReview ==
  ASSUME NoStrayRunner, UiOps \intersect {"confirm", "verify", "resolve", "authorize"} = {}
  PROVE  Spec => [](OneSupervisor /\ ResumedIsHistory /\ PipelineTracked /\ OneWriterPerOutput)
<1>1. Spec => [][RequeuesAlone]_vars  BY WithoutReviewNoRace
<1>2. Spec /\ [][RequeuesAlone]_vars => []OneSupervisor  BY OneWorkerAtATime
<1>3. Spec /\ [][RequeuesAlone]_vars => []ResumedIsHistory  BY ResumedRowsAreHistory
<1>4. Spec /\ [][RequeuesAlone]_vars => []PipelineTracked  BY PipelinesAreTracked
<1>5. Spec /\ [][RequeuesAlone]_vars => []OneWriterPerOutput  BY OneWriterAtATime
<1> QED BY <1>1, <1>2, <1>3, <1>4, <1>5, PTL

\* Where nobody reconciles either, and a worker loses its lease by an end or a death only,
\* whoever crashes, a pipeline that outlives the settlement of its row was asked to stop.
THEOREM NoPipelineGivenUp ==
  ASSUME NoStrayRunner, "stale_lease" \notin Faults,
         UiOps \intersect {"confirm", "verify", "resolve", "authorize", "reconcile"} = {}
  PROVE  Spec => []LivePipelineIsWanted
<1>1. Spec => [][RequeuesAlone]_vars  BY WithoutReviewNoRace
<1>2. Spec => [][FreezesFresh]_vars  BY WithoutReconcileFresh
<1>3. Spec /\ [][RequeuesAlone]_vars /\ [][FreezesFresh]_vars => []LivePipelineIsWanted
  BY PipelinesAreWanted
<1> QED BY <1>1, <1>2, <1>3, PTL

(***************************************************************************)
(* What a runner is started with.                                          *)
(***************************************************************************)

\* No worker claims a row whose source type and evidence _create_job has not stored yet,
\* which is the race of the run ClaimSourceEvidence.
ClaimsWhole ==
  \A j \in Job : row[j].status = "queued" /\ row'[j].status = "claiming" => row[j].payload

\* Program counters of a worker that has read its claim and has not yet decided for a runner.
Seeking == {"prepare", "analyse", "apply", "decide", "handoff"}

\* A row of the table with its payload, and one with its page selection.
Equipped(j) == row[j].status # "absent" /\ row[j].payload
Chosen(j) == row[j].status # "absent" /\ row[j].sel

\* A claimed row has its payload, the row of a worker that prepares it too, and the row of
\* a worker that spawns a runner, or of a runner, a selection.
SourceInv ==
  /\ \A j \in Job : row[j].status = "claiming" => row[j].payload
  /\ \A w \in Worker : wk[w].pc \in Seeking => Equipped(Mine(w))
  /\ \A w \in Worker : wk[w].pc \in {"handoff", "spawn"} => Chosen(Mine(w))
  /\ \A w \in Worker, j \in Job : RunnerUp(w, j) => Chosen(j)

\* In the empty queue nothing is claimed.
LEMMA SourceInit == Init => SourceInv
BY DEF Init, SourceInv, Seeking, RunnerUp, NoRow, NoRunner

\* Nobody takes a payload or a selection back.
LEMMA SourceStays ==
  ASSUME TypeOK, [Next]_vars, NEW j \in Job
  PROVE  (Equipped(j) => Equipped(j)') /\ (Chosen(j) => Chosen(j)')
BY RowStays DEF Retains, Equipped, Chosen

\* How a worker comes nearer to its runner: it reads a claimed row, analyses one, stores a
\* selection with a ready analysis, or finds nothing to analyse.
LEMMA SourceTurns ==
  ASSUME TypeOK, NEW w \in Worker, WorkerStep(w) \/ WorkerEvent(w),
         wk'[w].pc \in Seeking \union {"spawn"}
  PROVE  \/ wk'[w].pc = wk[w].pc /\ Mine(w)' = Mine(w)
         \/ wk'[w].pc = "prepare" /\ Mine(w)' \in Job /\ row[Mine(w)'].status = "claiming"
         \/ /\ wk[w].pc \in Seeking /\ Mine(w)' = Mine(w)
            /\ \/ wk'[w].pc \in {"analyse", "apply", "decide"}
               \/ wk'[w].pc = "handoff" /\ row'[Mine(w)].sel
               \/ /\ wk'[w].pc = "spawn"
                  /\ wk[w].pc = "handoff" \/ (row[Mine(w)].payload => row[Mine(w)].sel)
<1>0. RowsOK /\ WorkersOK  BY TypeParts
<1>m. wk[w].pc \in Busy => Mine(w) \in Job  BY <1>0, BusyJob
<1>g. ASSUME NEW pc, Goto(w, pc) PROVE wk'[w].pc = pc /\ Mine(w)' = Mine(w)
  BY <1>0, <1>g, TurnsGoto DEF Turns, Mine
<1>i. ~GotoIdle(w) /\ ~Leave(w)  BY <1>0, TurnsIdle DEF Turns, Seeking
<1>1. CASE \/ Heartbeat(w) \/ LeaseExpires(w) \/ RequestStop(w) \/ OrphanProbe(w)
           \/ OrphanSettle(w) \/ OrphanCancel(w) \/ OrphanClose(w)
  <2>1. UNCHANGED wk
    BY <1>1 DEF Heartbeat, LeaseExpires, RequestStop, OrphanProbe, OrphanSettle,
       OrphanCancel, OrphanClose
  <2> QED BY <2>1 DEF Mine
<1>2. CASE \/ StartWorker(w) \/ WorkerCheck(w) \/ Register(w) \/ WorkerStops(w)
           \/ OrphansDone(w) \/ NothingQueued(w) \/ SpawnRunner(w) \/ PersistRunner(w)
           \/ PersistFails(w) \/ OpenGate(w) \/ WatchStops(w) \/ KillRunner(w)
           \/ AnalysisFails(w) \/ AnalysisCancelled(w) \/ FailCancelled(w) \/ FailSource(w)
  <2>1. \E pc \in {"check", "exited", "register", "claim", "idle", "persist", "open", "halt",
                   "watch", "stop", "settle", "haltsettle", "failcancel"} : Goto(w, pc)
    BY <1>2, <1>i DEF StartWorker, WorkerCheck, Register, WorkerStops, OrphansDone,
       NothingQueued, SpawnRunner, PersistRunner, PersistFails, OpenGate, WatchStops,
       KillRunner, AnalysisFails, AnalysisCancelled, FailCancelled, FailSource
  <2> QED BY <1>g, <2>1 DEF Seeking
<1>3. CASE WorkerCrash(w) \/ Claim(w)
  <2>1. \E j : Turns(w, "dead", j) \/ Turns(w, "claimed", j)
    BY <1>0, <1>3, TurnsJob DEF WorkerCrash, Claim
  <2> QED BY <2>1 DEF Turns, Seeking
<1>4. CASE ScanOrphans(w) \/ OrphanSurvives(w)
  <2> DEFINE c == [wk[w] EXCEPT !.pc = "orphans", !.safe = TRUE]
             d == [wk[w] EXCEPT !.safe = FALSE]
  <2>1. c.pc = "orphans" /\ d.pc = wk[w].pc  BY <1>0 DEF WorkersOK, WorkerType
  <2>2. \/ wk' = [wk EXCEPT ![w] = c]
        \/ wk' = [wk EXCEPT ![w] = d] /\ wk[w].pc = "orphans"
    BY <1>4 DEF ScanOrphans, OrphanSurvives, Reconciles, At
  <2> HIDE DEF c, d
  <2> QED BY <1>0, <2>1, <2>2, TurnsTo DEF Turns, Seeking
<1>5. CASE Claimed(w)
  <2>1. PICK j \in Job :
          /\ row[j].status = "claiming"
          /\ wk' = [wk EXCEPT ![w] = [@ EXCEPT !.pc = "prepare", !.job = j]]
    BY <1>5, <1>i DEF Claimed
  <2>2. Turns(w, "prepare", j)  BY <1>0, <2>1, TurnsJob
  <2>3. wk'[w].pc = "prepare" /\ Mine(w)' = j  BY <2>2 DEF Turns, Mine
  <2> QED BY <2>1, <2>3
<1>6. CASE Prepare(w) \/ AnalysisDone(w) \/ Apply(w)
  <2>1. /\ wk[w].pc \in Seeking
        /\ \/ \E pc \in {"analyse", "apply", "decide"} : Goto(w, pc)
           \/ Goto(w, "spawn") /\ ~(row[Mine(w)].payload /\ ~row[Mine(w)].sel)
    BY <1>6, <1>i DEF Prepare, AnalysisDone, Apply, At, Seeking
  <2> QED BY <1>g, <2>1
<1>7. CASE Decide(w)
  <2>1. Mine(w) \in Job  BY <1>7, <1>m DEF Decide, At, Busy, Supervising
  <2>2. CASE Goto(w, "failsource")  BY <1>g, <2>2 DEF Seeking
  <2>3. CASE ~Goto(w, "failsource")
    <3>1. /\ wk[w].pc = "decide" /\ Goto(w, "handoff")
          /\ row' = [row EXCEPT ![Mine(w)] = [@ EXCEPT !.status = "source_analysis_ready",
                                !.sel = Selected(Mine(w), "source_analysis_ready")]]
      BY <1>7, <1>i, <2>3 DEF Decide, At
    <3>2. row'[Mine(w)].sel  BY <1>0, <2>1, <3>1 DEF RowsOK, RowType, Selected
    <3> QED BY <1>g, <3>1, <3>2 DEF Seeking
  <2> QED BY <2>2, <2>3
<1>8. CASE Handoff(w)
  <2>1. wk[w].pc = "handoff" /\ \E pc \in {"spawn", "failsource"} : Goto(w, pc)
    BY <1>8, <1>i DEF Handoff, At
  <2> QED BY <1>g, <2>1 DEF Seeking
<1>9. CASE SettleStopped(w) \/ CloseStopped(w)
  <2>1. Stopped(w) \/ Goto(w, "close") \/ Goto(w, "haltclose")
    BY <1>9 DEF SettleStopped, CloseStopped
  <2> QED BY <1>0, <1>g, <2>1, TurnsStopped DEF Turns, Seeking
<1>10. CASE RunnerExited(w)
  <2> DEFINE c == [wk[w] EXCEPT !.pc = "exit", !.seen = row[Mine(w)].status,
                                !.seenCancel = row[Mine(w)].cancel]
  <2>1. c.pc = "exit"  BY <1>0 DEF WorkersOK, WorkerType
  <2>2. wk' = [wk EXCEPT ![w] = c]  BY <1>10, <1>i DEF RunnerExited
  <2> HIDE DEF c
  <2> QED BY <1>0, <2>1, <2>2, TurnsTo DEF Turns, Seeking
<1>11. CASE ExitReconcile(w) \/ ExitCancelled(w)
  <2>1. \E t, b : \E next \in {"idle", "exit2"} : MoveOrUnwind(w, t, b, next)
    BY <1>11 DEF ExitReconcile, ExitCancelled
  <2> QED BY <1>0, <2>1, TurnsUnwind DEF Turns, Seeking
<1> QED
  BY <1>1, <1>2, <1>3, <1>4, <1>5, <1>6, <1>7, <1>8, <1>9, <1>10, <1>11
  DEF WorkerStep, WorkerEvent

\* A worker starts no runner but at "spawn", for its own row.
LEMMA WorkerSpawns ==
  ASSUME TypeOK, NEW w \in Worker, WorkerStep(w) \/ WorkerEvent(w),
         NEW v \in Worker, NEW i \in Job, RunnerUp(v, i)'
  PROVE  RunnerUp(v, i) \/ (v = w /\ i = Mine(w) /\ At(w, "spawn"))
<1>0. RowsOK /\ WorkersOK /\ RunnersOK /\ TodoOK  BY TypeParts
<1>m. wk[w].pc \in Busy => Mine(w) \in Job  BY <1>0, BusyJob
<1>1. CASE SpawnRunner(w)
  <2>1. Mine(w) \in Job /\ At(w, "spawn")
    BY <1>1, <1>m DEF SpawnRunner, At, Busy, Supervising
  <2>2. PICK c : run' = [run EXCEPT ![w][Mine(w)] = c]  BY <1>1 DEF SpawnRunner
  <2> QED BY <1>0, <2>1, <2>2, RunBecomes DEF Becomes, RunnerUp
<1>2. CASE PersistRunner(w) \/ OpenGate(w)
  <2>1. Mine(w) \in Job  BY <1>2, <1>m DEF PersistRunner, OpenGate, At, Busy, Supervising
  <2> DEFINE c == [run[w][Mine(w)] EXCEPT !.known = TRUE]
             d == [run[w][Mine(w)] EXCEPT !.gate = TRUE]
  <2>2. \/ UNCHANGED run
        \/ /\ OwnRunnerUp(w)
           /\ \/ run' = [run EXCEPT ![w][Mine(w)] = c]
              \/ run' = [run EXCEPT ![w][Mine(w)] = d]
    BY <1>2 DEF PersistRunner, OpenGate
  <2> HIDE DEF c, d
  <2> QED BY <1>0, <2>1, <2>2, RunBecomes DEF Becomes, RunnerUp, OwnRunnerUp
<1>3. CASE OrphanProbe(w)
  <2>1. PICK o \in todo[w] : run' = IF TrackedUp(o, o.job) THEN Killed(o.rw, o.job) ELSE run
    BY <1>3 DEF OrphanProbe
  <2>2. o \in OrphanType  BY <1>0, TodoUpdate
  <2>3. o.job \in Job /\ (TrackedUp(o, o.job) => o.rw \in Worker)
    BY <2>2 DEF TrackedUp, OrphanType
  <2> QED BY <1>0, <2>1, <2>3, KilledBecomes DEF RunnerUp
<1>4. CASE KillRunner(w)
  <2>1. Mine(w) \in Job  BY <1>4, <1>m DEF KillRunner, At, Busy
  <2> DEFINE u == IF TrackedUp(row[Mine(w)], Mine(w)) THEN row[Mine(w)].rw ELSE w
  <2>2. u \in Worker  BY <1>0, <2>1 DEF TrackedUp, RowsOK, RowType
  <2>3. run' = Killed(u, Mine(w))  BY <1>4 DEF KillRunner
  <2> HIDE DEF u
  <2> QED BY <1>0, <2>1, <2>2, <2>3, KilledBecomes DEF RunnerUp
<1>5. \/ PersistRunner(w) \/ SpawnRunner(w) \/ OpenGate(w) \/ OrphanProbe(w) \/ KillRunner(w)
      \/ UNCHANGED run
  BY DEF WorkerStep, WorkerEvent, StartWorker, WorkerCheck, Register,
      Heartbeat, LeaseExpires, RequestStop, WorkerStops,
      WorkerCrash, ScanOrphans, OrphanSurvives, OrphanSettle,
      OrphanCancel, OrphanClose, OrphansDone, Claim, Claimed,
      NothingQueued, Prepare, AnalysisFails, AnalysisCancelled,
      FailCancelled, AnalysisDone, Apply, Decide, FailSource,
      Handoff, PersistFails, WatchStops, SettleStopped,
      CloseStopped, RunnerExited, ExitReconcile, ExitCancelled
<1> QED BY <1>1, <1>2, <1>3, <1>4, <1>5 DEF RunnerUp

\* A runner that is over does not come back.
LEMMA RunnerEnds ==
  ASSUME TypeOK, NEW w \in Worker, NEW j \in Job, RunnerMoves(w, j),
         NEW v \in Worker, NEW i \in Job, RunnerUp(v, i)'
  PROVE  RunnerUp(v, i)
<1>0. RunnersOK /\ run[w][j] \in RunnerType  BY TypeParts DEF RunnersOK
<1>1. CASE PipelineExits(w, j)
  <2> DEFINE c == [run[w][j] EXCEPT !.pipe = "none"]
  <2>1. c.st = run[w][j].st  BY <1>0 DEF RunnerType
  <2>2. run' = [run EXCEPT ![w][j] = c]  BY <1>1 DEF PipelineExits
  <2> HIDE DEF c
  <2> QED BY <1>0, <2>1, <2>2, RunBecomes DEF Becomes, RunnerUp
<1>2. CASE ~PipelineExits(w, j)
  <2>1. run[w][j].st # "none"
    BY <1>2 DEF RunnerMoves, RunnerStep, RunnerAlone, GateTimeout, Boot, BootCancel,
       BootCancelled, Reject, Start, Running, SpawnPipeline, SpawnFails, RecordPid,
       ObserveCancel, ObserveStop, PipelineDone, Finalize, StepOwned, RunnerUp
  <2> QED BY <2>1, RunnerLoose DEF RunnerUp
<1> QED BY <1>1, <1>2

\* A row that is claimed has its payload.
LEMMA ClaimedIsEquipped ==
  ASSUME TypeOK, FlagInv, SourceInv, [Next]_vars, [ClaimsWhole]_vars,
         NEW j \in Job, row'[j].status = "claiming"
  PROVE  row'[j].payload
<1>1. row[j].status # "absent" /\ row[j].payload => row'[j].payload
  BY SourceStays DEF Equipped
<1>2. CASE row[j].status = "claiming"  BY <1>1, <1>2 DEF SourceInv
<1>3. CASE row[j].status = "queued"
  <2>1. ~UNCHANGED vars  BY <1>3 DEF vars
  <2> QED BY <1>1, <1>3, <2>1 DEF ClaimsWhole
<1>4. CASE row[j].status \notin {"claiming", "queued"}
  <2>1. ~Stays(j)  BY <1>4 DEF Stays, InFlight
  <2>2. ASSUME NEW w \in Worker, WorkerStep(w) \/ WorkerEvent(w) PROVE row'[j].payload
    <3>1. PICK i \in Job : Takes(w, i)  BY <2>1, <2>2, WorkerStays
    <3>2. i = j  BY <1>4, <3>1 DEF Takes, Others
    <3>3. At(w, "handoff") /\ Mine(w) = j  BY <1>4, <3>1, <3>2 DEF Takes
    <3> QED BY <1>1, <3>3 DEF SourceInv, Equipped, At, Seeking
  <2>3. ASSUME NEW w \in Worker, NEW i \in Job, RunnerMoves(w, i) PROVE FALSE
    BY <1>4, <2>1, <2>3, RunnerStays DEF Others
  <2>4. ASSUME NEW r \in Request, UiStep(r) PROVE FALSE  BY <2>1, <2>4, UiStays
  <2>5. ~UNCHANGED vars  BY <1>4 DEF vars
  <2> QED BY <2>2, <2>3, <2>4, <2>5 DEF Next
<1> QED BY <1>2, <1>3, <1>4

\* SourceInv is inductive: what a worker reads on its way to a runner stays true until the
\* runner is there.
LEMMA SourceStep ==
  TypeOK /\ FlagInv /\ SourceInv /\ [Next]_vars /\ [ClaimsWhole]_vars => SourceInv'
<1> SUFFICES ASSUME TypeOK, FlagInv, SourceInv, [Next]_vars, [ClaimsWhole]_vars
             PROVE  SourceInv'
  OBVIOUS
<1>0. WorkersOK  BY TypeParts
<1> DEFINE Ready(w) == /\ wk[w].pc \in Seeking => Equipped(Mine(w))
                       /\ wk[w].pc \in {"handoff", "spawn"} => Chosen(Mine(w))
<1>m. ASSUME NEW w \in Worker, wk[w].pc \in Seeking \union {"spawn"} PROVE Mine(w) \in Job
  BY <1>0, <1>m, BusyJob DEF Seeking, Busy, Supervising
<1>1. ASSUME NEW w \in Worker, wk'[w].pc = wk[w].pc, Mine(w)' = Mine(w) PROVE Ready(w)'
  <2>1. CASE wk[w].pc \in Seeking \union {"spawn"}
    <3>1. PICK j \in Job : j = Mine(w)  BY <1>m, <2>1
    <3>2. /\ wk[w].pc \in Seeking => Equipped(j)
          /\ wk[w].pc \in {"handoff", "spawn"} => Chosen(j)
      BY <3>1 DEF SourceInv
    <3>3. (Equipped(j) => Equipped(j)') /\ (Chosen(j) => Chosen(j)')  BY SourceStays
    <3> QED BY <1>1, <3>1, <3>2, <3>3 DEF Equipped, Chosen
  <2>2. CASE wk[w].pc \notin Seeking \union {"spawn"}  BY <1>1, <2>2 DEF Seeking
  <2> QED BY <2>1, <2>2
<1>2. ASSUME NEW w \in Worker, WorkerStep(w) \/ WorkerEvent(w) PROVE SourceInv'
  <2>1. ASSUME NEW v \in Worker PROVE Ready(v)'
    <3>1. CASE v # w
      <4>1. wk'[v] = wk[v]  BY <1>2, <3>1, WorkerGoes
      <4> QED BY <1>1, <4>1 DEF Mine
    <3>2. CASE v = w /\ wk'[w].pc \notin Seeking \union {"spawn"}
      BY <3>2 DEF Seeking
    <3>3. CASE v = w /\ wk'[w].pc = "prepare" /\ Mine(w)' \in Job /\ row[Mine(w)'].status = "claiming"
      <4>1. PICK j \in Job : j = Mine(w)'  BY <3>3
      <4>2. Equipped(j)  BY <3>3, <4>1 DEF SourceInv, Equipped
      <4>3. Equipped(j)'  BY <4>2, SourceStays
      <4> QED BY <3>3, <4>1, <4>3 DEF Equipped
    <3>4. CASE /\ v = w /\ wk[w].pc \in Seeking /\ Mine(w)' = Mine(w)
               /\ \/ wk'[w].pc \in {"analyse", "apply", "decide"}
                  \/ wk'[w].pc = "handoff" /\ row'[Mine(w)].sel
                  \/ /\ wk'[w].pc = "spawn"
                     /\ wk[w].pc = "handoff" \/ (row[Mine(w)].payload => row[Mine(w)].sel)
      <4>1. PICK j \in Job : j = Mine(w)  BY <1>m, <3>4
      <4>2. Equipped(j) /\ (wk[w].pc = "handoff" => Chosen(j))  BY <3>4, <4>1 DEF SourceInv
      <4>3. Equipped(j)' /\ (Chosen(j) => Chosen(j)')  BY <4>2, SourceStays
      <4>4. wk'[w].pc \in {"handoff", "spawn"} => Chosen(j)'
        BY <3>4, <4>1, <4>2, <4>3 DEF Equipped, Chosen
      <4> QED BY <3>4, <4>1, <4>3, <4>4 DEF Equipped, Chosen
    <3> QED BY <1>1, <1>2, <3>1, <3>2, <3>3, <3>4, SourceTurns
  <2>2. ASSUME NEW v \in Worker, NEW i \in Job, RunnerUp(v, i)' PROVE Chosen(i)'
    <3>1. Chosen(i)  BY <1>2, <2>2, WorkerSpawns DEF SourceInv, At
    <3> QED BY <3>1, SourceStays
  <2> QED BY <2>1, <2>2, ClaimedIsEquipped DEF SourceInv
<1>3. ASSUME UNCHANGED wk,
             \A v \in Worker, i \in Job : RunnerUp(v, i)' => RunnerUp(v, i)
      PROVE  SourceInv'
  <2>1. \A v \in Worker : Ready(v)'  BY <1>1, <1>3 DEF Mine
  <2>2. \A v \in Worker, i \in Job : RunnerUp(v, i)' => Chosen(i)'
    BY <1>3, SourceStays DEF SourceInv
  <2> QED BY <2>1, <2>2, ClaimedIsEquipped DEF SourceInv
<1>4. ASSUME NEW w \in Worker, NEW j \in Job, RunnerMoves(w, j) PROVE SourceInv'
  BY <1>3, <1>4, RunnerEnds DEF RunnerMoves
<1>5. ASSUME NEW r \in Request, UiStep(r) PROVE SourceInv'
  BY <1>3, <1>5 DEF UiStep, RunnerUp
<1>6. CASE UNCHANGED vars  BY <1>3, <1>6 DEF vars, RunnerUp
<1> QED BY <1>2, <1>4, <1>5, <1>6 DEF Next

\* _runner_input_ready, "Fail closed before spawning a runner with incomplete URL source
\* evidence", holds but for the race the run ClaimSourceEvidence shows: unless a worker
\* claims a row before _create_job has stored its source type, no runner is ever started
\* for a row without a page selection, whatever is analysed, resumed, confirmed, handed
\* over or requeued, and whoever dies.
THEOREM SourceIsThere == Spec /\ [][ClaimsWhole]_vars => []NoRunnerWithoutSource
<1>1. SourceInv => NoRunnerWithoutSource  BY DEF SourceInv, NoRunnerWithoutSource, Chosen
<1>2. TypeOK /\ FlagInv /\ SourceInv /\ [Next]_vars /\ [ClaimsWhole]_vars => SourceInv'
  BY SourceStep
<1> QED BY <1>1, <1>2, SourceInit, AttendInit, FlagStep, TypeCorrect, PTL DEF Spec

==============================================================================
