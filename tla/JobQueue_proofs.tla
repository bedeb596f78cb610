---------------------------- MODULE JobQueue_proofs ----------------------------
(***************************************************************************)
(* What holds of the worker queue in every behaviour: its types, the       *)
(* lifecycle it implements, that settled rows stay, and that no runner     *)
(* works on a job before its pid is stored.                                *)
(*                                                                         *)
(* TypeOK is inductive as it stands: that a worker past its claim holds a  *)
(* row is one of its conjuncts.  It is split into one part per variable so *)
(* that each case of Next proves only the parts its action disturbs.       *)
(***************************************************************************)
EXTENDS JobQueue, TLAPS

\* The conjuncts of TypeOK, one per variable or group of variables.
RowsOK == row \in [Job -> RowType]
LeasesOK == lease \in [Worker -> {"none", "fresh",
      "stale"}] /\ stopq \in [Worker -> BOOLEAN]
WorkersOK ==
  /\ wk \in [Worker -> WorkerType]
  /\ \A w \in Worker : wk[w].pc \in Busy => wk[w].job \in Job
TodoOK == todo \in [Worker -> SUBSET OrphanType]
RunnersOK == run \in [Worker -> [Job -> RunnerType]]
RequestsOK ==
  /\ rq \in [Request -> RequestType]
  /\ \A r \in Request : rq[r].pc \notin {"idle", "insert"} => rq[r].job \in Job

\* TypeOK is the conjunction of its parts, before and after a step.
LEMMA TypeParts ==
  /\ TypeOK <=> RowsOK /\ LeasesOK /\ WorkersOK /\ TodoOK /\ RunnersOK /\ RequestsOK
  /\ TypeOK' <=> RowsOK' /\ LeasesOK' /\ WorkersOK' /\ TodoOK' /\ RunnersOK' /\ RequestsOK'
  BY DEF TypeOK, RowsOK, LeasesOK, WorkersOK, TodoOK, RunnersOK,
      RequestsOK

\* The named sets of statuses are sets of statuses of a row that was inserted.
LEMMA StatusSets ==
  /\ Terminal \subseteq Status /\ InFlight \subseteq Status /\ Holds \subseteq Status
  /\ "absent" \notin Status
  BY DEF Status, Terminal, InFlight, Holds

\* Each status the code writes is a status.
LEMMA StatusValues ==
  /\ "queued" \in Status /\ "interrupted" \in Status /\ "resumable" \in Status
  /\ "claiming" \in Status /\ "starting" \in Status /\ "running" \in Status
  /\ "cancelling" \in Status /\ "cancelled" \in Status /\ "failed" \in Status
  /\ "finished" \in Status /\ "review_required" \in Status
  /\ "awaiting_source_review" \in Status /\ "source_analysis_ready" \in Status
  /\ "waiting_source_verification" \in Status
  BY DEF Status, Terminal, InFlight, Holds

\* Replacing a row by a well-typed one keeps the table well typed.
LEMMA RowUpdate ==
  ASSUME RowsOK, NEW j \in Job, NEW r \in RowType
  PROVE  [row EXCEPT ![j] = r] \in [Job -> RowType]
  BY DEF RowsOK

\* transition() keeps the table well typed, whether it writes or raises.
LEMMA MovedType ==
  ASSUME RowsOK, NEW j \in Job, NEW t \in Status
  PROVE  Moved(j, t) \in [Job -> RowType]
<1>1. [row[j] EXCEPT !.status = t] \in RowType  BY DEF RowsOK, RowType
<1> QED BY <1>1, RowUpdate DEF Moved, RowsOK

\* So does a transition() that also writes the recoverable column.
LEMMA MovedRType ==
  ASSUME RowsOK, NEW j \in Job, NEW t \in Status, NEW b \in BOOLEAN
  PROVE  MovedR(j, t, b) \in [Job -> RowType]
<1>1. [row[j] EXCEPT !.status = t, !.recov = b] \in RowType  BY DEF RowsOK, RowType
<1> QED BY <1>1, RowUpdate DEF MovedR, RowsOK

\* Replacing the state of a worker by a well-typed one that holds a job
\* where it must.
LEMMA WorkerUpdate ==
  ASSUME WorkersOK, NEW w \in Worker, NEW c \in WorkerType,
        c.pc \in Busy => c.job \in Job,
         wk' = [wk EXCEPT ![w] = c]
  PROVE  WorkersOK'
  BY DEF WorkersOK

\* A worker that goes on with its job.
LEMMA GotoType ==
  ASSUME WorkersOK, NEW w \in Worker, NEW pc \in WorkerPc, Goto(w, pc),
         pc \in Busy => wk[w].job \in Job
  PROVE  WorkersOK'
<1> DEFINE c == [wk[w] EXCEPT !.pc = pc]
<1>1. c \in WorkerType /\ c.pc = pc /\ c.job = wk[w].job  BY DEF WorkersOK, WorkerType
<1>2. wk' = [wk EXCEPT ![w] = c]  BY DEF Goto
<1> QED BY <1>1, <1>2, WorkerUpdate

\* A worker that goes on with another job, or with none.
LEMMA GotoJobType ==
  ASSUME WorkersOK, NEW w \in Worker, NEW pc \in WorkerPc, NEW j \in Job \union {NoJob},
         wk' = [wk EXCEPT ![w] = [@ EXCEPT !.pc = pc, !.job = j]],
               pc \in Busy => j \in Job
  PROVE  WorkersOK'
<1> DEFINE c == [wk[w] EXCEPT !.pc = pc, !.job = j]
<1>1. c \in WorkerType /\ c.pc = pc /\ c.job = j  BY DEF WorkersOK, WorkerType
<1> HIDE DEF c
<1>2. wk' = [wk EXCEPT ![w] = c]  BY DEF c
<1> QED BY <1>1, <1>2, WorkerUpdate

\* A worker back at the top of its loop.
LEMMA GotoIdleType ==
  ASSUME WorkersOK, NEW w \in Worker, GotoIdle(w)
  PROVE  WorkersOK'
<1>1. "idle" \in WorkerPc /\ "idle" \notin Busy  BY DEF WorkerPc, Supervising, Busy
<1> QED BY <1>1, GotoJobType DEF GotoIdle

\* A worker that leaves, taking its lease with it.
LEMMA LeaveType ==
  ASSUME WorkersOK, LeasesOK, NEW w \in Worker, Leave(w)
  PROVE  WorkersOK' /\ lease' \in [Worker -> {"none", "fresh", "stale"}]
<1>1. "exited" \in WorkerPc /\ "exited" \notin Busy  BY DEF WorkerPc, Supervising,
      Busy, Down
<1> QED BY <1>1, GotoJobType DEF Leave, LeasesOK

\* The empty queue is well typed.
LEMMA InitType == Init => TypeOK
  BY DEF Init, TypeOK, RowType, NoRow, NoRunner, RunnerType,
      WorkerType, RequestType, WorkerPc, Supervising, Down, Busy,
      OrphanType

\* The empty row and the absent runner are well typed, and so is every runner.
LEMMA Constructors ==
  /\ NoRow \in RowType /\ NoRunner \in RunnerType
  /\ \A w \in Worker : RunnersOK => \A j \in Job : run[w][j] \in RunnerType
  BY DEF NoRow, RowType, NoRunner, RunnerType, RunnersOK

\* Replacing a runner by a well-typed one.
LEMMA RunUpdate ==
  ASSUME RunnersOK, NEW w \in Worker, NEW j \in Job, NEW c \in RunnerType,
         run' = [run EXCEPT ![w][j] = c]
  PROVE  RunnersOK'
  BY DEF RunnersOK

\* terminate_tree keeps the runners well typed.
LEMMA KilledType ==
  ASSUME RunnersOK, NEW w \in Worker, NEW j \in Job, run' = Killed(w, j)
  PROVE  RunnersOK'
  BY Constructors, RunUpdate DEF Killed, RunnersOK

\* A worker past its claim holds a row.
LEMMA BusyJob ==
  ASSUME WorkersOK, NEW w \in Worker, wk[w].pc \in Busy
  PROVE  Mine(w) \in Job
  BY DEF WorkersOK, Mine

\* Advancing an orphan, or dropping it, keeps the snapshot well typed.
LEMMA TodoUpdate ==
  ASSUME TodoOK, NEW w \in Worker, NEW o \in todo[w], NEW p \in {"probe", "settle",
        "cancel", "close"}
  PROVE  /\ Advance(w, o, p) => TodoOK'
         /\ Drop(w, o) => TodoOK'
         /\ o \in OrphanType
<1>1. o \in OrphanType  BY DEF TodoOK
<1>2. [o EXCEPT !.phase = p] \in OrphanType  BY <1>1 DEF OrphanType
<1> QED BY <1>1, <1>2 DEF TodoOK, Advance, Drop

\* An owned transition of the accounting after an exit, or the unwinding it
\* causes, keeps the types.
LEMMA UnwindType ==
  ASSUME RowsOK, WorkersOK, LeasesOK, UNCHANGED stopq, NEW w \in Worker,
        Mine(w) \in Job,
         NEW t \in Status, NEW b \in BOOLEAN, NEW next \in {"idle", "exit2"},
         MoveOrUnwind(w, t, b, next)
  PROVE  RowsOK' /\ WorkersOK' /\ LeasesOK'
<1>1. CASE CanMoveOwned(w, Mine(w), t)
  <2> DEFINE c == [wk[w] EXCEPT !.pc = next, !.job = HeldAt(w, next),
                                !.seen = "absent", !.seenCancel = FALSE]
             d == [row[Mine(w)] EXCEPT !.status = t, !.recov = b]
  <2>1. d \in RowType  BY DEF RowsOK, RowType
  <2>2. c \in WorkerType /\ (c.pc \in Busy => c.job \in Job)
    <3>1. HeldAt(w, next) \in Job \union {NoJob} /\ (next \in Busy => HeldAt(w,
          next) \in Job)
      BY DEF HeldAt, Busy, Supervising
    <3>2. next \in WorkerPc  BY DEF WorkerPc, Busy
    <3> QED BY <3>1, <3>2 DEF WorkersOK, WorkerType
  <2>3. wk' = [wk EXCEPT ![w] = c]
    <3>1. MoveOrUnwind(w, t, b, next)  OBVIOUS
    <3> QED BY <1>1, <3>1 DEF MoveOrUnwind
  <2>4. row' = [row EXCEPT ![Mine(w)] = d] /\ UNCHANGED lease  BY <1>1 DEF MoveOrUnwind
  <2> HIDE DEF c, d
  <2> QED BY <2>1, <2>2, <2>3, <2>4, WorkerUpdate DEF RowsOK, LeasesOK
<1>2. CASE ~CanMoveOwned(w, Mine(w), t)
  <2> DEFINE c == [wk[w] EXCEPT !.pc = "exited", !.job = NoJob,
                                !.seen = "absent", !.seenCancel = FALSE]
  <2>1. c \in WorkerType /\ c.pc \notin Busy
    BY DEF WorkersOK, WorkerType, WorkerPc, Supervising, Busy, Down
  <2>2. /\ wk' = [wk EXCEPT ![w] = c] /\ UNCHANGED row
        /\ lease' = [lease EXCEPT ![w] = "none"]
    BY <1>2 DEF MoveOrUnwind
  <2> HIDE DEF c
  <2> QED BY <2>1, <2>2, WorkerUpdate DEF RowsOK, LeasesOK
<1> QED BY <1>1, <1>2

\* A step of the worker loop preserves TypeOK: one case per action, and under
\* it one step per variable the action writes.
LEMMA WorkerStepType ==
  ASSUME TypeOK, NEW w \in Worker, WorkerStep(w)
  PROVE  TypeOK'
<1> USE TypeParts, StatusSets, StatusValues
<1>1. CASE WorkerCheck(w)
  BY <1>1, GotoType, GotoIdleType, LeaveType
  DEF WorkerCheck, RowsOK, LeasesOK, WorkersOK, TodoOK, RunnersOK,
      RequestsOK, WorkerPc, Supervising, Busy, Down, At, Mine
<1>2. CASE Register(w)
  BY <1>2, GotoType, GotoIdleType, LeaveType
  DEF Register, RowsOK, LeasesOK, WorkersOK, TodoOK, RunnersOK,
      RequestsOK, WorkerPc, Supervising, Busy, Down, At, Mine
<1>3. CASE WorkerStops(w)
  BY <1>3, GotoType, GotoIdleType, LeaveType
  DEF WorkerStops, RowsOK, LeasesOK, WorkersOK, TodoOK, RunnersOK,
      RequestsOK, WorkerPc, Supervising, Busy, Down, At, Mine
<1>4. CASE ScanOrphans(w)
  <2>1. WorkersOK'
    <3> DEFINE c == [wk[w] EXCEPT !.pc = "orphans", !.safe = TRUE]
    <3>1. c \in WorkerType /\ c.pc \notin Busy  BY DEF WorkersOK, WorkerType,
          WorkerPc, Supervising, Busy
    <3> HIDE DEF c
    <3>2. wk' = [wk EXCEPT ![w] = c]  BY <1>4 DEF ScanOrphans, c
    <3> QED BY <3>1, <3>2, WorkerUpdate
  <2>2. \A j \in Job : Orphan(j) \in OrphanType
    BY DEF Orphan, OrphanType, RowsOK, RowType
  <2>3. TodoOK'
    BY <1>4, <2>2 DEF ScanOrphans, TodoOK
  <2> QED BY <1>4, <2>1, <2>3 DEF ScanOrphans, RowsOK, LeasesOK, WorkersOK, TodoOK,
        RunnersOK,
      RequestsOK
<1>5. CASE OrphanProbe(w)
  <2>1. PICK o \in todo[w] :
          /\ run' = IF TrackedUp(o, o.job) THEN Killed(o.rw, o.job) ELSE run
          /\ Advance(w, o, "settle")
    BY <1>5 DEF OrphanProbe
  <2>2. o \in OrphanType /\ TodoOK'  BY <2>1, TodoUpdate
  <2>3. TrackedUp(o, o.job) => o.rw \in Worker
    BY <2>2 DEF TrackedUp, OrphanType
  <2>4. RunnersOK'
    <3>1. CASE TrackedUp(o, o.job)
      BY <2>1, <2>2, <2>3, <3>1, KilledType DEF OrphanType
    <3>2. CASE ~TrackedUp(o, o.job)
      BY <2>1, <3>2 DEF RunnersOK
    <3> QED BY <3>1, <3>2
  <2> QED BY <1>5, <2>2, <2>4 DEF OrphanProbe, RowsOK, LeasesOK, WorkersOK, TodoOK,
        RunnersOK,
      RequestsOK
<1>6. CASE OrphanSettle(w)
  <2>1. PICK o \in todo[w] :
          \/ UNCHANGED row /\ (Advance(w, o, "cancel") \/ Advance(w, o, "close"))
          \/ row' = MovedR(o.job, "interrupted", TRUE) /\ Drop(w, o)
    BY <1>6 DEF OrphanSettle, RecoveredAs
  <2>2. o.job \in Job  BY <2>1, TodoUpdate DEF OrphanType
  <2>3. TodoOK' /\ RowsOK'  BY <2>1, <2>2, TodoUpdate, MovedRType DEF RowsOK
  <2> QED BY <1>6, <2>3 DEF OrphanSettle, RowsOK, LeasesOK, WorkersOK, TodoOK,
        RunnersOK,
      RequestsOK
<1>7. CASE OrphanCancel(w)
  <2>1. TodoOK' /\ RowsOK'
    BY <1>7, TodoUpdate, MovedType, MovedRType DEF OrphanCancel, RecoveredAs,
          OrphanType, RowsOK
  <2> QED BY <1>7, <2>1 DEF OrphanCancel, RowsOK, LeasesOK, WorkersOK, TodoOK,
        RunnersOK,
      RequestsOK
<1>8. CASE OrphanClose(w)
  <2>1. PICK o \in todo[w] : row' = MovedR(o.job, "cancelled", FALSE) /\ Drop(w, o)
    BY <1>8 DEF OrphanClose
  <2>2. o.job \in Job  BY <2>1, TodoUpdate DEF OrphanType
  <2>3. TodoOK' /\ RowsOK'  BY <2>1, <2>2, TodoUpdate, MovedRType DEF RowsOK
  <2> QED BY <1>8, <2>3 DEF OrphanClose, RowsOK, LeasesOK, WorkersOK, TodoOK, RunnersOK,
      RequestsOK
<1>9. CASE OrphansDone(w)
  BY <1>9, GotoType, GotoIdleType, LeaveType
  DEF OrphansDone, RowsOK, LeasesOK, WorkersOK, TodoOK, RunnersOK,
      RequestsOK, WorkerPc, Supervising, Busy, Down, At, Mine
<1>10. CASE Claim(w)
  <2>1. PICK j \in Job :
          /\ row' = [row EXCEPT ![j] = [@ EXCEPT !.status = "claiming", !.owner = w]]
          /\ wk' = [wk EXCEPT ![w] = [@ EXCEPT !.pc = "claimed", !.job = j]]
    BY <1>10 DEF Claim
  <2>2. [row[j] EXCEPT !.status = "claiming", !.owner = w] \in RowType
    BY DEF RowsOK, RowType, InFlight
  <2>3. RowsOK'  BY <2>1, <2>2 DEF RowsOK
  <2>4. WorkersOK'  BY <2>1, GotoJobType DEF WorkerPc, Supervising, Busy
  <2> QED BY <1>10, <2>3, <2>4 DEF Claim, RowsOK, LeasesOK, WorkersOK, TodoOK,
        RunnersOK,
      RequestsOK
<1>11. CASE Claimed(w)
  <2>1. WorkersOK'
    <3>1. CASE GotoIdle(w)  BY <3>1, GotoIdleType
    <3>2. CASE \E j \in Job : wk' = [wk EXCEPT ![w] = [@ EXCEPT !.pc = "prepare",
          !.job = j]]
      BY <3>2, GotoJobType DEF WorkerPc, Supervising, Busy
    <3>3. wk[w].pc \in Busy  BY <1>11 DEF Claimed, At, Busy, Supervising
    <3> QED BY <1>11, <3>1, <3>2, <3>3, BusyJob DEF Claimed, Mine
  <2> QED BY <1>11, <2>1 DEF Claimed, RowsOK, LeasesOK, WorkersOK, TodoOK, RunnersOK,
      RequestsOK
<1>12. CASE NothingQueued(w)
  BY <1>12, GotoType, GotoIdleType, LeaveType
  DEF NothingQueued, RowsOK, LeasesOK, WorkersOK, TodoOK,
      RunnersOK, RequestsOK, WorkerPc, Supervising, Busy, Down,
      At, Mine
<1>13. CASE Prepare(w)
  BY <1>13, GotoType, GotoIdleType, LeaveType
  DEF Prepare, RowsOK, LeasesOK, WorkersOK, TodoOK, RunnersOK,
      RequestsOK, WorkerPc, Supervising, Busy, Down, At, Mine
<1>14. CASE AnalysisFails(w)
  <2>1. Mine(w) \in Job  BY <1>14, BusyJob DEF AnalysisFails, At, Busy, Supervising
  <2>2. RowsOK'
    BY <1>14, <2>1, MovedType DEF AnalysisFails, RowsOK
  <2>3. WorkersOK'
    BY <1>14, <2>1, GotoIdleType, GotoType DEF AnalysisFails, WorkerPc, Supervising,
          Busy, Mine
  <2> QED BY <1>14, <2>2, <2>3 DEF AnalysisFails, RowsOK, LeasesOK, WorkersOK, TodoOK,
      RunnersOK, RequestsOK
<1>15. CASE AnalysisCancelled(w)
  <2>1. Mine(w) \in Job  BY <1>15, BusyJob DEF AnalysisCancelled, At, Busy, Supervising
  <2>2. RowsOK'
    BY <1>15, <2>1, MovedType DEF AnalysisCancelled, RowsOK
  <2>3. WorkersOK'
    BY <1>15, <2>1, GotoIdleType, GotoType DEF AnalysisCancelled, WorkerPc,
          Supervising, Busy, Mine
  <2> QED BY <1>15, <2>2, <2>3 DEF AnalysisCancelled, RowsOK, LeasesOK, WorkersOK,
        TodoOK,
      RunnersOK, RequestsOK
<1>16. CASE FailCancelled(w)
  <2>1. Mine(w) \in Job  BY <1>16, BusyJob DEF FailCancelled, At, Busy, Supervising
  <2>2. RowsOK'
    BY <1>16, <2>1, MovedType DEF FailCancelled, RowsOK
  <2>3. WorkersOK'
    BY <1>16, <2>1, GotoIdleType, GotoType DEF FailCancelled, WorkerPc, Supervising,
          Busy, Mine
  <2> QED BY <1>16, <2>2, <2>3 DEF FailCancelled, RowsOK, LeasesOK, WorkersOK, TodoOK,
      RunnersOK, RequestsOK
<1>17. CASE AnalysisDone(w)
  BY <1>17, GotoType, GotoIdleType, LeaveType
  DEF AnalysisDone, RowsOK, LeasesOK, WorkersOK, TodoOK, RunnersOK,
      RequestsOK, WorkerPc, Supervising, Busy, Down, At, Mine
<1>18. CASE Apply(w)
  BY <1>18, GotoType, GotoIdleType, LeaveType
  DEF Apply, RowsOK, LeasesOK, WorkersOK, TodoOK, RunnersOK,
      RequestsOK, WorkerPc, Supervising, Busy, Down, At, Mine
<1>19. CASE Decide(w)
  <2>1. Mine(w) \in Job  BY <1>19, BusyJob DEF Decide, At, Busy, Supervising
  <2>2. PICK t \in Status :
          \/ row' = [row EXCEPT ![Mine(w)] =
                        [@ EXCEPT !.status = t, !.sel = Selected(Mine(w), t)]]
          \/ UNCHANGED row
    BY <1>19 DEF Decide
  <2>3. [row[Mine(w)] EXCEPT !.status = t, !.sel = Selected(Mine(w), t)] \in RowType
    <3>1. row[Mine(w)] \in RowType  BY <2>1 DEF RowsOK
    <3>2. Selected(Mine(w), t) \in BOOLEAN  BY DEF Selected
    <3> QED BY <3>1, <3>2 DEF RowType
  <2>4. RowsOK'  BY <2>1, <2>2, <2>3, RowUpdate DEF RowsOK
  <2>5. WorkersOK'
    BY <1>19, <2>1, GotoIdleType, GotoType DEF Decide, WorkerPc, Supervising, Busy, Mine
  <2> QED BY <1>19, <2>4, <2>5 DEF Decide, RowsOK, LeasesOK, WorkersOK, TodoOK,
        RunnersOK,
      RequestsOK
<1>20. CASE FailSource(w)
  <2>1. Mine(w) \in Job  BY <1>20, BusyJob DEF FailSource, At, Busy, Supervising
  <2>2. RowsOK'
    BY <1>20, <2>1, MovedType DEF FailSource, RowsOK
  <2>3. WorkersOK'
    BY <1>20, <2>1, GotoIdleType, GotoType DEF FailSource, WorkerPc, Supervising,
          Busy, Mine
  <2> QED BY <1>20, <2>2, <2>3 DEF FailSource, RowsOK, LeasesOK, WorkersOK, TodoOK,
        RunnersOK,
      RequestsOK
<1>21. CASE Handoff(w)
  <2>1. Mine(w) \in Job  BY <1>21, BusyJob DEF Handoff, At, Busy, Supervising
  <2>2. [row[Mine(w)] EXCEPT !.status = "claiming", !.auth = TRUE] \in RowType
    BY <2>1 DEF RowsOK, RowType, InFlight
  <2>3. RowsOK'
    BY <1>21, <2>1, <2>2, MovedType DEF Handoff, RowsOK
  <2>4. WorkersOK'
    BY <1>21, <2>1, GotoIdleType, GotoType DEF Handoff, WorkerPc, Supervising, Busy,
          Mine
  <2> QED BY <1>21, <2>3, <2>4 DEF Handoff, RowsOK, LeasesOK, WorkersOK, TodoOK,
        RunnersOK,
      RequestsOK
<1>22. CASE SpawnRunner(w)
  <2>1. Mine(w) \in Job  BY <1>22, BusyJob DEF SpawnRunner, At, Busy, Supervising
  <2>2. PICK skew \in BOOLEAN :
          run' = [run EXCEPT ![w][Mine(w)] = [NoRunner EXCEPT !.st = "gate",
                !.skew = skew]]
    BY <1>22 DEF SpawnRunner
  <2>3. [NoRunner EXCEPT !.st = "gate", !.skew = skew] \in RunnerType
    BY DEF NoRunner, RunnerType
  <2>4. RunnersOK'  BY <2>1, <2>2, <2>3, RunUpdate
  <2>5. WorkersOK'
    BY <1>22, <2>1, GotoType DEF SpawnRunner, WorkerPc, Supervising, Busy, Mine
  <2> QED BY <1>22, <2>4, <2>5 DEF SpawnRunner, RowsOK, LeasesOK, WorkersOK, TodoOK,
        RunnersOK,
      RequestsOK
<1>23. CASE PersistRunner(w)
  <2>1. Mine(w) \in Job  BY <1>23, BusyJob DEF PersistRunner, At, Busy, Supervising
  <2>2. [row[Mine(w)] EXCEPT !.rw = w, !.top = TRUE] \in RowType
    BY <2>1 DEF RowsOK, RowType
  <2>3. RowsOK'  BY <1>23, <2>1, <2>2 DEF PersistRunner, RowsOK
  <2>4. [run[w][Mine(w)] EXCEPT !.known = TRUE] \in RunnerType
    <3>1. run[w][Mine(w)] \in RunnerType  BY <2>1 DEF RunnersOK
    <3> QED BY <3>1 DEF RunnerType
  <2>5. RunnersOK'  BY <1>23, <2>1, <2>4, RunUpdate DEF PersistRunner, RunnersOK
  <2>6. WorkersOK'
    BY <1>23, <2>1, GotoType DEF PersistRunner, WorkerPc, Supervising, Busy, Mine
  <2> QED BY <1>23, <2>3, <2>5, <2>6 DEF PersistRunner, RowsOK, LeasesOK, WorkersOK,
        TodoOK,
      RunnersOK, RequestsOK
<1>24. CASE OpenGate(w)
  <2>1. Mine(w) \in Job  BY <1>24, BusyJob DEF OpenGate, At, Busy, Supervising
  <2>2. [run[w][Mine(w)] EXCEPT !.gate = TRUE] \in RunnerType
    <3>1. run[w][Mine(w)] \in RunnerType  BY <2>1 DEF RunnersOK
    <3> QED BY <3>1 DEF RunnerType
  <2>3. RunnersOK'  BY <1>24, <2>1, <2>2, RunUpdate DEF OpenGate, RunnersOK
  <2>4. WorkersOK'
    BY <1>24, <2>1, GotoType DEF OpenGate, WorkerPc, Supervising, Busy, Mine
  <2> QED BY <1>24, <2>3, <2>4 DEF OpenGate, RowsOK, LeasesOK, WorkersOK, TodoOK,
        RunnersOK,
      RequestsOK
<1>25. CASE WatchStops(w)
  BY <1>25, GotoType, GotoIdleType, LeaveType
  DEF WatchStops, RowsOK, LeasesOK, WorkersOK, TodoOK, RunnersOK,
      RequestsOK, WorkerPc, Supervising, Busy, Down, At, Mine
<1>26. CASE KillRunner(w)
  <2>1. Mine(w) \in Job  BY <1>26, BusyJob DEF KillRunner, At, Busy, Supervising
  <2> DEFINE v == IF TrackedUp(row[Mine(w)], Mine(w)) THEN row[Mine(w)].rw ELSE w
  <2>2. v \in Worker  BY <2>1 DEF TrackedUp, RowsOK, RowType
  <2>3. run' = Killed(v, Mine(w))  BY <1>26 DEF KillRunner
  <2>4. RunnersOK'  BY <2>1, <2>2, <2>3, KilledType
  <2>5. WorkersOK'
    BY <1>26, <2>1, GotoType DEF KillRunner, WorkerPc, Supervising, Busy, Mine
  <2> QED BY <1>26, <2>4, <2>5 DEF KillRunner, RowsOK, LeasesOK, WorkersOK, TodoOK,
        RunnersOK,
      RequestsOK
<1>27. CASE SettleStopped(w)
  <2>1. Mine(w) \in Job  BY <1>27, BusyJob DEF SettleStopped, At, Busy, Supervising
  <2>2. Stopped(w) => WorkersOK'
    BY <2>1, GotoIdleType, GotoType DEF Stopped, WorkerPc, Supervising, Busy, Mine
  <2>3. \/ UNCHANGED row
        \/ row' = Moved(Mine(w), "cancelling")
        \/ row' = MovedR(Mine(w), "interrupted", TRUE)
    BY <1>27 DEF SettleStopped
  <2>5. RowsOK'
    <3>1. CASE UNCHANGED row  BY <3>1 DEF RowsOK
    <3>2. CASE row' = Moved(Mine(w), "cancelling")  BY <2>1, <3>2, MovedType DEF RowsOK
    <3>3. CASE row' = MovedR(Mine(w), "interrupted", TRUE)
      BY <2>1, <3>3, MovedRType DEF RowsOK
    <3> QED BY <2>3, <3>1, <3>2, <3>3
  <2>4. WorkersOK'
    BY <1>27, <2>1, <2>2, GotoType DEF SettleStopped, WorkerPc, Supervising, Busy, Mine
  <2> QED BY <1>27, <2>5, <2>4 DEF SettleStopped, RowsOK, LeasesOK, WorkersOK, TodoOK,
      RunnersOK, RequestsOK
<1>28. CASE CloseStopped(w)
  <2>1. Mine(w) \in Job  BY <1>28, BusyJob DEF CloseStopped, At, Busy, Supervising
  <2>2. Stopped(w) => WorkersOK'
    BY <2>1, GotoIdleType, GotoType DEF Stopped, WorkerPc, Supervising, Busy, Mine
  <2>3. RowsOK'
    BY <1>28, <2>1, MovedType, MovedRType DEF CloseStopped, RowsOK
  <2>4. WorkersOK'
    BY <1>28, <2>1, <2>2, GotoType DEF CloseStopped, WorkerPc, Supervising, Busy, Mine
  <2> QED BY <1>28, <2>3, <2>4 DEF CloseStopped, RowsOK, LeasesOK, WorkersOK, TodoOK,
        RunnersOK,
      RequestsOK
<1>29. CASE RunnerExited(w)
  <2>1. Mine(w) \in Job  BY <1>29, BusyJob DEF RunnerExited, At, Busy, Supervising
  <2>2. WorkersOK'
    <3> DEFINE r == row[Mine(w)]
               c == [wk[w] EXCEPT !.pc = "exit", !.seen = r.status,
                     !.seenCancel = r.cancel]
    <3>1. CASE r.status \in InFlight
      <4>1. r.cancel \in BOOLEAN  BY <2>1 DEF RowsOK, RowType
      <4>2. c \in WorkerType /\ c.job = wk[w].job
        BY <3>1, <4>1 DEF WorkersOK, WorkerType, WorkerPc, Supervising, Busy
      <4>3. wk' = [wk EXCEPT ![w] = c]  BY <1>29, <3>1 DEF RunnerExited
      <4> HIDE DEF c
      <4> QED BY <2>1, <4>2, <4>3, WorkerUpdate DEF Mine
    <3>2. CASE r.status \notin InFlight
      BY <1>29, <3>2, GotoIdleType DEF RunnerExited
    <3> QED BY <3>1, <3>2
  <2> QED BY <1>29, <2>2 DEF RunnerExited, RowsOK, LeasesOK, WorkersOK, TodoOK,
        RunnersOK,
      RequestsOK
<1>30. CASE ExitReconcile(w)
  <2>1. Mine(w) \in Job  BY <1>30, BusyJob DEF ExitReconcile, At, Busy, Supervising
  <2>2. PICK t \in Status, b \in BOOLEAN, next \in {"idle",
        "exit2"} : MoveOrUnwind(w, t, b, next)
    <3>1. row[Mine(w)].recov \in BOOLEAN  BY <2>1 DEF RowsOK, RowType
    <3> QED BY <1>30, <3>1 DEF ExitReconcile, Status, Terminal, InFlight
  <2>3. RowsOK' /\ WorkersOK' /\ LeasesOK'
    BY <1>30, <2>1, <2>2, UnwindType DEF ExitReconcile
  <2> QED BY <1>30, <2>3 DEF ExitReconcile, RowsOK, LeasesOK, WorkersOK, TodoOK,
      RunnersOK, RequestsOK
<1>31. CASE ExitCancelled(w)
  <2>1. Mine(w) \in Job  BY <1>31, BusyJob DEF ExitCancelled, At, Busy, Supervising
  <2>2. PICK t \in Status, b \in BOOLEAN, next \in {"idle",
        "exit2"} : MoveOrUnwind(w, t, b, next)
    <3>1. row[Mine(w)].recov \in BOOLEAN  BY <2>1 DEF RowsOK, RowType
    <3> QED BY <1>31, <3>1 DEF ExitCancelled, Status, Terminal
  <2>3. RowsOK' /\ WorkersOK' /\ LeasesOK'
    BY <1>31, <2>1, <2>2, UnwindType DEF ExitCancelled
  <2> QED BY <1>31, <2>3 DEF ExitCancelled, RowsOK, LeasesOK, WorkersOK, TodoOK,
      RunnersOK, RequestsOK
<1> QED BY <1>1, <1>2, <1>3, <1>4, <1>5, <1>6, <1>7, <1>8, <1>9, <1>10, <1>11, <1>12,
      <1>13, <1>14, <1>15, <1>16, <1>17, <1>18, <1>19, <1>20, <1>21, <1>22, <1>23,
            <1>24, <1>25, <1>26, <1>27, <1>28, <1>29, <1>30, <1>31 DEF WorkerStep

\* What happens to a worker preserves TypeOK.
LEMMA WorkerEventType ==
  ASSUME TypeOK, NEW w \in Worker, WorkerEvent(w)
  PROVE  TypeOK'
<1> USE TypeParts, StatusSets, StatusValues
<1>1. CASE StartWorker(w)
  BY <1>1, GotoType, GotoIdleType, LeaveType
  DEF StartWorker, RowsOK, LeasesOK, WorkersOK, TodoOK, RunnersOK,
      RequestsOK, WorkerPc, Supervising, Busy, Down, At, Mine
<1>2. CASE Heartbeat(w)
  BY <1>2, GotoType, GotoIdleType, LeaveType
  DEF Heartbeat, RowsOK, LeasesOK, WorkersOK, TodoOK, RunnersOK,
      RequestsOK, WorkerPc, Supervising, Busy, Down, At, Mine
<1>3. CASE LeaseExpires(w)
  BY <1>3, GotoType, GotoIdleType, LeaveType
  DEF LeaseExpires, RowsOK, LeasesOK, WorkersOK, TodoOK, RunnersOK,
      RequestsOK, WorkerPc, Supervising, Busy, Down, At, Mine
<1>4. CASE RequestStop(w)
  BY <1>4, GotoType, GotoIdleType, LeaveType
  DEF RequestStop, RowsOK, LeasesOK, WorkersOK, TodoOK, RunnersOK,
      RequestsOK, WorkerPc, Supervising, Busy, Down, At, Mine
<1>5. CASE WorkerCrash(w)
  <2>1. WorkersOK'
    BY <1>5, GotoJobType DEF WorkerCrash, WorkerPc, Supervising, Down, Busy
  <2> QED BY <1>5, <2>1 DEF WorkerCrash, RowsOK, LeasesOK, WorkersOK, TodoOK, RunnersOK,
      RequestsOK
<1>6. CASE PersistFails(w)
  BY <1>6, GotoType, GotoIdleType, LeaveType
  DEF PersistFails, RowsOK, LeasesOK, WorkersOK, TodoOK, RunnersOK,
      RequestsOK, WorkerPc, Supervising, Busy, Down, At, Mine
<1>7. CASE OrphanSurvives(w)
  <2>1. PICK o \in todo[w] : Drop(w, o)  BY <1>7 DEF OrphanSurvives
  <2>2. TodoOK'  BY <2>1, TodoUpdate
  <2>3. WorkersOK'
    <3> DEFINE c == [wk[w] EXCEPT !.safe = FALSE]
    <3>1. c \in WorkerType /\ c.pc = wk[w].pc /\ c.job = wk[w].job
      BY DEF WorkersOK, WorkerType
    <3> HIDE DEF c
    <3>2. wk' = [wk EXCEPT ![w] = c]  BY <1>7 DEF OrphanSurvives, c
    <3>3. c.pc \in Busy => c.job \in Job  BY <3>1 DEF WorkersOK
    <3> QED BY <3>1, <3>2, <3>3, WorkerUpdate
  <2> QED BY <1>7, <2>2, <2>3 DEF OrphanSurvives, RowsOK, LeasesOK, WorkersOK, TodoOK,
      RunnersOK, RequestsOK
<1> QED BY <1>1, <1>2, <1>3, <1>4, <1>5, <1>6, <1>7 DEF WorkerEvent

\* A runner that moves on without writing its row.
LEMMA StepType ==
  ASSUME RunnersOK, NEW w \in Worker, NEW j \in Job, NEW from, NEW to,
         to \in {"none", "cancel", "cancelled", "start", "running", "spawn"},
         Step(w, j, from, to) \/ Exits(w, j)
  PROVE  RunnersOK'
<1>1. [run[w][j] EXCEPT !.st = to] \in RunnerType
  <2>1. run[w][j] \in RunnerType  BY DEF RunnersOK
  <2> QED BY <2>1 DEF RunnerType
<1> QED BY <1>1, RunUpdate, Constructors DEF Step, Exits

\* A runner that moves on with an owned transition, or ends.
LEMMA StepOwnedType ==
  ASSUME RowsOK, RunnersOK, NEW w \in Worker, NEW j \in Job, NEW from, NEW to,
        NEW t \in Status,
         to \in {"none", "cancel", "cancelled", "start", "running", "spawn"},
         StepOwned(w, j, from, t, to)
  PROVE  RowsOK' /\ RunnersOK'
<1>1. CASE CanMoveOwned(w, j, t)
  BY <1>1, MovedType, StepType DEF StepOwned, RowsOK
<1>2. CASE ~CanMoveOwned(w, j, t)
  BY <1>2, StepType DEF StepOwned, RowsOK
<1> QED BY <1>1, <1>2

\* A step of a runner preserves TypeOK.
LEMMA RunnerMovesType ==
  ASSUME TypeOK, NEW w \in Worker, NEW j \in Job, RunnerMoves(w, j)
  PROVE  TypeOK'
<1> USE TypeParts, StatusValues
<1>0. run[w][j] \in RunnerType /\ row[j] \in RowType  BY DEF RunnersOK, RowsOK
<1>f. LeasesOK' /\ WorkersOK' /\ TodoOK' /\ RequestsOK'
  BY DEF RunnerMoves, LeasesOK, WorkersOK, TodoOK, RequestsOK
<1> USE <1>f
<1>1. CASE GateTimeout(w, j)
  BY <1>1, StepType DEF GateTimeout, RowsOK
<1>2. CASE Boot(w, j)
  <2>1. RunnersOK'
    BY <1>2, StepType DEF Boot
  <2>2. RowsOK'  BY <1>2 DEF Boot, RowsOK
  <2> QED BY <2>1, <2>2
<1>3. CASE BootCancel(w, j)
  BY <1>3, StepOwnedType DEF BootCancel
<1>4. CASE BootCancelled(w, j)
  BY <1>4, StepOwnedType DEF BootCancelled
<1>5. CASE Reject(w, j)
  BY <1>5, StepType, MovedType DEF Reject, RowsOK
<1>6. CASE Start(w, j)
  BY <1>6, StepOwnedType DEF Start
<1>7. CASE Running(w, j)
  BY <1>7, StepOwnedType DEF Running
<1>8. CASE SpawnPipeline(w, j)
  <2>1. [run[w][j] EXCEPT !.st = "pid",
        !.pipe = "live"] \in RunnerType  BY <1>0 DEF RunnerType
  <2>2. RunnersOK'  BY <1>8, <2>1, RunUpdate DEF SpawnPipeline
  <2>3. RowsOK'  BY <1>8 DEF SpawnPipeline, RowsOK
  <2> QED BY <2>2, <2>3
<1>9. CASE SpawnFails(w, j)
  BY <1>9, StepOwnedType DEF SpawnFails
<1>10. CASE RecordPid(w, j)
  <2>1. Skewed(w, j) \in BOOLEAN  BY <1>0 DEF RunnerType, Skewed
  <2>2. [run[w][j] EXCEPT !.st = "loop", !.skew = Skewed(w, j)] \in RunnerType
    BY <1>0, <2>1 DEF RunnerType
  <2>3. RunnersOK'  BY <1>10, <2>2, RunUpdate DEF RecordPid
  <2>4. [row[j] EXCEPT !.rw = w, !.top = FALSE] \in RowType  BY <1>0 DEF RowType
  <2>5. RowsOK'  BY <1>10, <2>4, RowUpdate DEF RecordPid, RowsOK
  <2> QED BY <2>3, <2>5
<1>11. CASE PipelineExits(w, j)
  <2>1. [run[w][j] EXCEPT !.pipe = "none"] \in RunnerType  BY <1>0 DEF RunnerType
  <2>2. RunnersOK'  BY <1>11, <2>1, RunUpdate DEF PipelineExits
  <2>3. RowsOK'  BY <1>11 DEF PipelineExits, RowsOK
  <2> QED BY <2>2, <2>3
<1>12. CASE ObserveCancel(w, j)
  <2>1. [run[w][j] EXCEPT !.st = "final", !.out = "cancelled",
        !.pipe = "none"] \in RunnerType  BY <1>0 DEF RunnerType
  <2>2. RunnersOK'  BY <1>12, <2>1, RunUpdate DEF ObserveCancel
  <2>3. RowsOK'  BY <1>12, MovedType DEF ObserveCancel, RowsOK
  <2> QED BY <2>2, <2>3
<1>13. CASE ObserveStop(w, j)
  <2>1. [run[w][j] EXCEPT !.st = "final", !.out = "interrupted",
        !.pipe = "none"] \in RunnerType  BY <1>0 DEF RunnerType
  <2>2. RunnersOK'  BY <1>13, <2>1, RunUpdate DEF ObserveStop
  <2>3. RowsOK'  BY <1>13 DEF ObserveStop, RowsOK
  <2> QED BY <2>2, <2>3
<1>14. CASE PipelineDone(w, j)
  <2>1. PICK o \in {"finished", "review_required", "failed", "interrupted"} :
          run' = [run EXCEPT ![w][j] = [@ EXCEPT !.st = "final", !.out = o]]
    BY <1>14 DEF PipelineDone
  <2>2. [run[w][j] EXCEPT !.st = "final",
        !.out = o] \in RunnerType  BY <1>0 DEF RunnerType
  <2>3. RunnersOK'  BY <2>1, <2>2, RunUpdate
  <2> QED BY <1>14, <2>3 DEF PipelineDone, RowsOK
<1>15. CASE Finalize(w, j)
  <2>1. PICK t \in Status, b \in BOOLEAN : row' = row \/ row' = MovedR(j, t, b)
    <3>1. run[w][j].out \in Status  BY <1>0, <1>15 DEF Finalize, RunnerType
    <3>2. \A t \in Status : Recoverable(j, t) \in BOOLEAN  BY <1>0 DEF Recoverable,
          RowType
    <3> QED BY <1>15, <3>1, <3>2 DEF Finalize
  <2>2. RowsOK'  BY <2>1, MovedRType DEF RowsOK
  <2>3. RunnersOK'  BY <1>15, StepType DEF Finalize
  <2> QED BY <2>2, <2>3
<1>16. CASE RunnerAlone(w, j)
  <2>1. [NoRunner EXCEPT !.pipe = run[w][j].pipe] \in RunnerType
    BY <1>0 DEF RunnerType, NoRunner
  <2>2. RunnersOK'  BY <1>16, <2>1, RunUpdate DEF RunnerAlone
  <2> QED BY <1>16, <2>2 DEF RunnerAlone, RowsOK
<1> QED BY <1>1, <1>2, <1>3, <1>4, <1>5, <1>6, <1>7, <1>8, <1>9, <1>10, <1>11, <1>12,
      <1>13, <1>14, <1>15, <1>16 DEF RunnerMoves, RunnerStep

\* Replacing the state of a request by a well-typed one.
LEMMA RequestUpdate ==
  ASSUME RequestsOK, NEW r \in Request
  PROVE  /\ Answers(r) => RequestsOK'
         /\ \A pc \in {"insert", "payload", "mark", "create", "flag", "probe",
               "markcancel",
                   "settlecancel", "cancelled", "reconcile", "requeue"},
               j \in Job, seen \in RowType : Asks(r, pc, j, seen) => RequestsOK'
         /\ \A pc \in {"insert", "payload", "mark", "create", "flag", "probe",
               "markcancel",
                   "settlecancel", "cancelled", "reconcile", "requeue"} :
               rq[r].job \in Job /\ Next1(r, pc) => RequestsOK'
<1>1. ASSUME NEW c \in RequestType, c.pc \notin {"idle", "insert"} => c.job \in Job,
             rq' = [rq EXCEPT ![r] = c]
      PROVE  RequestsOK'
  BY <1>1 DEF RequestsOK
<1>2. Answers(r) => RequestsOK'
  <2>1. [pc |-> "idle", job |-> NoJob, seen |-> NoRow] \in RequestType
    BY Constructors DEF RequestType
  <2> QED BY <1>1, <2>1 DEF Answers
<1>3. ASSUME NEW pc \in {"insert", "payload", "mark", "create", "flag", "probe",
      "markcancel",
                   "settlecancel", "cancelled", "reconcile", "requeue"},
             NEW j \in Job, NEW seen \in RowType, Asks(r, pc, j, seen)
      PROVE  RequestsOK'
  <2>1. [pc |-> pc, job |-> j, seen |-> seen] \in RequestType  BY DEF RequestType
  <2> QED BY <1>1, <1>3, <2>1 DEF Asks
<1>4. ASSUME NEW pc \in {"insert", "payload", "mark", "create", "flag", "probe",
      "markcancel",
                   "settlecancel", "cancelled", "reconcile", "requeue"},
             rq[r].job \in Job, Next1(r, pc)
      PROVE  RequestsOK'
  <2> DEFINE c == [rq[r] EXCEPT !.pc = pc]
  <2>1. c \in RequestType /\ c.job \in Job  BY <1>4 DEF RequestsOK, RequestType
  <2>2. rq' = [rq EXCEPT ![r] = c]  BY <1>4 DEF Next1
  <2> HIDE DEF c
  <2> QED BY <1>1, <2>1, <2>2
<1> QED BY <1>2, <1>3, <1>4

\* An inserted row is well typed.
LEMMA NewRowType ==
  ASSUME NEW c \in Chapter \union {NoJob}, NEW prev \in Job \union {NoJob},
         NEW root \in Job \union {NoJob}, NEW auth \in BOOLEAN
  PROVE  NewRow(c, prev, root, auth) \in RowType
<1>1. NoRow \in RowType  BY Constructors
<1> QED BY <1>1, StatusValues DEF NewRow, RowType

\* A step of the UI process preserves TypeOK.
LEMMA UiStepType ==
  ASSUME TypeOK, NEW r \in Request, UiStep(r)
  PROVE  TypeOK'
<1> USE TypeParts, StatusValues
<1>u. LeasesOK' /\ WorkersOK' /\ TodoOK' /\ RunnersOK'
  BY DEF UiStep, LeasesOK, WorkersOK, TodoOK, RunnersOK
<1>s. /\ rq[r].seen \in RowType
      /\ rq[r].pc \notin {"idle", "insert"} => rq[r].job \in Job
      /\ \A j \in Job : row[j] \in RowType
  BY DEF RequestsOK, RequestType, RowsOK
<1> SUFFICES RowsOK' /\ RequestsOK'  BY <1>u
<1>1. CASE Insert(r)
  <2>1. CASE Answers(r) /\ UNCHANGED row
    BY <2>1, RequestUpdate DEF RowsOK
  <2>2. CASE \E j \in Job :
               /\ row' = [row EXCEPT ![j] = NewRow(rq[r].seen.chap, NoJob, j, FALSE)]
               /\ Asks(r, "payload", j, NoRow)
    <3>1. PICK j \in Job :
               /\ row' = [row EXCEPT ![j] = NewRow(rq[r].seen.chap, NoJob, j, FALSE)]
               /\ Asks(r, "payload", j, NoRow)
      BY <2>2
    <3>2. NewRow(rq[r].seen.chap, NoJob, j, FALSE) \in RowType
      BY <1>s, NewRowType DEF RowType
    <3>3. RowsOK'  BY <3>1, <3>2, RowUpdate DEF RowsOK
    <3> QED BY <3>1, <3>3, RequestUpdate, Constructors
  <2> QED BY <1>1, <2>1, <2>2 DEF Insert
<1>2. CASE PersistPayload(r)
  <2>1. rq[r].job \in Job  BY <1>2, <1>s DEF PersistPayload, On
  <2>2. [row[rq[r].job] EXCEPT !.payload = TRUE, !.sel = CarriedOver(r)] \in RowType
    <3>1. CarriedOver(r) \in BOOLEAN  BY DEF CarriedOver
    <3> QED BY <1>s, <2>1, <3>1 DEF RowType
  <2>3. RowsOK'  BY <1>2, <2>1, <2>2, RowUpdate DEF PersistPayload, RowsOK
  <2> QED BY <1>2, <2>3, RequestUpdate DEF PersistPayload
<1>3. CASE MarkResumable(r)
  <2>1. rq[r].job \in Job  BY <1>3, <1>s DEF MarkResumable, On
  <2>2. RowsOK'  BY <1>3, <2>1, MovedType, MovedRType DEF MarkResumable, RowsOK
  <2> QED BY <1>3, <2>1, <2>2, RequestUpdate DEF MarkResumable
<1>4. CASE CreateResumed(r)
  <2>1. rq[r].job \in Job  BY <1>4, <1>s DEF CreateResumed, On
  <2>2. CASE Answers(r) /\ UNCHANGED row
    BY <2>2, RequestUpdate DEF RowsOK
  <2>3. CASE \E k \in Job : /\ row' = Attempt(k, rq[r].job, rq[r].seen)
                            /\ Asks(r, "payload", k, rq[r].seen)
    <3>1. PICK k \in Job : /\ row' = Attempt(k, rq[r].job, rq[r].seen)
                           /\ Asks(r, "payload", k, rq[r].seen)
      BY <2>3
    <3>2. NewRow(rq[r].seen.chap, rq[r].job, rq[r].seen.root,
          rq[r].seen.auth) \in RowType
      BY <1>s, <2>1, NewRowType DEF RowType
    <3>3. RowsOK'  BY <3>1, <3>2, RowUpdate DEF Attempt, RowsOK
    <3> QED BY <1>s, <3>1, <3>3, RequestUpdate
  <2> QED BY <1>4, <2>2, <2>3 DEF CreateResumed
<1>5. CASE FlagCancel(r)
  <2>1. rq[r].job \in Job  BY <1>5, <1>s DEF FlagCancel, On
  <2>2. [row[rq[r].job] EXCEPT !.cancel = TRUE] \in RowType  BY <1>s, <2>1 DEF RowType
  <2>3. RowsOK'  BY <1>5, <2>1, <2>2, RowUpdate DEF FlagCancel, RowsOK
  <2> QED BY <1>5, <2>1, <2>3, RequestUpdate DEF FlagCancel
<1>6. CASE ProbeRunner(r)
  <2>1. rq[r].job \in Job  BY <1>6, <1>s DEF ProbeRunner, On
  <2> QED BY <1>6, <2>1, RequestUpdate DEF ProbeRunner, RowsOK
<1>7. CASE MarkCancelling(r)
  <2>1. rq[r].job \in Job  BY <1>7, <1>s DEF MarkCancelling, On
  <2>2. RowsOK'  BY <1>7, <2>1, MovedType, MovedRType DEF MarkCancelling, RowsOK
  <2> QED BY <1>7, <2>1, <2>2, RequestUpdate DEF MarkCancelling
<1>8. CASE SettleCancel(r)
  <2>1. rq[r].job \in Job  BY <1>8, <1>s DEF SettleCancel, On
  <2>2. RowsOK'  BY <1>8, <2>1, MovedType, MovedRType DEF SettleCancel, RowsOK
  <2> QED BY <1>8, <2>1, <2>2, RequestUpdate DEF SettleCancel
<1>9. CASE SettleCancelled(r)
  <2>1. rq[r].job \in Job  BY <1>9, <1>s DEF SettleCancelled, On
  <2>2. RowsOK'  BY <1>9, <2>1, MovedType, MovedRType DEF SettleCancelled, RowsOK
  <2> QED BY <1>9, <2>1, <2>2, RequestUpdate DEF SettleCancelled
<1>10. CASE Freeze(r)
  <2>1. rq[r].job \in Job  BY <1>10, <1>s DEF Freeze, On
  <2>2. row' = row \/ row' = MovedR(rq[r].job, "cancelled", TRUE)
          \/ row' = MovedR(rq[r].job, "interrupted", TRUE)
    BY <1>10 DEF Freeze
  <2>3. RowsOK'
    <3>1. MovedR(rq[r].job, "cancelled", TRUE) \in [Job -> RowType]  BY <2>1, MovedRType
    <3>2. MovedR(rq[r].job, "interrupted", TRUE) \in [Job -> RowType]  BY <2>1,
          MovedRType
    <3> QED BY <2>2, <3>1, <3>2 DEF RowsOK
  <2> QED BY <1>10, <2>3, RequestUpdate DEF Freeze
<1>11. CASE Requeue(r)
  <2>1. rq[r].job \in Job  BY <1>11, <1>s DEF Requeue, On
  <2>2. RowsOK'  BY <1>11, <2>1, MovedType, MovedRType DEF Requeue, RowsOK
  <2> QED BY <1>11, <2>1, <2>2, RequestUpdate DEF Requeue
<1>12. CASE Submit(r)
  <2>1. PICK c \in Chapter : Asks(r, "insert", NoJob, [NoRow EXCEPT !.chap = c])
    BY <1>12 DEF Submit
  <2>2. [pc |-> "insert", job |-> NoJob,
        seen |-> [NoRow EXCEPT !.chap = c]] \in RequestType
    <3>1. [NoRow EXCEPT !.chap = c] \in RowType  BY Constructors DEF RowType
    <3> QED BY <3>1 DEF RequestType
  <2>3. RequestsOK'  BY <2>1, <2>2 DEF Asks, RequestsOK
  <2> QED BY <1>12, <2>3 DEF Submit, RowsOK
<1>13. CASE Resume(r)
  BY <1>13, <1>s, RequestUpdate DEF Resume, RowsOK
<1>14. CASE Cancel(r)
  BY <1>14, <1>s, RequestUpdate DEF Cancel, RowsOK
<1>15. CASE CancelHeld(r)
  BY <1>15, RequestUpdate, Constructors DEF CancelHeld, RowsOK
<1>16. CASE Reconcile(r)
  BY <1>16, <1>s, RequestUpdate DEF Reconcile, RowsOK
<1>17. CASE ConfirmPages(r)
  <2>1. PICK j \in Job : row' = [row EXCEPT ![j].sel = TRUE] /\ Asks(r, "requeue", j,
        NoRow)
    BY <1>17 DEF ConfirmPages
  <2>2. [row[j] EXCEPT !.sel = TRUE] \in RowType  BY <1>s DEF RowType
  <2>3. RowsOK'  BY <2>1, <2>2, RowUpdate DEF RowsOK
  <2> QED BY <2>1, <2>3, RequestUpdate, Constructors
<1>18. CASE VerifySource(r)
  BY <1>18, RequestUpdate, Constructors DEF VerifySource, RowsOK
<1>19. CASE ResolveReady(r)
  <2>1. PICK j \in Job : row' = [row EXCEPT ![j] = [@ EXCEPT !.status = "queued",
        !.auth = TRUE]]
    BY <1>19 DEF ResolveReady
  <2>2. [row[j] EXCEPT !.status = "queued", !.auth = TRUE] \in RowType
    BY <1>s DEF RowType
  <2>3. RowsOK'  BY <2>1, <2>2, RowUpdate DEF RowsOK
  <2> QED BY <1>19, <2>3 DEF ResolveReady, RequestsOK
<1>20. CASE AuthorizeDownload(r)
  BY <1>20, RequestUpdate, Constructors DEF AuthorizeDownload, RowsOK
<1>21. CASE Dismiss(r)
  <2>1. PICK j \in Job : row' = [row EXCEPT ![j] = [@ EXCEPT !.recov = FALSE]]
    BY <1>21 DEF Dismiss
  <2>2. [row[j] EXCEPT !.recov = FALSE] \in RowType
    BY <1>s DEF RowType
  <2>3. RowsOK'  BY <2>1, <2>2, RowUpdate DEF RowsOK
  <2> QED BY <1>21, <2>3 DEF Dismiss, RequestsOK
<1>22. CASE CompleteReview(r)
  <2>1. PICK j \in Job : row' = [row EXCEPT ![j] = [@ EXCEPT !.status = "finished",
        !.owner = NoWorker,
                                              !.rw = NoWorker, !.top = TRUE,
                                                    !.cancel = FALSE]]
    BY <1>22 DEF CompleteReview
  <2>2. [row[j] EXCEPT !.status = "finished", !.owner = NoWorker,
                                              !.rw = NoWorker, !.top = TRUE,
                                                    !.cancel = FALSE] \in RowType
    BY <1>s DEF RowType
  <2>3. RowsOK'  BY <2>1, <2>2, RowUpdate DEF RowsOK
  <2> QED BY <1>22, <2>3 DEF CompleteReview, RequestsOK
<1>23. CASE UiRestart(r)
  BY <1>23, RequestUpdate DEF UiRestart, RowsOK
<1> QED BY <1>1, <1>2, <1>3, <1>4, <1>5, <1>6, <1>7, <1>8, <1>9, <1>10, <1>11, <1>12,
      <1>13, <1>14, <1>15, <1>16, <1>17, <1>18, <1>19, <1>20, <1>21, <1>22,
            <1>23 DEF UiStep, UiContinues

\* TypeOK is inductive.
LEMMA TypeStep == TypeOK /\ [Next]_vars => TypeOK'
<1> SUFFICES ASSUME TypeOK, [Next]_vars PROVE TypeOK'  OBVIOUS
<1>1. CASE UNCHANGED vars  BY <1>1 DEF vars, TypeOK
<1>2. CASE Next
  BY <1>2, WorkerStepType, WorkerEventType, RunnerMovesType, UiStepType DEF Next
<1> QED BY <1>1, <1>2

\* In every reachable state of the queue, for any workers, rows, chapters,
\* requests, faults and user operations, the variables have their types and a
\* worker past the claim, and a request past the first insert, hold a row.
THEOREM TypeCorrect == Spec => []TypeOK
BY InitType, TypeStep, PTL DEF Spec

(***************************************************************************)
(* The lifecycle: every action writes at most one row, and a pair of       *)
(* statuses that the lifecycle promises (StatusStep); the mapping forgets  *)
(* everything of a row but its status.                                     *)
(***************************************************************************)

\* The pairs of statuses a write may lead from and to.
Promised(s, t) ==
  \/ s = "absent" /\ t = "queued"
  \/ TransitionAllowed(s, t)
  \/ s = "source_analysis_ready" /\ t = "claiming"
  \/ s = "review_required" /\ t = "finished"

\* One row at most changes its status, as promised.
StatusStep ==
  \/ \A j \in Job : row'[j].status = row[j].status
  \/ \E j \in Job :
       /\ \A k \in Job \ {j} : row'[k].status = row[k].status
       /\ Promised(row[j].status, row'[j].status)

\* A write of one row that leads to a promised status is a status step.
LEMMA WriteStep ==
  ASSUME RowsOK, NEW j \in Job, NEW c, row' = [row EXCEPT ![j] = c],
         c.status = row[j].status \/ Promised(row[j].status, c.status)
  PROVE  StatusStep
<1>1. row'[j] = c /\ \A k \in Job \ {j} : row'[k] = row[k]  BY DEF RowsOK
<1> QED BY <1>1 DEF StatusStep

\* A step that leaves the table alone is one.
LEMMA SameStep ==
  ASSUME UNCHANGED row
  PROVE  StatusStep
BY DEF StatusStep

\* A write through transition() is one: it writes an allowed pair or nothing.
LEMMA MovedStep ==
  ASSUME RowsOK, NEW j \in Job, NEW t,
         row' = Moved(j, t) \/ \E b \in BOOLEAN : row' = MovedR(j, t, b)
  PROVE  StatusStep
<1>1. CASE UNCHANGED row  BY <1>1, SameStep
<1>2. CASE CanMove(j, t) /\ row' = [row EXCEPT ![j].status = t]
  <2> DEFINE c == [row[j] EXCEPT !.status = t]
  <2>1. row' = [row EXCEPT ![j] = c] /\ c.status = t  BY <1>2 DEF RowsOK, RowType
  <2> HIDE DEF c
  <2> QED BY <1>2, <2>1, WriteStep DEF CanMove, Promised
<1>3. ASSUME NEW b \in BOOLEAN, CanMove(j, t),
             row' = [row EXCEPT ![j] = [@ EXCEPT !.status = t, !.recov = b]]
      PROVE  StatusStep
  <2> DEFINE c == [row[j] EXCEPT !.status = t, !.recov = b]
  <2>1. row' = [row EXCEPT ![j] = c] /\ c.status = t  BY <1>3 DEF RowsOK, RowType
  <2> HIDE DEF c
  <2> QED BY <1>3, <2>1, WriteStep DEF CanMove, Promised
<1> QED BY <1>1, <1>2, <1>3 DEF Moved, MovedR

\* Every write of a worker is one.
LEMMA WorkerStatusStep ==
  ASSUME TypeOK, NEW w \in Worker, WorkerStep(w) \/ WorkerEvent(w)
  PROVE  StatusStep
<1>0. RowsOK /\ WorkersOK /\ TodoOK  BY TypeParts
<1>m. wk[w].pc \in Busy => Mine(w) \in Job  BY <1>0, BusyJob
<1>1. CASE
     \/ StartWorker(w) \/ WorkerCheck(w) \/ Register(w) \/ Heartbeat(w)
     \/ LeaseExpires(w) \/ RequestStop(w) \/ WorkerStops(w) \/ WorkerCrash(w)
     \/ ScanOrphans(w) \/ OrphanProbe(w) \/ OrphanSurvives(w) \/ OrphansDone(w)
     \/ Claimed(w) \/ NothingQueued(w) \/ Prepare(w) \/ AnalysisDone(w) \/ Apply(w)
     \/ SpawnRunner(w) \/ PersistFails(w) \/ OpenGate(w) \/ WatchStops(w)
     \/ KillRunner(w) \/ RunnerExited(w)
  BY <1>1, SameStep
  DEF StartWorker, WorkerCheck, Register, Heartbeat, LeaseExpires,
      RequestStop, WorkerStops, WorkerCrash, ScanOrphans,
      OrphanProbe, OrphanSurvives, OrphansDone, Claimed,
      NothingQueued, Prepare, AnalysisDone, Apply, SpawnRunner,
      PersistFails, OpenGate, WatchStops, KillRunner, RunnerExited
<1>2. CASE OrphanSettle(w)
  <2>1. PICK o \in todo[w] : row' = MovedR(o.job, "interrupted", TRUE) \/ UNCHANGED row
    BY <1>2 DEF OrphanSettle, RecoveredAs
  <2>2. o.job \in Job  BY <1>0, TodoUpdate DEF OrphanType
  <2> QED BY <1>0, <2>1, <2>2, MovedStep, SameStep
<1>3. CASE OrphanCancel(w)
  <2>1. PICK o \in todo[w] : row' = Moved(o.job, "cancelling")
    BY <1>3 DEF OrphanCancel
  <2>2. o.job \in Job  BY <1>0, TodoUpdate DEF OrphanType
  <2> QED BY <1>0, <2>1, <2>2, MovedStep, SameStep
<1>4. CASE OrphanClose(w)
  <2>1. PICK o \in todo[w] : row' = MovedR(o.job, "cancelled", FALSE)
    BY <1>4 DEF OrphanClose
  <2>2. o.job \in Job  BY <1>0, TodoUpdate DEF OrphanType
  <2> QED BY <1>0, <2>1, <2>2, MovedStep, SameStep
<1>5. CASE AnalysisFails(w)
  <2>1. Mine(w) \in Job  BY <1>5, <1>m DEF AnalysisFails, At, Busy, Supervising
  <2>2. \E t \in Status : row' = Moved(Mine(w), t)
    BY <1>5, StatusValues DEF AnalysisFails
  <2> QED BY <1>0, <2>1, <2>2, MovedStep, SameStep
<1>6. CASE AnalysisCancelled(w)
  <2>1. Mine(w) \in Job  BY <1>6, <1>m DEF AnalysisCancelled, At, Busy, Supervising
  <2>2. row' = Moved(Mine(w), "cancelling") \/ UNCHANGED row
    BY <1>6 DEF AnalysisCancelled
  <2> QED BY <1>0, <2>1, <2>2, MovedStep, SameStep
<1>7. CASE FailCancelled(w)
  <2>1. Mine(w) \in Job  BY <1>7, <1>m DEF FailCancelled, At, Busy, Supervising
  <2>2. row' = Moved(Mine(w), "cancelled")
    BY <1>7 DEF FailCancelled
  <2> QED BY <1>0, <2>1, <2>2, MovedStep, SameStep
<1>8. CASE FailSource(w)
  <2>1. Mine(w) \in Job  BY <1>8, <1>m DEF FailSource, At, Busy, Supervising
  <2>2. row' = Moved(Mine(w), "failed")
    BY <1>8 DEF FailSource
  <2> QED BY <1>0, <2>1, <2>2, MovedStep, SameStep
<1>9. CASE SettleStopped(w)
  <2>1. Mine(w) \in Job  BY <1>9, <1>m DEF SettleStopped, At, Busy, Supervising
  <2>2. \/ row' = Moved(Mine(w), "cancelling") \/ UNCHANGED row
        \/ row' = MovedR(Mine(w), "interrupted", TRUE)
    BY <1>9 DEF SettleStopped
  <2> QED BY <1>0, <2>1, <2>2, MovedStep, SameStep
<1>10. CASE CloseStopped(w)
  <2>1. Mine(w) \in Job  BY <1>10, <1>m DEF CloseStopped, At, Busy, Supervising
  <2>2. row' = Moved(Mine(w), "cancelled") \/ UNCHANGED row
    BY <1>10 DEF CloseStopped
  <2> QED BY <1>0, <2>1, <2>2, MovedStep, SameStep
<1>11. CASE Claim(w)
  <2>1. PICK j \in Job :
          /\ row[j].status = "queued"
          /\ row' = [row EXCEPT ![j] = [@ EXCEPT !.status = "claiming", !.owner = w]]
    BY <1>11 DEF Claim, Claimable
  <2> DEFINE c == [row[j] EXCEPT !.status = "claiming", !.owner = w]
  <2>2. c.status = "claiming"  BY <1>0 DEF RowsOK, RowType
  <2>3. row' = [row EXCEPT ![j] = c]  BY <2>1
  <2> HIDE DEF c
  <2> QED BY <1>0, <2>1, <2>2, <2>3, WriteStep DEF Promised, TransitionAllowed
<1>12. CASE Decide(w)
  <2>1. Mine(w) \in Job  BY <1>12, <1>m DEF Decide, At, Busy, Supervising
  <2>2. CASE UNCHANGED row  BY <2>2, SameStep
  <2>3. CASE ~UNCHANGED row
    <3>1. PICK t \in Status :
            /\ CanMove(Mine(w), t)
            /\ row' = [row EXCEPT ![Mine(w)] =
                          [@ EXCEPT !.status = t, !.sel = Selected(Mine(w), t)]]
      BY <1>12, <2>3, StatusValues DEF Decide
    <3> DEFINE c == [row[Mine(w)] EXCEPT !.status = t, !.sel = Selected(Mine(w), t)]
    <3>2. c.status = t  BY <1>0, <2>1 DEF RowsOK, RowType
    <3>3. row' = [row EXCEPT ![Mine(w)] = c]  BY <3>1
    <3> HIDE DEF c
    <3> QED BY <1>0, <2>1, <3>1, <3>2, <3>3, WriteStep DEF CanMove, Promised
  <2> QED BY <2>2, <2>3
<1>13. CASE Handoff(w)
  <2>1. Mine(w) \in Job  BY <1>13, <1>m DEF Handoff, At, Busy, Supervising
  <2> DEFINE c == [row[Mine(w)] EXCEPT !.status = "claiming", !.auth = TRUE]
  <2>2. \/ UNCHANGED row \/ row' = Moved(Mine(w), "failed")
        \/ row[Mine(w)].status = "source_analysis_ready" /\ row' = [row EXCEPT ![Mine(w)] = c]
    BY <1>13 DEF Handoff, Resolvable
  <2>3. c.status = "claiming"  BY <1>0, <2>1 DEF RowsOK, RowType
  <2> HIDE DEF c
  <2> QED BY <1>0, <2>1, <2>2, <2>3, WriteStep, MovedStep, SameStep DEF Promised
<1>14. CASE PersistRunner(w)
  <2>1. Mine(w) \in Job  BY <1>14, <1>m DEF PersistRunner, At, Busy, Supervising
  <2> DEFINE c == [row[Mine(w)] EXCEPT !.rw = w, !.top = TRUE]
  <2>2. row' = [row EXCEPT ![Mine(w)] = c]  BY <1>14 DEF PersistRunner
  <2>3. c.status = row[Mine(w)].status  BY <1>0, <2>1 DEF RowsOK, RowType
  <2> HIDE DEF c
  <2> QED BY <1>0, <2>1, <2>2, <2>3, WriteStep
<1>15. ASSUME NEW t, NEW b, NEW next, Mine(w) \in Job, MoveOrUnwind(w, t, b, next)
       PROVE  StatusStep
  <2>1. CASE UNCHANGED row  BY <2>1, SameStep
  <2>2. CASE /\ CanMoveOwned(w, Mine(w), t)
             /\ row' = [row EXCEPT ![Mine(w)] = [@ EXCEPT !.status = t, !.recov = b]]
    <3> DEFINE c == [row[Mine(w)] EXCEPT !.status = t, !.recov = b]
    <3>1. c.status = t  BY <1>0, <1>15 DEF RowsOK, RowType
    <3>2. row' = [row EXCEPT ![Mine(w)] = c]  BY <2>2
    <3> HIDE DEF c
    <3> QED BY <1>0, <1>15, <2>2, <3>1, <3>2, WriteStep DEF CanMoveOwned, CanMove,
          Promised
  <2> QED BY <1>15, <2>1, <2>2 DEF MoveOrUnwind
<1>16. CASE ExitReconcile(w)
  <2>1. Mine(w) \in Job  BY <1>16, <1>m DEF ExitReconcile, At, Busy, Supervising
  <2> QED BY <1>16, <1>15, <2>1 DEF ExitReconcile
<1>17. CASE ExitCancelled(w)
  <2>1. Mine(w) \in Job  BY <1>17, <1>m DEF ExitCancelled, At, Busy, Supervising
  <2> QED BY <1>17, <1>15, <2>1 DEF ExitCancelled
<1> QED BY <1>1, <1>2, <1>3, <1>4, <1>5, <1>6, <1>7, <1>8, <1>9, <1>10, <1>11, <1>12,
      <1>13, <1>14, <1>16, <1>17
       DEF WorkerStep, WorkerEvent

\* Every write of a runner is one.
LEMMA RunnerStatusStep ==
  ASSUME TypeOK, NEW w \in Worker, NEW j \in Job, RunnerMoves(w, j)
  PROVE  StatusStep
<1>0. RowsOK  BY TypeParts
<1>1. CASE
     \/ GateTimeout(w, j) \/ Boot(w, j) \/ SpawnPipeline(w, j) \/ PipelineExits(w, j)
     \/ ObserveStop(w, j) \/ PipelineDone(w, j) \/ RunnerAlone(w, j)
  BY <1>1, SameStep
  DEF GateTimeout, Boot, SpawnPipeline, PipelineExits, ObserveStop,
      PipelineDone, RunnerAlone
<1>2. ASSUME NEW from, NEW t, NEW to, StepOwned(w, j, from, t, to)
      PROVE  StatusStep
  BY <1>0, <1>2, MovedStep, SameStep DEF StepOwned
<1>3. CASE BootCancel(w, j) \/ BootCancelled(w, j) \/ Start(w, j) \/ Running(w, j)
           \/ SpawnFails(w, j)
  BY <1>2, <1>3 DEF BootCancel, BootCancelled, Start, Running, SpawnFails
<1>4. CASE Reject(w, j)  BY <1>0, <1>4, MovedStep DEF Reject
<1>5. CASE RecordPid(w, j)
  <2> DEFINE c == [row[j] EXCEPT !.rw = w, !.top = FALSE]
  <2>1. row' = [row EXCEPT ![j] = c]  BY <1>5 DEF RecordPid
  <2>2. c.status = row[j].status  BY <1>0 DEF RowsOK, RowType
  <2> HIDE DEF c
  <2> QED BY <1>0, <2>1, <2>2, WriteStep
<1>6. CASE ObserveCancel(w, j)  BY <1>0, <1>6, MovedStep, SameStep DEF ObserveCancel
<1>7. CASE Finalize(w, j)
  <2>1. PICK t : UNCHANGED row \/ row' = MovedR(j, t, Recoverable(j, t))
    BY <1>7 DEF Finalize
  <2>2. Recoverable(j, t) \in BOOLEAN  BY <1>0 DEF Recoverable, RowsOK, RowType
  <2> QED BY <1>0, <2>1, <2>2, MovedStep, SameStep
<1> QED BY <1>1, <1>3, <1>4, <1>5, <1>6, <1>7 DEF RunnerMoves, RunnerStep

\* Every write of the UI process is one.
LEMMA UiStatusStep ==
  ASSUME TypeOK, NEW r \in Request, UiStep(r)
  PROVE  StatusStep
<1>0. RowsOK /\ RequestsOK  BY TypeParts
<1>q. rq[r].pc \notin {"idle", "insert"} => rq[r].job \in Job  BY <1>0 DEF RequestsOK
<1>1. CASE
     \/ Submit(r) \/ Resume(r) \/ Cancel(r) \/ ProbeRunner(r) \/ Reconcile(r)
     \/ UiRestart(r)
  BY <1>1, SameStep
  DEF Submit, Resume, Cancel, ProbeRunner, Reconcile, UiRestart
<1>2. CASE MarkResumable(r)
  <2>1. rq[r].job \in Job  BY <1>2, <1>q DEF MarkResumable, On
  <2>2. row' = MovedR(rq[r].job, "resumable", TRUE)
    BY <1>2 DEF MarkResumable
  <2> QED BY <1>0, <2>1, <2>2, MovedStep, SameStep
<1>3. CASE MarkCancelling(r)
  <2>1. rq[r].job \in Job  BY <1>3, <1>q DEF MarkCancelling, On
  <2>2. row' = Moved(rq[r].job, "cancelling")
    BY <1>3 DEF MarkCancelling
  <2> QED BY <1>0, <2>1, <2>2, MovedStep, SameStep
<1>4. CASE SettleCancel(r)
  <2>1. rq[r].job \in Job  BY <1>4, <1>q DEF SettleCancel, On
  <2>2. row' = Moved(rq[r].job, "cancelling")
    BY <1>4 DEF SettleCancel
  <2> QED BY <1>0, <2>1, <2>2, MovedStep, SameStep
<1>5. CASE SettleCancelled(r)
  <2>1. rq[r].job \in Job  BY <1>5, <1>q DEF SettleCancelled, On
  <2>2. row' = Moved(rq[r].job, "cancelled")
    BY <1>5 DEF SettleCancelled
  <2> QED BY <1>0, <2>1, <2>2, MovedStep, SameStep
<1>6. CASE Freeze(r)
  <2>1. rq[r].job \in Job  BY <1>6, <1>q DEF Freeze, On
  <2>2. UNCHANGED row \/ \E t : row' = MovedR(rq[r].job, t, TRUE)
    BY <1>6 DEF Freeze
  <2> QED BY <1>0, <2>1, <2>2, MovedStep, SameStep
<1>7. CASE Requeue(r)
  <2>1. rq[r].job \in Job  BY <1>7, <1>q DEF Requeue, On
  <2>2. row' = Moved(rq[r].job, "queued") \/ UNCHANGED row
    BY <1>7 DEF Requeue
  <2> QED BY <1>0, <2>1, <2>2, MovedStep, SameStep
<1>8. CASE CancelHeld(r)  BY <1>8, SameStep DEF CancelHeld
<1>9. CASE VerifySource(r)  BY <1>9, SameStep DEF VerifySource
<1>10. CASE AuthorizeDownload(r)  BY <1>10, SameStep DEF AuthorizeDownload
<1>11. CASE ResolveReady(r)
  <2>1. PICK j \in Job :
          /\ row[j].status = "source_analysis_ready"
          /\ row' = [row EXCEPT ![j] = [@ EXCEPT !.status = "queued", !.auth = TRUE]]
    BY <1>11 DEF ResolveReady, Resolvable
  <2> DEFINE c == [row[j] EXCEPT !.status = "queued", !.auth = TRUE]
  <2>2. row' = [row EXCEPT ![j] = c]  BY <2>1
  <2>3. c.status = "queued"  BY <1>0, <2>1 DEF RowsOK, RowType, NewRow, NoRow
  <2> HIDE DEF c
  <2> QED BY <1>0, <2>1, <2>2, <2>3, WriteStep DEF Promised, TransitionAllowed, Holds
<1>12. CASE Dismiss(r)
  <2>1. PICK j \in Job : row' = [row EXCEPT ![j].recov = FALSE]
    BY <1>12 DEF Dismiss
  <2> DEFINE c == [row[j] EXCEPT !.recov = FALSE]
  <2>2. row' = [row EXCEPT ![j] = c]  BY <2>1
  <2>3. c.status = row[j].status  BY <1>0, <2>1 DEF RowsOK, RowType, NewRow, NoRow
  <2> HIDE DEF c
  <2> QED BY <1>0, <2>1, <2>2, <2>3, WriteStep
<1>13. CASE ConfirmPages(r)
  <2>1. PICK j \in Job : row' = [row EXCEPT ![j].sel = TRUE]
    BY <1>13 DEF ConfirmPages
  <2> DEFINE c == [row[j] EXCEPT !.sel = TRUE]
  <2>2. row' = [row EXCEPT ![j] = c]  BY <2>1
  <2>3. c.status = row[j].status  BY <1>0, <2>1 DEF RowsOK, RowType, NewRow, NoRow
  <2> HIDE DEF c
  <2> QED BY <1>0, <2>1, <2>2, <2>3, WriteStep
<1>14. CASE CompleteReview(r)
  <2>1. PICK j \in Job :
          /\ row[j].status = "review_required"
          /\ row' = [row EXCEPT ![j] = [@ EXCEPT !.status = "finished",
                !.owner = NoWorker,
                                        !.rw = NoWorker, !.top = TRUE,
                                              !.cancel = FALSE]]
    BY <1>14 DEF CompleteReview
  <2> DEFINE c == [row[j] EXCEPT !.status = "finished", !.owner = NoWorker,
                                 !.rw = NoWorker, !.top = TRUE, !.cancel = FALSE]
  <2>2. row' = [row EXCEPT ![j] = c]  BY <2>1
  <2>3. c.status = "finished"  BY <1>0, <2>1 DEF RowsOK, RowType, NewRow, NoRow
  <2> HIDE DEF c
  <2> QED BY <1>0, <2>1, <2>2, <2>3, WriteStep DEF Promised, TransitionAllowed, Holds
<1>15. CASE PersistPayload(r)
  <2>1. /\ rq[r].job \in Job
        /\ row' = [row EXCEPT ![rq[r].job] =
                      [@ EXCEPT !.payload = TRUE, !.sel = CarriedOver(r)]]
    BY <1>15, <1>q DEF PersistPayload, On
  <2> DEFINE c == [row[rq[r].job] EXCEPT !.payload = TRUE, !.sel = CarriedOver(r)]
  <2>2. row' = [row EXCEPT ![rq[r].job] = c]  BY <2>1
  <2>3. c.status = row[rq[r].job].status  BY <1>0, <2>1 DEF RowsOK, RowType, NewRow,
        NoRow
  <2> HIDE DEF c
  <2> QED BY <1>0, <2>1, <2>2, <2>3, WriteStep
<1>16. CASE FlagCancel(r)
  <2>1. CASE UNCHANGED row  BY <2>1, SameStep
  <2>2. CASE ~UNCHANGED row
    <3>1. /\ rq[r].job \in Job
          /\ row' = [row EXCEPT ![rq[r].job].cancel = TRUE]
      BY <1>16, <1>q, <2>2 DEF FlagCancel, On
    <3> DEFINE c == [row[rq[r].job] EXCEPT !.cancel = TRUE]
    <3>2. row' = [row EXCEPT ![rq[r].job] = c]  BY <3>1
    <3>3. c.status = row[rq[r].job].status  BY <1>0, <3>1 DEF RowsOK, RowType
    <3> HIDE DEF c
    <3> QED BY <1>0, <3>1, <3>2, <3>3, WriteStep
  <2> QED BY <2>1, <2>2
<1>17. ASSUME NEW k \in Job, NEW c, NEW prev, NEW root, NEW auth, NextRow(k),
              row' = [row EXCEPT ![k] = NewRow(c, prev, root, auth)]
       PROVE  StatusStep
  <2>1. NewRow(c, prev, root, auth).status = "queued" /\ row[k].status = "absent"
    BY <1>17 DEF NewRow, NoRow, NextRow
  <2> QED BY <1>0, <1>17, <2>1, WriteStep DEF Promised
<1>18. CASE Insert(r)  BY <1>18, <1>17, SameStep DEF Insert
<1>19. CASE CreateResumed(r)  BY <1>19, <1>17, SameStep DEF CreateResumed, Attempt
<1> QED BY <1>1, <1>2, <1>3, <1>4, <1>5, <1>6, <1>7, <1>8, <1>9, <1>10, <1>11, <1>12,
      <1>13, <1>14, <1>15, <1>16, <1>18, <1>19
       DEF UiStep, UiContinues

\* Every step of the queue is one.
LEMMA NextStatusStep == TypeOK /\ [Next]_vars => StatusStep
<1> SUFFICES ASSUME TypeOK, [Next]_vars PROVE StatusStep  OBVIOUS
<1>1. CASE UNCHANGED vars  BY <1>1, SameStep DEF vars
<1>2. CASE Next
  BY <1>2, WorkerStatusStep, RunnerStatusStep, UiStatusStep DEF Next
<1> QED BY <1>1, <1>2

\* The refinement mapping: a row is abstracted to its status.
statuses == [j \in Job |-> row[j].status]

\* The empty queue is the empty lifecycle.
LEMMA LifecycleInit == Init => Lifecycle!Init
BY DEF Init, Lifecycle!Init, NoRow

\* A status step is a step of the lifecycle, or stutters.
LEMMA LifecycleStep ==
  TypeOK /\ TypeOK' /\ StatusStep => [Lifecycle!Next]_statuses
<1> SUFFICES ASSUME TypeOK, TypeOK', StatusStep PROVE [Lifecycle!Next]_statuses  OBVIOUS
<1>1. CASE \A j \in Job : row'[j].status = row[j].status
  BY <1>1 DEF statuses
<1>2. ASSUME NEW j \in Job, \A k \in Job \ {j} : row'[k].status = row[k].status,
             Promised(row[j].status, row'[j].status)
      PROVE  Lifecycle!Next
  <2> DEFINE t == row'[j].status
  <2>1. statuses' = [statuses EXCEPT ![j] = t]
    BY <1>2 DEF statuses
  <2>2. row'[j].status \in Status \union {"absent"}  BY DEF TypeOK, RowType
  <2>3. CASE TransitionAllowed(row[j].status, t)
    <3>1. t \in Status  BY <2>3, StatusValues DEF TransitionAllowed, Holds
    <3>2. Lifecycle!Move(j)
      BY <2>1, <2>3, <3>1 DEF statuses, Lifecycle!Move, Lifecycle!TransitionAllowed,
      TransitionAllowed, Lifecycle!Status, Status,
      Lifecycle!Terminal, Terminal, Lifecycle!InFlight, InFlight,
      Lifecycle!Holds, Holds
    <3> QED BY <3>2 DEF Lifecycle!Next
  <2>4. CASE row[j].status = "absent" /\ t = "queued"
    BY <2>1, <2>4 DEF statuses, Lifecycle!Next, Lifecycle!Create
  <2>5. CASE row[j].status = "source_analysis_ready" /\ t = "claiming"
    BY <2>1, <2>5 DEF statuses, Lifecycle!Next, Lifecycle!Handoff
  <2>6. CASE row[j].status = "review_required" /\ t = "finished"
    BY <2>1, <2>6 DEF statuses, Lifecycle!Next, Lifecycle!CompleteReview
  <2> QED BY <1>2, <2>3, <2>4, <2>5, <2>6 DEF Promised
<1> QED BY <1>1, <1>2 DEF StatusStep

\* The queue implements the lifecycle the job store promises: whatever process
\* writes a row, by transition(), by the claim, by the handoff or by the review,
\* the row only moves along the promised pairs.
THEOREM Refinement == Spec => ImplementsLifecycle
<1>1. Init => Lifecycle!Init  BY LifecycleInit
<1>2. TypeOK /\ TypeOK' /\ [Next]_vars => [Lifecycle!Next]_statuses
  BY NextStatusStep, LifecycleStep
<1> QED BY <1>1, <1>2, TypeCorrect, PTL DEF Spec, ImplementsLifecycle,
      Lifecycle!Spec, statuses

\* The only promised pair that leaves a terminal status is the confirmation of
\* a review.
LEMMA PromisedFinal ==
  ASSUME NEW s, NEW t, Promised(s, t), s \in Terminal
  PROVE  s = "review_required" /\ t = "finished"
BY DEF Promised, TransitionAllowed, Terminal, Holds

\* A row that was cancelled, failed or finished keeps that status, whichever
\* late process still writes to it; a reviewed row can only become finished.
THEOREM SettledRowsStay == Spec => SettledIsFinal
<1> DEFINE Kept ==
      \A j \in Job :
        statuses[j] \in Lifecycle!Terminal =>
          \/ statuses'[j] = statuses[j]
          \/ statuses[j] = "review_required" /\ statuses'[j] = "finished"
<1>1. [Next]_vars /\ TypeOK => Kept
  <2> SUFFICES ASSUME [Next]_vars, TypeOK, NEW j \in Job,
                      statuses[j] \in Lifecycle!Terminal
               PROVE  \/ statuses'[j] = statuses[j]
                      \/ statuses[j] = "review_required" /\ statuses'[j] = "finished"
    OBVIOUS
  <2>1. StatusStep  BY NextStatusStep
  <2>2. row[j].status \in Terminal  BY DEF statuses, Lifecycle!Terminal, Terminal
  <2> QED BY <2>1, <2>2, PromisedFinal DEF StatusStep, statuses
<1>2. Kept => [Kept]_statuses  OBVIOUS
<1> QED BY <1>1, <1>2, TypeCorrect, PTL DEF Spec, SettledIsFinal,
      Lifecycle!SettledIsFinal, statuses

(***************************************************************************)
(* The start gate.  StartsRecorded is not inductive: a runner passes its   *)
(* gate on the file the worker created, so the invariant also says that    *)
(* only the gate of a recorded runner is open, and that a worker about to  *)
(* open a gate has recorded the runner behind it if that runner is still   *)
(* there.                                                                  *)
(***************************************************************************)

\* A gate is open only for a recorded runner, and a runner past its gate found
\* it open.
Gated(c) == (c.gate => c.known) /\ (c.st \notin {"none", "gate"} => c.gate)

\* A worker about to open a gate has recorded the runner behind it.
GateInv ==
  /\ \A w \in Worker, j \in Job : Gated(run[w][j])
  /\ \A w \in Worker : At(w, "open") /\ OwnRunnerUp(w) => run[w][Mine(w)].known

\* No worker arrives where it opens a gate.
NoneArrives == \A v \in Worker : At(v, "open")' => UNCHANGED wk[v]

\* No runner, no open gate.
LEMMA GateInit == Init => GateInv
BY DEF Init, GateInv, Gated, NoRunner, At

\* A step that moves no runner, and brings no worker to a gate.
LEMMA GateFrame ==
  ASSUME GateInv, UNCHANGED run, NoneArrives
  PROVE  GateInv'
BY DEF GateInv, NoneArrives, At, OwnRunnerUp, RunnerUp, Mine

\* One runner moves on or ends.
LEMMA GateUpdate ==
  ASSUME GateInv, RunnersOK, WorkersOK, NoneArrives, NEW w \in Worker, NEW j \in Job,
        NEW c,
         run' = [run EXCEPT ![w][j] = c], Gated(c),
         c.st = "none" \/ run[w][j].st # "none",
         c.st # "none" /\ run[w][j].known => c.known
  PROVE  GateInv'
<1>1. /\ run'[w][j] = c
      /\ \A v \in Worker, i \in Job : ~(v = w /\ i = j) => run'[v][i] = run[v][i]
  BY DEF RunnersOK
<1>2. \A v \in Worker, i \in Job : Gated(run'[v][i])
  BY <1>1 DEF GateInv
<1>3. ASSUME NEW v \in Worker, At(v, "open")', OwnRunnerUp(v)'
      PROVE  (run[v][Mine(v)].known)'
  <2>1. wk'[v] = wk[v] /\ At(v, "open") /\ Mine(v)' = Mine(v)
    BY <1>3 DEF NoneArrives, At, Mine
  <2>2. Mine(v) \in Job  BY <2>1, BusyJob DEF At, Busy, Supervising
  <2>3. run'[v][Mine(v)].st # "none"  BY <1>3, <2>1 DEF OwnRunnerUp, RunnerUp
  <2>4. CASE v = w /\ Mine(v) = j
    <3>1. c.st # "none"  BY <1>1, <2>3, <2>4
    <3>2. run[v][Mine(v)].known  BY <2>1, <2>4, <3>1 DEF GateInv, OwnRunnerUp, RunnerUp
    <3> QED BY <1>1, <2>1, <2>4, <3>1, <3>2
  <2>5. CASE ~(v = w /\ Mine(v) = j)
    <3>1. run'[v][Mine(v)] = run[v][Mine(v)]  BY <1>1, <2>2, <2>5
    <3>2. run[v][Mine(v)].known  BY <2>1, <2>3, <3>1 DEF GateInv, OwnRunnerUp, RunnerUp
    <3> QED BY <2>1, <3>1, <3>2
  <2> QED BY <2>4, <2>5
<1> QED BY <1>2, <1>3 DEF GateInv

\* terminate_tree leaves nothing to record.
LEMMA GateKilled ==
  ASSUME GateInv, RunnersOK, WorkersOK, NoneArrives, NEW w \in Worker, NEW j \in Job,
         run' = Killed(w, j)
  PROVE  GateInv'
<1>1. CASE UNCHANGED run  BY <1>1, GateFrame
<1>2. CASE run' = [run EXCEPT ![w][j] = NoRunner]
  <2>1. NoRunner.st = "none" /\ Gated(NoRunner)  BY DEF NoRunner, Gated
  <2> QED BY <1>2, <2>1, GateUpdate
<1> QED BY <1>1, <1>2 DEF Killed

\* A worker that goes anywhere but to the gate.
LEMMA Elsewhere ==
  ASSUME WorkersOK, NEW w \in Worker, NEW c, wk' = [wk EXCEPT ![w] = c], c.pc # "open"
  PROVE  NoneArrives
BY DEF WorkersOK, NoneArrives, At

\* The same for the ways a worker moves.
LEMMA GotoElsewhere ==
  ASSUME WorkersOK, NEW w \in Worker, NEW pc, pc # "open",
         \/ Goto(w, pc)
         \/ \E j \in Job \union {NoJob} : wk' = [wk EXCEPT ![w] = [@ EXCEPT !.pc = pc, !.job = j]]
  PROVE  NoneArrives
<1>1. CASE Goto(w, pc)
  <2> DEFINE c == [wk[w] EXCEPT !.pc = pc]
  <2>1. c.pc = pc  BY DEF WorkersOK, WorkerType
  <2>2. wk' = [wk EXCEPT ![w] = c]  BY <1>1 DEF Goto
  <2> HIDE DEF c
  <2> QED BY <2>1, <2>2, Elsewhere
<1>2. ASSUME NEW j \in Job \union {NoJob},
             wk' = [wk EXCEPT ![w] = [@ EXCEPT !.pc = pc, !.job = j]]
      PROVE  NoneArrives
  <2> DEFINE c == [wk[w] EXCEPT !.pc = pc, !.job = j]
  <2>1. c.pc = pc  BY DEF WorkersOK, WorkerType
  <2>2. wk' = [wk EXCEPT ![w] = c]  BY <1>2
  <2> HIDE DEF c
  <2> QED BY <2>1, <2>2, Elsewhere
<1> QED BY <1>1, <1>2

\* Neither does a worker that goes idle or leaves.
LEMMA IdleElsewhere ==
  ASSUME WorkersOK, NEW w \in Worker, GotoIdle(w) \/ Leave(w)
  PROVE  NoneArrives
BY GotoElsewhere DEF GotoIdle, Leave

\* Nor one that accounts for an exit.
LEMMA UnwindElsewhere ==
  ASSUME WorkersOK, NEW w \in Worker, NEW t, NEW b, NEW next \in {"idle", "exit2"},
         MoveOrUnwind(w, t, b, next)
  PROVE  NoneArrives
<1> DEFINE c == [wk[w] EXCEPT !.pc = next, !.job = HeldAt(w, next),
                              !.seen = "absent", !.seenCancel = FALSE]
           d == [wk[w] EXCEPT !.pc = "exited", !.job = NoJob,
                              !.seen = "absent", !.seenCancel = FALSE]
<1>1. c.pc = next /\ d.pc = "exited"  BY DEF WorkersOK, WorkerType
<1>2. wk' = [wk EXCEPT ![w] = c] \/ wk' = [wk EXCEPT ![w] = d]  BY DEF MoveOrUnwind
<1> HIDE DEF c, d
<1> QED BY <1>1, <1>2, Elsewhere

\* Only PersistRunner leads to the opening of a gate.
LEMMA WorkerElsewhere ==
  ASSUME TypeOK, NEW w \in Worker, WorkerStep(w) \/ WorkerEvent(w), ~PersistRunner(w)
  PROVE  NoneArrives
<1>0. WorkersOK /\ RowsOK  BY TypeParts
<1>1. CASE
     \/ Heartbeat(w) \/ LeaseExpires(w) \/ RequestStop(w) \/ OrphanProbe(w) \/ OrphanSettle(w)
     \/ OrphanCancel(w) \/ OrphanClose(w)
  BY <1>1 DEF NoneArrives, Heartbeat, LeaseExpires, RequestStop,
      OrphanProbe, OrphanSettle, OrphanCancel, OrphanClose
<1>2. CASE
     \/ StartWorker(w) \/ WorkerCheck(w) \/ Register(w) \/ WorkerStops(w) \/ OrphansDone(w)
     \/ NothingQueued(w) \/ Prepare(w) \/ AnalysisFails(w) \/ AnalysisCancelled(w)
     \/ FailCancelled(w) \/ AnalysisDone(w) \/ Apply(w) \/ Decide(w) \/ FailSource(w)
     \/ Handoff(w) \/ SpawnRunner(w) \/ PersistFails(w) \/ OpenGate(w) \/ WatchStops(w)
     \/ KillRunner(w) \/ SettleStopped(w) \/ CloseStopped(w)
  <2>1. \/ \E pc \in WorkerPc \ {"open"} : Goto(w, pc)
        \/ GotoIdle(w) \/ Leave(w)
    BY <1>2 DEF StartWorker, WorkerCheck, Register, WorkerStops, OrphansDone,
      NothingQueued, Prepare, AnalysisFails, AnalysisCancelled,
      FailCancelled, AnalysisDone, Apply, Decide, FailSource,
      Handoff, SpawnRunner, PersistFails, OpenGate, WatchStops,
      KillRunner, SettleStopped, CloseStopped, Stopped, WorkerPc,
      Down, Busy, Supervising
  <2> QED BY <1>0, <2>1, GotoElsewhere, IdleElsewhere
<1>3. CASE WorkerCrash(w)  BY <1>0, <1>3, GotoElsewhere DEF WorkerCrash
<1>4. CASE Claim(w)  BY <1>0, <1>4, GotoElsewhere DEF Claim
<1>5. CASE Claimed(w)
  <2>1. \A j \in Job : {k \in Job : row[k].status = "claiming" /\ row[k].owner = w} \subseteq Job
    OBVIOUS
  <2>2. wk[w].pc \in Busy  BY <1>5 DEF Claimed, At, Busy, Supervising
  <2> QED BY <1>0, <1>5, <2>2, BusyJob, GotoElsewhere, IdleElsewhere DEF Claimed, Mine
<1>6. CASE ScanOrphans(w)
  <2> DEFINE c == [wk[w] EXCEPT !.pc = "orphans", !.safe = TRUE]
  <2>1. c.pc = "orphans"  BY <1>0 DEF WorkersOK, WorkerType
  <2>2. wk' = [wk EXCEPT ![w] = c]  BY <1>6 DEF ScanOrphans
  <2> HIDE DEF c
  <2> QED BY <1>0, <2>1, <2>2, Elsewhere
<1>7. CASE OrphanSurvives(w)
  <2> DEFINE c == [wk[w] EXCEPT !.safe = FALSE]
  <2>1. c.pc # "open"
    BY <1>0, <1>7 DEF WorkersOK, WorkerType, OrphanSurvives, Reconciles, At
  <2>2. wk' = [wk EXCEPT ![w] = c]  BY <1>7 DEF OrphanSurvives
  <2> HIDE DEF c
  <2> QED BY <1>0, <2>1, <2>2, Elsewhere
<1>8. CASE RunnerExited(w)
  <2> DEFINE r == row[Mine(w)]
             c == [wk[w] EXCEPT !.pc = "exit", !.seen = r.status,
                   !.seenCancel = r.cancel]
  <2>1. c.pc = "exit"  BY <1>0 DEF WorkersOK, WorkerType
  <2>2. wk' = [wk EXCEPT ![w] = c] \/ GotoIdle(w)  BY <1>8 DEF RunnerExited
  <2> HIDE DEF c
  <2> QED BY <1>0, <2>1, <2>2, Elsewhere, IdleElsewhere
<1>9. CASE ExitReconcile(w) \/ ExitCancelled(w)
  <2>1. \E t, b : \E next \in {"idle", "exit2"} : MoveOrUnwind(w, t, b, next)
    BY <1>9 DEF ExitReconcile, ExitCancelled
  <2> QED BY <1>0, <2>1, UnwindElsewhere
<1> QED BY <1>1, <1>2, <1>3, <1>4, <1>5, <1>6, <1>7, <1>8, <1>9 DEF WorkerStep,
      WorkerEvent

\* The steps of a worker.
LEMMA WorkerGate ==
  ASSUME TypeOK, GateInv, NEW w \in Worker, WorkerStep(w) \/ WorkerEvent(w)
  PROVE  GateInv'
<1>0. WorkersOK /\ RunnersOK /\ RowsOK /\ TodoOK  BY TypeParts
<1>1. CASE PersistRunner(w)
  <2>1. Mine(w) \in Job  BY <1>0, <1>1, BusyJob DEF PersistRunner, At, Busy, Supervising
  <2> DEFINE c == [run[w][Mine(w)] EXCEPT !.known = TRUE]
  <2>2. run[w][Mine(w)] \in RunnerType  BY <1>0, <2>1 DEF RunnersOK
  <2>3. c.known /\ c.st = run[w][Mine(w)].st /\ c.gate = run[w][Mine(w)].gate
    BY <2>2 DEF RunnerType
  <2>4. run' = [run EXCEPT ![w][Mine(w)] = c] \/ (UNCHANGED run /\ ~OwnRunnerUp(w))
    BY <1>1 DEF PersistRunner
  <2> HIDE DEF c
  <2>5. Gated(c)  BY <2>1, <2>3 DEF GateInv, Gated
  <2>6. \A v \in Worker, i \in Job :
          \/ run'[v][i] = run[v][i]
          \/ v = w /\ i = Mine(w) /\ run'[v][i] = c
    BY <1>0, <2>1, <2>4 DEF RunnersOK
  <2>7. \A v \in Worker, i \in Job : Gated(run'[v][i])
    BY <2>5, <2>6 DEF GateInv
  <2>8. /\ wk'[w].job = wk[w].job
        /\ \A v \in Worker \ {w} : wk'[v] = wk[v]
    BY <1>0, <1>1 DEF PersistRunner, Goto, WorkersOK, WorkerType
  <2>9. ASSUME NEW v \in Worker, At(v, "open")', OwnRunnerUp(v)'
        PROVE  (run[v][Mine(v)].known)'
    <3>1. CASE v = w
      <4>1. Mine(w)' = Mine(w)  BY <2>8 DEF Mine
      <4>2. CASE run' = [run EXCEPT ![w][Mine(w)] = c]
        BY <1>0, <2>1, <2>3, <3>1, <4>1, <4>2 DEF RunnersOK
      <4>3. CASE UNCHANGED run /\ ~OwnRunnerUp(w)
        BY <2>9, <3>1, <4>1, <4>3 DEF OwnRunnerUp, RunnerUp
      <4> QED BY <2>4, <4>2, <4>3
    <3>2. CASE v # w
      <4>1. wk'[v] = wk[v] /\ Mine(v)' = Mine(v) /\ At(v, "open")
        BY <2>8, <2>9, <3>2 DEF At, Mine
      <4>2. Mine(v) \in Job  BY <1>0, <4>1, BusyJob DEF At, Busy, Supervising
      <4>3. run'[v][Mine(v)] = run[v][Mine(v)]  BY <2>6, <3>2, <4>2
      <4>4. OwnRunnerUp(v)  BY <2>9, <4>1, <4>3 DEF OwnRunnerUp, RunnerUp
      <4> QED BY <4>1, <4>3, <4>4 DEF GateInv
    <3> QED BY <3>1, <3>2
  <2> QED BY <2>7, <2>9 DEF GateInv
<1>2. CASE SpawnRunner(w)
  <2>1. Mine(w) \in Job /\ NoneArrives
    BY <1>0, <1>2, BusyJob, GotoElsewhere DEF SpawnRunner, At, Busy, Supervising
  <2>2. PICK skew :
          run' = [run EXCEPT ![w][Mine(w)] = [NoRunner EXCEPT !.st = "gate",
                !.skew = skew]]
    BY <1>2 DEF SpawnRunner
  <2> DEFINE c == [NoRunner EXCEPT !.st = "gate", !.skew = skew]
  <2>3. Gated(c)  BY DEF Gated, NoRunner
  <2>4. \A v \in Worker, i \in Job :
          run'[v][i] = run[v][i] \/ (v = w /\ i = Mine(w) /\ run'[v][i] = c)
    BY <1>0, <2>1, <2>2 DEF RunnersOK
  <2> HIDE DEF c
  <2>5. \A v \in Worker, i \in Job : Gated(run'[v][i])
    BY <2>3, <2>4 DEF GateInv
  <2>6. ASSUME NEW v \in Worker, At(v, "open")', OwnRunnerUp(v)'
        PROVE  (run[v][Mine(v)].known)'
    <3>1. wk'[v] = wk[v] /\ Mine(v)' = Mine(v) /\ At(v, "open") /\ v # w
      BY <1>2, <2>1, <2>6 DEF NoneArrives, At, Mine, SpawnRunner
    <3>2. Mine(v) \in Job  BY <1>0, <3>1, BusyJob DEF At, Busy, Supervising
    <3>3. run'[v][Mine(v)] = run[v][Mine(v)]  BY <2>4, <3>1, <3>2
    <3>4. OwnRunnerUp(v)  BY <2>6, <3>1, <3>3 DEF OwnRunnerUp, RunnerUp
    <3> QED BY <3>1, <3>3, <3>4 DEF GateInv
  <2> QED BY <2>5, <2>6 DEF GateInv
<1>3. CASE OpenGate(w)
  <2>1. Mine(w) \in Job /\ NoneArrives
    BY <1>0, <1>3, BusyJob, GotoElsewhere DEF OpenGate, At, Busy, Supervising
  <2>2. CASE ~OwnRunnerUp(w)
    BY <1>3, <2>1, <2>2, GateFrame DEF OpenGate
  <2>3. CASE OwnRunnerUp(w)
    <3> DEFINE c == [run[w][Mine(w)] EXCEPT !.gate = TRUE]
    <3>1. run[w][Mine(w)] \in RunnerType  BY <1>0, <2>1 DEF RunnersOK
    <3>2. c.known = run[w][Mine(w)].known /\ c.st = run[w][Mine(w)].st /\ c.gate
      BY <3>1 DEF RunnerType
    <3>3. run[w][Mine(w)].known  BY <1>3, <2>3 DEF GateInv, OpenGate
    <3>4. run' = [run EXCEPT ![w][Mine(w)] = c]  BY <1>3, <2>3 DEF OpenGate
    <3> HIDE DEF c
    <3>5. Gated(c)  BY <3>2, <3>3 DEF Gated
    <3> QED BY <1>0, <2>1, <2>3, <3>2, <3>4, <3>5, GateUpdate DEF OwnRunnerUp, RunnerUp
  <2> QED BY <2>2, <2>3
<1>4. CASE OrphanProbe(w)
  <2>1. NoneArrives  BY <1>4 DEF OrphanProbe, NoneArrives
  <2>2. PICK o \in todo[w] : run' = IF TrackedUp(o, o.job) THEN Killed(o.rw,
        o.job) ELSE run
    BY <1>4 DEF OrphanProbe
  <2>3. o \in OrphanType  BY <1>0, TodoUpdate
  <2>4. TrackedUp(o, o.job) => o.rw \in Worker  BY <2>3 DEF TrackedUp, OrphanType
  <2>5. CASE TrackedUp(o, o.job)
    BY <1>0, <2>1, <2>2, <2>3, <2>4, <2>5, GateKilled DEF OrphanType
  <2>6. CASE ~TrackedUp(o, o.job)  BY <2>1, <2>2, <2>6, GateFrame
  <2> QED BY <2>5, <2>6
<1>5. CASE KillRunner(w)
  <2>1. Mine(w) \in Job /\ NoneArrives
    BY <1>0, <1>5, BusyJob, GotoElsewhere DEF KillRunner, At, Busy, Supervising
  <2> DEFINE v == IF TrackedUp(row[Mine(w)], Mine(w)) THEN row[Mine(w)].rw ELSE w
  <2>2. v \in Worker  BY <1>0, <2>1 DEF TrackedUp, RowsOK, RowType
  <2>3. run' = Killed(v, Mine(w))  BY <1>5 DEF KillRunner
  <2> HIDE DEF v
  <2> QED BY <1>0, <2>1, <2>2, <2>3, GateKilled
<1>6. CASE ~PersistRunner(w) /\ UNCHANGED run
  BY <1>6, WorkerElsewhere, GateFrame
<1>7. \/ PersistRunner(w) \/ SpawnRunner(w) \/ OpenGate(w) \/ OrphanProbe(w) \/ KillRunner(w)
      \/ UNCHANGED run
  BY DEF WorkerStep, WorkerEvent, StartWorker, WorkerCheck, Register,
      Heartbeat, LeaseExpires, RequestStop, WorkerStops,
      WorkerCrash, ScanOrphans, OrphanSurvives, OrphanSettle,
      OrphanCancel, OrphanClose, OrphansDone, Claim, Claimed,
      NothingQueued, Prepare, AnalysisFails, AnalysisCancelled,
      FailCancelled, AnalysisDone, Apply, Decide, FailSource,
      Handoff, PersistFails, WatchStops, SettleStopped,
      CloseStopped, RunnerExited, ExitReconcile, ExitCancelled
<1> QED BY <1>1, <1>2, <1>3, <1>4, <1>5, <1>6, <1>7

\* The steps of a runner.
LEMMA RunnerGate ==
  ASSUME TypeOK, GateInv, NEW w \in Worker, NEW j \in Job, RunnerMoves(w, j)
  PROVE  GateInv'
<1>0. /\ WorkersOK /\ RunnersOK /\ NoneArrives
      /\ run[w][j] \in RunnerType /\ Gated(run[w][j])
  BY TypeParts DEF RunnerMoves, NoneArrives, RunnersOK, GateInv
<1>1. CASE UNCHANGED run  BY <1>0, <1>1, GateFrame
<1>2. CASE Exits(w, j)
  <2>1. NoRunner.st = "none" /\ Gated(NoRunner)  BY DEF NoRunner, Gated
  <2> QED BY <1>0, <1>2, <2>1, GateUpdate DEF Exits
<1>3. ASSUME NEW from, NEW to, from # "none", from = "gate" => GateOpen(w, j),
             Step(w, j, from, to)
      PROVE  GateInv'
  <2> DEFINE c == [run[w][j] EXCEPT !.st = to]
  <2>1. /\ c.st = to /\ c.known = run[w][j].known /\ c.gate = run[w][j].gate
        /\ run' = [run EXCEPT ![w][j] = c]
    BY <1>0, <1>3 DEF Step, RunnerType
  <2>2. run[w][j].st # "none" /\ c.gate /\ c.known
    BY <1>0, <1>3, <2>1 DEF Step, GateOpen, Gated
  <2> HIDE DEF c
  <2> QED BY <1>0, <2>1, <2>2, GateUpdate DEF Gated
<1>4. ASSUME NEW c, run' = [run EXCEPT ![w][j] = c], c.known = run[w][j].known,
             c.gate = run[w][j].gate,
                   c.st # run[w][j].st => run[w][j].st \notin {"none", "gate"}
      PROVE  GateInv'
  BY <1>0, <1>4, GateUpdate DEF Gated
<1>5. CASE Boot(w, j)
  <2>1. Exits(w, j) \/ \E to : Step(w, j, "gate", to)  BY <1>5 DEF Boot
  <2>2. GateOpen(w, j)  BY <1>5 DEF Boot
  <2> QED BY <1>2, <1>3, <2>1, <2>2
<1>6. ASSUME NEW from \in {"cancel", "cancelled", "start", "running", "spawn"},
      NEW t, NEW to,
             StepOwned(w, j, from, t, to)
      PROVE  GateInv'
  <2>1. Exits(w, j) \/ Step(w, j, from, to)  BY <1>6 DEF StepOwned
  <2> QED BY <1>2, <1>3, <2>1
<1>7. CASE BootCancel(w, j) \/ BootCancelled(w, j) \/ Start(w, j) \/ Running(w, j)
           \/ SpawnFails(w, j)
  BY <1>6, <1>7 DEF BootCancel, BootCancelled, Start, Running, SpawnFails
<1>8. CASE GateTimeout(w, j) \/ Reject(w, j) \/ Finalize(w, j)
  BY <1>2, <1>8 DEF GateTimeout, Reject, Finalize
<1>9. CASE SpawnPipeline(w, j)
  <2> DEFINE c == [run[w][j] EXCEPT !.st = "pid", !.pipe = "live"]
  <2>1. c.known = run[w][j].known /\ c.gate = run[w][j].gate  BY <1>0 DEF RunnerType
  <2>2. run' = [run EXCEPT ![w][j] = c] /\ run[w][j].st = "spawn"
    BY <1>9 DEF SpawnPipeline
  <2> HIDE DEF c
  <2> QED BY <1>4, <2>1, <2>2
<1>10. CASE RecordPid(w, j)
  <2> DEFINE c == [run[w][j] EXCEPT !.st = "loop", !.skew = Skewed(w, j)]
  <2>1. c.known = run[w][j].known /\ c.gate = run[w][j].gate  BY <1>0 DEF RunnerType
  <2>2. run' = [run EXCEPT ![w][j] = c] /\ run[w][j].st = "pid"
    BY <1>10 DEF RecordPid
  <2> HIDE DEF c
  <2> QED BY <1>4, <2>1, <2>2
<1>11. CASE PipelineExits(w, j)
  <2> DEFINE c == [run[w][j] EXCEPT !.pipe = "none"]
  <2>1. c.known = run[w][j].known /\ c.gate = run[w][j].gate /\ c.st = run[w][j].st
    BY <1>0 DEF RunnerType
  <2>2. run' = [run EXCEPT ![w][j] = c]  BY <1>11 DEF PipelineExits
  <2> HIDE DEF c
  <2> QED BY <1>4, <2>1, <2>2
<1>12. CASE ObserveCancel(w, j) \/ ObserveStop(w, j)
  <2>1. PICK out \in {"cancelled", "interrupted"} :
          run' = [run EXCEPT ![w][j] = [@ EXCEPT !.st = "final", !.out = out,
                !.pipe = "none"]]
    BY <1>12 DEF ObserveCancel, ObserveStop
  <2> DEFINE c == [run[w][j] EXCEPT !.st = "final", !.out = out, !.pipe = "none"]
  <2>2. c.known = run[w][j].known /\ c.gate = run[w][j].gate  BY <1>0 DEF RunnerType
  <2>3. run' = [run EXCEPT ![w][j] = c] /\ run[w][j].st = "loop"
    BY <1>12, <2>1 DEF ObserveCancel, ObserveStop
  <2> HIDE DEF c
  <2> QED BY <1>4, <2>2, <2>3
<1>13. CASE PipelineDone(w, j)
  <2>1. PICK out : run' = [run EXCEPT ![w][j] = [@ EXCEPT !.st = "final", !.out = out]]
    BY <1>13 DEF PipelineDone
  <2> DEFINE c == [run[w][j] EXCEPT !.st = "final", !.out = out]
  <2>2. c.known = run[w][j].known /\ c.gate = run[w][j].gate  BY <1>0 DEF RunnerType
  <2>3. run' = [run EXCEPT ![w][j] = c] /\ run[w][j].st = "loop"
    BY <1>13, <2>1 DEF PipelineDone
  <2> HIDE DEF c
  <2> QED BY <1>4, <2>2, <2>3
<1>14. CASE RunnerAlone(w, j)
  <2> DEFINE c == [NoRunner EXCEPT !.pipe = run[w][j].pipe]
  <2>1. c.st = "none" /\ Gated(c)  BY DEF NoRunner, Gated
  <2>2. run' = [run EXCEPT ![w][j] = c]  BY <1>14 DEF RunnerAlone
  <2> HIDE DEF c
  <2> QED BY <1>0, <2>1, <2>2, GateUpdate
<1> QED BY <1>5, <1>7, <1>8, <1>9, <1>10, <1>11, <1>12, <1>13, <1>14
       DEF RunnerMoves, RunnerStep

\* GateInv is inductive, with TypeOK.
LEMMA GateStep == TypeOK /\ GateInv /\ [Next]_vars => GateInv'
<1> SUFFICES ASSUME TypeOK, GateInv, [Next]_vars PROVE GateInv'  OBVIOUS
<1>1. CASE UNCHANGED vars
  BY <1>1, GateFrame DEF vars, NoneArrives
<1>2. ASSUME NEW r \in Request, UiStep(r) PROVE GateInv'
  BY <1>2, GateFrame DEF UiStep, NoneArrives
<1>3. CASE Next
  BY <1>2, <1>3, WorkerGate, RunnerGate DEF Next
<1> QED BY <1>1, <1>3

\* wait_for_start_gate: whatever crashes, a runner that works on a job is one
\* whose pid was stored before.
THEOREM RunnersAreRecorded == Spec => []StartsRecorded
<1>1. GateInv => StartsRecorded  BY DEF GateInv, Gated, StartsRecorded
<1> QED BY <1>1, GateInit, GateStep, TypeCorrect, PTL DEF Spec

==============================================================================
