------------------------------- MODULE JobQueue -------------------------------
(***************************************************************************)
(* The persistent worker queue: the job rows and worker leases of          *)
(* jobs.sqlite3, the worker processes that claim rows, the runner process  *)
(* a worker spawns for a row, the pipeline process the runner spawns, and  *)
(* the requests of the UI process, which shares only the database with     *)
(* them.                                                                   *)
(*                                                                         *)
(* One action is one SQLite statement or one guarded read-then-UPDATE of   *)
(* JobStore.transition (whose UPDATE repeats the status it read), together *)
(* with the local code up to the next database, file or process call.      *)
(*                                                                         *)
(* A definition named Bug... is not part of the model.  It is a mistake    *)
(* the code could make in the definition after it, kept to show that the   *)
(* properties notice it (README, "Mutants").                               *)
(***************************************************************************)
EXTENDS Naturals, FiniteSets, JobStatus

CONSTANTS
  Worker,     \* worker instances; a restarted worker is a new instance
  MaxJob,     \* bound: number of rows ever inserted
  Chapter,    \* (owner, chapter slug) keys
  Request,    \* UI request handlers that may run concurrently
  Faults,     \* which of the environment's faults may happen
  UiOps,      \* which operations the user performs
  NoWorker, NoJob

ASSUME QueueAssumption ==
  /\ MaxJob \in Nat
  /\ NoWorker \notin Worker
  /\ NoJob \notin Nat

(***************************************************************************)
(* Faults:                                                                 *)
(*  "worker_crash"  a worker dies without its shutdown path                *)
(*  "stale_lease"   a live worker misses heartbeats (suspended machine)    *)
(*  "persist_fails" the runner's pid cannot be stored or its gate opened   *)
(*  "kill_fails"    an orphaned tree survives terminate and kill           *)
(*  "runner_alone"  a runner dies and its pipeline does not                *)
(*  "shim_skew"     the interpreter behind the venv shim starts more than  *)
(*                  CREATE_TIME_TOLERANCE after the shim                   *)
(*  "wallet_down"   the settlement of the row's reservation stays pending  *)
(*  "ui_restart"    the UI process dies in the middle of its requests      *)
(***************************************************************************)

Job == 1 .. MaxJob

VARIABLES
  row,    \* row[j]: the columns of the jobs table the control depends on
  lease,  \* lease[w]: "none", "fresh" or "stale" row of the workers table
  stopq,  \* stopq[w]: its stop_requested column
  wk,     \* wk[w]: program counter and locals of the worker process
  todo,   \* todo[w]: orphans snapshot the worker is reconciling
  run,    \* run[w][j]: the runner process worker w spawned for row j
  rq      \* rq[r]: program counter and row snapshot of a UI request

vars == <<row, lease, stopq, wk, todo, run, rq>>

(***************************************************************************)
(* State.                                                                  *)
(***************************************************************************)

\* rw/top: runner_pid + runner_create_time, as the worker whose runner it is
\* and whether the pid is the one the create time belongs to.
NoRow == [status |-> "absent", chap |-> NoJob, owner |-> NoWorker,
          cancel |-> FALSE, rw |-> NoWorker, top |-> TRUE, recov |-> FALSE,
          prev |-> NoJob, root |-> NoJob, payload |-> FALSE, sel |-> FALSE,
          auth |-> FALSE]

NoRunner == [st |-> "none", known |-> FALSE, gate |-> FALSE, skew |-> FALSE,
             pipe |-> "none", out |-> "none"]

Init ==
  /\ row = [j \in Job |-> NoRow]
  /\ lease = [w \in Worker |-> "none"]
  /\ stopq = [w \in Worker |-> FALSE]
  /\ wk = [w \in Worker |-> [pc |-> "off", job |-> NoJob, safe |-> TRUE,
                             seen |-> "absent", seenCancel |-> FALSE]]
  /\ todo = [w \in Worker |-> {}]
  /\ run = [w \in Worker |-> [j \in Job |-> NoRunner]]
  /\ rq = [r \in Request |-> [pc |-> "idle", job |-> NoJob, seen |-> NoRow]]

(***************************************************************************)
(* Processes.                                                              *)
(***************************************************************************)

Down == {"off", "exited", "dead"}

WorkerUp(w) == wk[w].pc \notin Down

\* healthy_worker: a fresh heartbeat and a surviving process instance
Healthy(w) == lease[w] = "fresh" /\ WorkerUp(w)

RunnerUp(w, j) == run[w][j].st # "none"

\* process_tree.matches on the runner columns of row (or snapshot) c of job j:
\* pid, start time within the tolerance, and the job id on the command line.
TrackedUp(c, j) ==
  /\ c.rw # NoWorker
  /\ RunnerUp(c.rw, j) /\ run[c.rw][j].known
  /\ c.top \/ ~run[c.rw][j].skew

\* terminate_tree: a live runner and every descendant
Killed(w, j) == IF RunnerUp(w, j) THEN [run EXCEPT ![w][j] = NoRunner] ELSE run

(***************************************************************************)
(* Rows.                                                                   *)
(***************************************************************************)

CanMove(j, t) == TransitionAllowed(row[j].status, t)

CanMoveOwned(w, j, t) == CanMove(j, t) /\ row[j].owner = w

\* transition(...): raises, and writes nothing, when the pair is not allowed
Moved(j, t) == IF CanMove(j, t) THEN [row EXCEPT ![j].status = t] ELSE row

MovedR(j, t, recoverable) ==
  IF CanMove(j, t)
  THEN [row EXCEPT ![j] = [@ EXCEPT !.status = t, !.recov = recoverable]] ELSE row

\* unique index uq_jobs_active_owner_chapter
ChapterFree(c) ==
  \A j \in Job : row[j].chap = c => row[j].status \notin IndexActive

\* retry_for_job, backed by the unique index uq_jobs_retry_parent
HasSuccessor(j) == \E k \in Job : row[k].status # "absent" /\ row[k].prev = j

\* rows are numbered by created_at
NextRow(j) ==
  /\ row[j].status = "absent"
  /\ \A i \in Job : i < j => row[i].status # "absent"

(***************************************************************************)
(* Worker: start, lease, stop, crash.                                      *)
(***************************************************************************)

At(w, pc) == wk[w].pc = pc

Goto(w, pc) == wk' = [wk EXCEPT ![w].pc = pc]

\* back to the top of the worker loop, holding no job
GotoIdle(w) == wk' = [wk EXCEPT ![w] = [@ EXCEPT !.pc = "idle", !.job = NoJob]]

\* the finally clause of run(): the lease row is deleted
Leave(w) ==
  /\ wk' = [wk EXCEPT ![w] = [@ EXCEPT !.pc = "exited", !.job = NoJob]]
  /\ lease' = [lease EXCEPT ![w] = "none"]

BugNoneHealthy == \A v \in Worker : lease[v] = "none"

\* start_worker: a worker is launched unless a healthy one is registered
NoneHealthy == \A v \in Worker : ~Healthy(v)

StartWorker(w) ==
  /\ At(w, "off") /\ NoneHealthy
  /\ Goto(w, "check")
  /\ UNCHANGED <<row, lease, stopq, todo, run, rq>>

\* another_worker_alive, read before this worker is registered
WorkerCheck(w) ==
  /\ At(w, "check")
  /\ Goto(w, IF \E v \in Worker \ {w} : Healthy(v) THEN "exited" ELSE "register")
  /\ UNCHANGED <<row, lease, stopq, todo, run, rq>>

Register(w) ==
  /\ At(w, "register")
  /\ lease' = [lease EXCEPT ![w] = "fresh"]
  /\ stopq' = [stopq EXCEPT ![w] = FALSE]
  /\ GotoIdle(w)
  /\ UNCHANGED <<row, todo, run, rq>>

Heartbeat(w) ==
  /\ WorkerUp(w) /\ lease[w] = "stale"
  /\ lease' = [lease EXCEPT ![w] = "fresh"]
  /\ UNCHANGED <<row, stopq, wk, todo, run, rq>>

LeaseExpires(w) ==
  /\ lease[w] = "fresh"
  /\ At(w, "dead") \/ "stale_lease" \in Faults
  /\ lease' = [lease EXCEPT ![w] = "stale"]
  /\ UNCHANGED <<row, stopq, wk, todo, run, rq>>

\* request_worker_stop from the launcher, or a stop signal to the worker
RequestStop(w) ==
  /\ "stop" \in UiOps
  /\ lease[w] # "none" /\ ~stopq[w]
  /\ stopq' = [stopq EXCEPT ![w] = TRUE]
  /\ UNCHANGED <<row, lease, wk, todo, run, rq>>

WorkerStops(w) ==
  /\ At(w, "idle") /\ stopq[w]
  /\ Leave(w)
  /\ UNCHANGED <<row, stopq, todo, run, rq>>

\* The lease row and the runner (its own process group) outlive the worker.
WorkerCrash(w) ==
  /\ "worker_crash" \in Faults
  /\ WorkerUp(w)
  /\ wk' = [wk EXCEPT ![w] = [@ EXCEPT !.pc = "dead", !.job = NoJob]]
  /\ todo' = [todo EXCEPT ![w] = {}]
  /\ UNCHANGED <<row, lease, stopq, run, rq>>

(***************************************************************************)
(* Worker: _reconcile_stale, run at the top of every poll.                 *)
(***************************************************************************)

BugOrphaned(w, j) == row[j].status \in InFlight /\ row[j].owner = NoWorker

\* orphaned_in_flight_jobs
Orphaned(w, j) ==
  /\ row[j].status \in InFlight
  /\ row[j].owner # w
  /\ \/ row[j].owner = NoWorker
     \/ lease[row[j].owner] # "fresh" \/ ~WorkerUp(row[j].owner)

Orphan(j) == [job |-> j, rw |-> row[j].rw, top |-> row[j].top,
              cancel |-> row[j].cancel, phase |-> "probe"]

ScanOrphans(w) ==
  /\ At(w, "idle") /\ ~stopq[w]
  /\ todo' = [todo EXCEPT ![w] = {Orphan(j) : j \in {k \in Job : Orphaned(w, k)}}]
  /\ wk' = [wk EXCEPT ![w] = [@ EXCEPT !.pc = "orphans", !.safe = TRUE]]
  /\ UNCHANGED <<row, lease, stopq, run, rq>>

\* the orphan the loop is at
Reconciles(w, o, phase) ==
  /\ At(w, "orphans")
  /\ o.phase = phase
  /\ \A p \in todo[w] : o.job <= p.job

Advance(w, o, phase) ==
  todo' = [todo EXCEPT ![w] = (@ \ {o}) \union {[o EXCEPT !.phase = phase]}]

Drop(w, o) == todo' = [todo EXCEPT ![w] = @ \ {o}]

\* A live validated runner is terminated; a pid that is not ours is left alone.
OrphanProbe(w) ==
  \E o \in todo[w] :
    /\ Reconciles(w, o, "probe")
    /\ run' = IF TrackedUp(o, o.job) THEN Killed(o.rw, o.job) ELSE run
    /\ Advance(w, o, "settle")
    /\ UNCHANGED <<row, lease, stopq, wk, rq>>

OrphanSurvives(w) ==
  \E o \in todo[w] :
    /\ "kill_fails" \in Faults
    /\ Reconciles(w, o, "probe") /\ TrackedUp(o, o.job)
    /\ Drop(w, o)
    /\ wk' = [wk EXCEPT ![w].safe = FALSE]
    /\ UNCHANGED <<row, lease, stopq, run, rq>>

\* the settlement states a recovery may leave the reservation in
Pending == IF "wallet_down" \in Faults THEN BOOLEAN ELSE {FALSE}

BugRecoveredAs(j) == IF row[j].status = "claiming" THEN "queued" ELSE "interrupted"

\* recovery never requeues: a new attempt is the user's decision
RecoveredAs(j) == "interrupted"

\* No owner is expected by these transitions; their errors are swallowed.
OrphanSettle(w) ==
  \E o \in todo[w], pending \in Pending :
    /\ Reconciles(w, o, "settle")
    /\ IF o.cancel /\ ~pending
       THEN /\ Advance(w, o, IF row[o.job].status \in {"claiming", "starting", "running"}
                             THEN "cancel" ELSE "close")
            /\ UNCHANGED row
       ELSE /\ row' = MovedR(o.job, RecoveredAs(o.job), TRUE)
            /\ Drop(w, o)
    /\ UNCHANGED <<lease, stopq, wk, run, rq>>

OrphanCancel(w) ==
  \E o \in todo[w] :
    /\ Reconciles(w, o, "cancel")
    /\ row' = Moved(o.job, "cancelling")
    /\ IF CanMove(o.job, "cancelling") THEN Advance(w, o, "close") ELSE Drop(w, o)
    /\ UNCHANGED <<lease, stopq, wk, run, rq>>

OrphanClose(w) ==
  \E o \in todo[w] :
    /\ Reconciles(w, o, "close")
    /\ row' = MovedR(o.job, "cancelled", FALSE)
    /\ Drop(w, o)
    /\ UNCHANGED <<lease, stopq, wk, run, rq>>

\* nothing is claimed while a validated old runner may still be alive
OrphansDone(w) ==
  /\ At(w, "orphans") /\ todo[w] = {}
  /\ Goto(w, IF wk[w].safe THEN "claim" ELSE "idle")
  /\ UNCHANGED <<row, lease, stopq, todo, run, rq>>

(***************************************************************************)
(* Worker: claim a row and run its source phase.                           *)
(***************************************************************************)

BugClaimable(j) == row[j].status \in {"queued", "claiming"}

Claimable(j) == row[j].status = "queued"

\* claim_next_job: one UPDATE of the oldest queued row ...
Claim(w) ==
  /\ At(w, "claim")
  /\ \E j \in Job :
       /\ Claimable(j) /\ \A i \in Job : i < j => ~Claimable(i)
       /\ row' = [row EXCEPT ![j] = [@ EXCEPT !.status = "claiming", !.owner = w]]
       /\ wk' = [wk EXCEPT ![w] = [@ EXCEPT !.pc = "claimed", !.job = j]]
  /\ UNCHANGED <<lease, stopq, todo, run, rq>>

\* ... then a SELECT of the row this worker claimed last that is still claiming
\* (of older ones, any: claimed_at is not kept)
Claimed(w) ==
  /\ At(w, "claimed")
  /\ LET held == {j \in Job : row[j].status = "claiming" /\ row[j].owner = w}
         last == IF wk[w].job \in held THEN {wk[w].job} ELSE held IN
       \/ \E j \in last : wk' = [wk EXCEPT ![w] = [@ EXCEPT !.pc = "prepare", !.job = j]]
       \/ last = {} /\ GotoIdle(w)
  /\ UNCHANGED <<row, lease, stopq, todo, run, rq>>

BugNothingQueued(w) ==
  /\ At(w, "claim")
  /\ \A j \in Job : ~Claimable(j)
  /\ Goto(w, "prepare")
  /\ UNCHANGED <<row, lease, stopq, todo, run, rq>>

NothingQueued(w) ==
  /\ At(w, "claim")
  /\ \A j \in Job : ~Claimable(j)
  /\ GotoIdle(w)
  /\ UNCHANGED <<row, lease, stopq, todo, run, rq>>

Mine(w) == wk[w].job

\* _prepare_source on a fresh read of the row: should_spawn_runner, then
\* source_type (unset: not a URL row) and has_usable_selection decide.
Prepare(w) ==
  /\ At(w, "prepare")
  /\ LET r == row[Mine(w)] IN
       IF r.cancel \/ r.status \in Terminal
            \union {"awaiting_source_review", "source_analysis_ready"}
       THEN GotoIdle(w)
       ELSE Goto(w, IF r.payload /\ ~r.sel THEN "analyse" ELSE "spawn")
  /\ UNCHANGED <<row, lease, stopq, todo, run, rq>>

\* _analyze_source raised: _fail_source, whose transitions expect no owner
AnalysisFails(w) ==
  /\ At(w, "analyse")
  /\ \E t \in {"failed", "waiting_source_verification"} : row' = Moved(Mine(w), t)
  /\ GotoIdle(w)
  /\ UNCHANGED <<lease, stopq, todo, run, rq>>

\* the analysis polled its cancel_check
AnalysisCancelled(w) ==
  /\ At(w, "analyse")
  /\ row[Mine(w)].cancel \/ row[Mine(w)].status \in {"cancelled", "failed"}
  /\ row' = IF row[Mine(w)].status \in {"claiming", "starting", "running"}
            THEN Moved(Mine(w), "cancelling") ELSE row
  /\ Goto(w, "failcancel")
  /\ UNCHANGED <<lease, stopq, todo, run, rq>>

FailCancelled(w) ==
  /\ At(w, "failcancel")
  /\ row' = Moved(Mine(w), "cancelled")
  /\ GotoIdle(w)
  /\ UNCHANGED <<lease, stopq, todo, run, rq>>

\* a late result is not applied to a row that left this worker's claim
AnalysisDone(w) ==
  /\ At(w, "analyse")
  /\ LET r == row[Mine(w)] IN
       IF r.status = "claiming" /\ r.owner = w /\ ~r.cancel
       THEN Goto(w, "apply") ELSE GotoIdle(w)
  /\ UNCHANGED <<row, lease, stopq, todo, run, rq>>

\* _apply_phase reads the row again
Apply(w) ==
  /\ At(w, "apply")
  /\ IF row[Mine(w)].status = "claiming" THEN Goto(w, "decide") ELSE GotoIdle(w)
  /\ UNCHANGED <<row, lease, stopq, todo, run, rq>>

\* a ready analysis stores the selection of all its pages
Selected(j, t) == t = "source_analysis_ready" \/ row[j].sel

\* apply_source_analysis: one transition, chosen by the analysis
Decide(w) ==
  /\ At(w, "decide")
  /\ \E t \in {"failed", "awaiting_source_review", "source_analysis_ready"} :
       IF CanMove(Mine(w), t)
       THEN /\ row' = [row EXCEPT ![Mine(w)] =
                         [@ EXCEPT !.status = t, !.sel = Selected(Mine(w), t)]]
            /\ IF t = "source_analysis_ready" THEN Goto(w, "handoff") ELSE GotoIdle(w)
       ELSE Goto(w, "failsource") /\ UNCHANGED row
  /\ UNCHANGED <<lease, stopq, todo, run, rq>>

FailSource(w) ==
  /\ At(w, "failsource")
  /\ row' = Moved(Mine(w), "failed")
  /\ GotoIdle(w)
  /\ UNCHANGED <<lease, stopq, todo, run, rq>>

BugResolvable(j) == row[j].status # "absent" /\ ~row[j].cancel

Resolvable(j) == row[j].status = "source_analysis_ready" /\ ~row[j].cancel

\* resolve_ready_pipeline(handoff_worker_id), one immediate transaction, and the
\* worker's reaction to its answer
Handoff(w) ==
  /\ At(w, "handoff")
  /\ LET j == Mine(w) IN
       \/ /\ row[j].status = "queued" /\ row[j].auth       \* "duplicate" resolution
          /\ Goto(w, "spawn") /\ UNCHANGED row
       \/ /\ ~(row[j].status = "queued" /\ row[j].auth)
          /\ ~Resolvable(j)
          /\ GotoIdle(w) /\ UNCHANGED row
       \/ /\ Resolvable(j)
          /\ \/ GotoIdle(w) /\ UNCHANGED row               \* no active policy
             \/ GotoIdle(w) /\ row' = Moved(j, "failed")   \* permanent policy failure
             \/ /\ row[j].owner = w
                /\ row' = [row EXCEPT ![j] = [@ EXCEPT !.status = "claiming", !.auth = TRUE]]
                /\ Goto(w, "spawn")
             \/ row[j].owner # w /\ Goto(w, "failsource") /\ UNCHANGED row
  /\ UNCHANGED <<lease, stopq, todo, run, rq>>

(***************************************************************************)
(* Worker: spawn the runner, watch it, stop it, close its accounting.      *)
(***************************************************************************)

OwnRunnerUp(w) == RunnerUp(w, Mine(w))

\* The child blocks on its start gate.
SpawnRunner(w) ==
  /\ At(w, "spawn")
  /\ \E skew \in (IF "shim_skew" \in Faults THEN BOOLEAN ELSE {FALSE}) :
       run' = [run EXCEPT ![w][Mine(w)] =
                 [NoRunner EXCEPT !.st = "gate", !.skew = skew]]
  /\ Goto(w, "persist")
  /\ UNCHANGED <<row, lease, stopq, todo, rq>>

\* update_fields(runner_pid, runner_create_time): no guard on the row
PersistRunner(w) ==
  /\ At(w, "persist")
  /\ row' = [row EXCEPT ![Mine(w)] = [@ EXCEPT !.rw = w, !.top = TRUE]]
  /\ run' = IF OwnRunnerUp(w) THEN [run EXCEPT ![w][Mine(w)].known = TRUE] ELSE run
  /\ Goto(w, "open")
  /\ UNCHANGED <<lease, stopq, todo, rq>>

PersistFails(w) ==
  /\ "persist_fails" \in Faults
  /\ At(w, "persist") \/ At(w, "open")
  /\ Goto(w, "halt")
  /\ UNCHANGED <<row, lease, stopq, todo, run, rq>>

OpenGate(w) ==
  /\ At(w, "open")
  /\ run' = IF OwnRunnerUp(w) THEN [run EXCEPT ![w][Mine(w)].gate = TRUE] ELSE run
  /\ Goto(w, "watch")
  /\ UNCHANGED <<row, lease, stopq, todo, rq>>

WatchStops(w) ==
  /\ At(w, "watch") /\ stopq[w] /\ OwnRunnerUp(w)
  /\ Goto(w, "stop")
  /\ UNCHANGED <<row, lease, stopq, todo, run, rq>>

\* _stop_active_runner, from the watch loop ("stop", then "settle", "close") or
\* after a failed persist ("halt", ...).  The tree the row points at is
\* terminated if it is ours, else the one of the handle we hold.
KillRunner(w) ==
  /\ \/ At(w, "stop") /\ Goto(w, "settle")
     \/ At(w, "halt") /\ Goto(w, "haltsettle")
  /\ LET j == Mine(w) IN
       run' = Killed(IF TrackedUp(row[j], j) THEN row[j].rw ELSE w, j)
  /\ UNCHANGED <<row, lease, stopq, todo, rq>>

\* where the caller of _stop_active_runner goes on
Stopped(w) == IF At(w, "settle") \/ At(w, "close") THEN Goto(w, "watch") ELSE GotoIdle(w)

\* A row still in flight is interrupted or cancelled; errors are swallowed.
SettleStopped(w) ==
  /\ At(w, "settle") \/ At(w, "haltsettle")
  /\ LET j == Mine(w)
         Close == Goto(w, IF At(w, "settle") THEN "close" ELSE "haltclose") IN
       \/ row[j].status \notin InFlight /\ Stopped(w) /\ UNCHANGED row
       \/ /\ row[j].status \in InFlight
          /\ \E pending \in Pending :
               IF row[j].cancel /\ ~pending
               THEN IF CanMoveOwned(w, j, "cancelling")
                    THEN row' = Moved(j, "cancelling") /\ Close
                    ELSE Stopped(w) /\ UNCHANGED row
               ELSE /\ row' = IF row[j].owner = w THEN MovedR(j, "interrupted", TRUE) ELSE row
                    /\ Stopped(w)
  /\ UNCHANGED <<lease, stopq, todo, run, rq>>

CloseStopped(w) ==
  /\ At(w, "close") \/ At(w, "haltclose")
  /\ row' = IF row[Mine(w)].owner = w THEN Moved(Mine(w), "cancelled") ELSE row
  /\ Stopped(w)
  /\ UNCHANGED <<lease, stopq, todo, run, rq>>

BugRunnerExited(w) ==
  /\ At(w, "watch") /\ ~OwnRunnerUp(w)
  /\ LET r == row[Mine(w)] IN
       IF r.status \in InFlight \ {"claiming"}
       THEN wk' = [wk EXCEPT ![w] =
                     [@ EXCEPT !.pc = "exit", !.seen = r.status, !.seenCancel = r.cancel]]
       ELSE GotoIdle(w)
  /\ UNCHANGED <<row, lease, stopq, todo, run, rq>>

\* _reconcile_runner_exit reads the row after the child exited
RunnerExited(w) ==
  /\ At(w, "watch") /\ ~OwnRunnerUp(w)
  /\ LET r == row[Mine(w)] IN
       IF r.status \in InFlight
       THEN wk' = [wk EXCEPT ![w] =
                     [@ EXCEPT !.pc = "exit", !.seen = r.status, !.seenCancel = r.cancel]]
       ELSE GotoIdle(w)
  /\ UNCHANGED <<row, lease, stopq, todo, run, rq>>

HeldAt(w, pc) == IF pc = "idle" THEN NoJob ELSE Mine(w)

\* An owned transition that raises is not caught here: run() unwinds.
MoveOrUnwind(w, t, recoverable, next) ==
  LET j == Mine(w) IN
  IF CanMoveOwned(w, j, t)
  THEN /\ row' = [row EXCEPT ![j] = [@ EXCEPT !.status = t, !.recov = recoverable]]
       /\ wk' = [wk EXCEPT ![w] =
                   [@ EXCEPT !.pc = next, !.job = HeldAt(w, next),
                             !.seen = "absent", !.seenCancel = FALSE]]
       /\ UNCHANGED lease
  ELSE /\ wk' = [wk EXCEPT ![w] =
                   [@ EXCEPT !.pc = "exited", !.job = NoJob,
                             !.seen = "absent", !.seenCancel = FALSE]]
       /\ lease' = [lease EXCEPT ![w] = "none"]
       /\ UNCHANGED row

ExitReconcile(w) ==
  /\ At(w, "exit")
  /\ LET seen == wk[w].seen
         recov == row[Mine(w)].recov IN
       IF ~wk[w].seenCancel
       THEN MoveOrUnwind(w, "interrupted", seen # "claiming", "idle")
       ELSE IF seen \in {"starting", "running"}
       THEN MoveOrUnwind(w, "cancelling", recov, "exit2")
       ELSE IF seen = "claiming"
       THEN MoveOrUnwind(w, "interrupted", FALSE, "exit2")
       ELSE MoveOrUnwind(w, "cancelled", recov, "idle")
  /\ UNCHANGED <<stopq, todo, run, rq>>

ExitCancelled(w) ==
  /\ At(w, "exit2")
  /\ MoveOrUnwind(w, "cancelled", row[Mine(w)].recov, "idle")
  /\ UNCHANGED <<stopq, todo, run, rq>>

(***************************************************************************)
(* Runner: run_job.  A transition that raises ends the runner.             *)
(***************************************************************************)

Step(w, j, from, to) ==
  /\ run[w][j].st = from
  /\ run' = [run EXCEPT ![w][j].st = to]

Exits(w, j) == run' = [run EXCEPT ![w][j] = NoRunner]

\* an owned transition of the runner, else its end
StepOwned(w, j, from, t, to) ==
  /\ run[w][j].st = from
  /\ IF CanMoveOwned(w, j, t)
     THEN /\ row' = Moved(j, t)
          /\ IF to = "none" THEN Exits(w, j) ELSE Step(w, j, from, to)
     ELSE Exits(w, j) /\ UNCHANGED row

BugGateOpen(w, j) == TRUE

\* wait_for_start_gate: the worker created the gate file
GateOpen(w, j) == run[w][j].gate

GateTimeout(w, j) ==
  /\ run[w][j].st = "gate" /\ ~GateOpen(w, j)
  /\ Exits(w, j)
  /\ UNCHANGED row

Boot(w, j) ==
  /\ run[w][j].st = "gate" /\ GateOpen(w, j)
  /\ LET r == row[j] IN
       IF r.owner \notin {w, NoWorker} \/ r.status \notin {"claiming", "starting"}
       THEN Exits(w, j)
       ELSE Step(w, j, "gate", IF r.cancel THEN "cancel"
                               ELSE IF r.status = "claiming" THEN "start" ELSE "running")
  /\ UNCHANGED row

BootCancel(w, j) == StepOwned(w, j, "cancel", "cancelling", "cancelled")
BootCancelled(w, j) == StepOwned(w, j, "cancelled", "cancelled", "none")

\* invalid command, authorization or provider: failed, whoever owns the row
Reject(w, j) ==
  /\ run[w][j].st = "start"
  /\ row' = Moved(j, "failed")
  /\ Exits(w, j)

Start(w, j) == StepOwned(w, j, "start", "starting", "running")
Running(w, j) == StepOwned(w, j, "running", "running", "spawn")

SpawnPipeline(w, j) ==
  /\ run[w][j].st = "spawn"
  /\ run' = [run EXCEPT ![w][j] = [@ EXCEPT !.st = "pid", !.pipe = "live"]]
  /\ UNCHANGED row

SpawnFails(w, j) == StepOwned(w, j, "spawn", "failed", "none")

\* the stored create time is not the one of this runner's interpreter
Skewed(w, j) == run[w][j].skew \/ row[j].rw # w

\* update_fields(runner_pid=os.getpid()): runner_create_time keeps what the
\* spawning worker stored
RecordPid(w, j) ==
  /\ run[w][j].st = "pid"
  /\ run' = [run EXCEPT ![w][j] = [@ EXCEPT !.st = "loop", !.skew = Skewed(w, j)]]
  /\ row' = [row EXCEPT ![j] = [@ EXCEPT !.rw = w, !.top = FALSE]]

PipelineExits(w, j) ==
  /\ run[w][j].pipe = "live"
  /\ run' = [run EXCEPT ![w][j].pipe = "none"]
  /\ UNCHANGED row

\* the loop sees cancel_requested; a rejected transition is ignored
ObserveCancel(w, j) ==
  /\ run[w][j].st = "loop" /\ row[j].cancel
  /\ row' = IF row[j].owner = w THEN Moved(j, "cancelling") ELSE row
  /\ run' = [run EXCEPT ![w][j] =
                [@ EXCEPT !.st = "final", !.out = "cancelled", !.pipe = "none"]]

\* the worker's terminate reached the signal handler first
ObserveStop(w, j) ==
  /\ run[w][j].st = "loop" /\ At(w, "stop") /\ Mine(w) = j
  /\ run' = [run EXCEPT ![w][j] =
                [@ EXCEPT !.st = "final", !.out = "interrupted", !.pipe = "none"]]
  /\ UNCHANGED row

\* derive_final_run_status; "interrupted" when the translation is recoverable
PipelineDone(w, j) ==
  /\ run[w][j].st = "loop" /\ run[w][j].pipe = "none"
  /\ \E o \in {"finished", "review_required", "failed", "interrupted"} :
       run' = [run EXCEPT ![w][j] = [@ EXCEPT !.st = "final", !.out = o]]
  /\ UNCHANGED row

\* an interruption is recoverable; other outcomes leave the column alone
Recoverable(j, t) == t = "interrupted" \/ row[j].recov

\* never terminal while the wallet reservation is unresolved
Finalize(w, j) ==
  /\ run[w][j].st = "final"
  /\ \E pending \in Pending :
       LET t == IF pending THEN "interrupted" ELSE run[w][j].out IN
       row' = IF row[j].owner # w THEN row
              ELSE MovedR(j, t, Recoverable(j, t))
  /\ Exits(w, j)

\* The runner dies; its pipeline is a process of its own.
RunnerAlone(w, j) ==
  /\ "runner_alone" \in Faults
  /\ RunnerUp(w, j)
  /\ run' = [run EXCEPT ![w][j] = [NoRunner EXCEPT !.pipe = run[w][j].pipe]]
  /\ UNCHANGED row

RunnerStep(w, j) ==
  \/ GateTimeout(w, j) \/ Boot(w, j) \/ BootCancel(w, j) \/ BootCancelled(w, j)
  \/ Reject(w, j) \/ Start(w, j) \/ Running(w, j) \/ SpawnPipeline(w, j)
  \/ SpawnFails(w, j) \/ RecordPid(w, j) \/ PipelineExits(w, j)
  \/ ObserveCancel(w, j) \/ ObserveStop(w, j) \/ PipelineDone(w, j) \/ Finalize(w, j)

(***************************************************************************)
(* UI process.                                                             *)
(***************************************************************************)

Asks(r, pc, j, seen) == rq' = [rq EXCEPT ![r] = [pc |-> pc, job |-> j, seen |-> seen]]
Answers(r) == rq' = [rq EXCEPT ![r] = [pc |-> "idle", job |-> NoJob, seen |-> NoRow]]
On(r, pc) == rq[r].pc = pc
Next1(r, pc) == rq' = [rq EXCEPT ![r].pc = pc]

NewRow(c, prev, root, auth) ==
  [NoRow EXCEPT !.status = "queued", !.chap = c, !.prev = prev, !.root = root, !.auth = auth]

\* _pending_duplicate: no submission of the chapter is under way
NoDuplicate(c) == \A k \in Job : row[k].chap = c => row[k].status \notin DedupeActive

\* start: no pending duplicate ...
Submit(r) ==
  /\ "submit" \in UiOps /\ On(r, "idle")
  /\ \E c \in Chapter :
       /\ NoDuplicate(c)
       /\ Asks(r, "insert", NoJob, [NoRow EXCEPT !.chap = c])
  /\ UNCHANGED row

\* ... then create_job (QUEUED), which the unique index may refuse (an insert
\* beyond the bound MaxJob is answered the same way) ...
Insert(r) ==
  /\ On(r, "insert")
  /\ LET c == rq[r].seen.chap IN
       \/ \E j \in Job :
            /\ NextRow(j) /\ ChapterFree(c)
            /\ row' = [row EXCEPT ![j] = NewRow(c, NoJob, j, FALSE)]
            /\ Asks(r, "payload", j, NoRow)
       \/ /\ ~ChapterFree(c) \/ \A j \in Job : ~NextRow(j)
          /\ Answers(r) /\ UNCHANGED row

\* the attempt that is resumed hands on its selection
CarriedOver(r) == rq[r].seen.sel \/ row[rq[r].job].sel

\* ... then update_fields with source_type and, on a resume, the selection
PersistPayload(r) ==
  /\ On(r, "payload")
  /\ row' = [row EXCEPT ![rq[r].job] =
                [@ EXCEPT !.payload = TRUE, !.sel = CarriedOver(r)]]
  /\ Answers(r)

BugAttemptOver(j) == TRUE

\* "previous_attempt_still_running"
AttemptOver(j) == ~TrackedUp(row[j], j)

\* resume: the refusals of resume_block_reason on one read of the row
Resume(r) ==
  /\ "resume" \in UiOps /\ On(r, "idle")
  /\ \E j \in Job :
       /\ row[j].status \in {"interrupted", "resumable"} /\ row[j].recov
       /\ ~HasSuccessor(j) /\ AttemptOver(j)
       /\ Asks(r, IF row[j].status = "interrupted" THEN "mark" ELSE "create", j, row[j])
  /\ UNCHANGED row

MarkResumable(r) ==
  /\ On(r, "mark")
  /\ row' = MovedR(rq[r].job, "resumable", TRUE)
  /\ IF CanMove(rq[r].job, "resumable") THEN Next1(r, "create") ELSE Answers(r)

BugAttempt(k, j, seen) ==
  [row EXCEPT ![k] = NewRow(seen.chap, j, seen.root, seen.auth), ![j].status = "queued"]

\* the new attempt k of row j; j is left as it is
Attempt(k, j, seen) == [row EXCEPT ![k] = NewRow(seen.chap, j, seen.root, seen.auth)]

\* create_job under the unique indexes on the active chapter and on the parent
\* (the last conjunct of the condition is the bound MaxJob)
CreateResumed(r) ==
  /\ On(r, "create")
  /\ LET j == rq[r].job
         seen == rq[r].seen IN
       IF ChapterFree(seen.chap) /\ ~HasSuccessor(j) /\ \E k \in Job : NextRow(k)
       THEN \E k \in Job :
              /\ NextRow(k)
              /\ row' = Attempt(k, j, seen)
              /\ Asks(r, "payload", k, seen)
       ELSE Answers(r) /\ UNCHANGED row

\* cancel: active_job ...
Cancel(r) ==
  /\ "cancel" \in UiOps /\ On(r, "idle")
  /\ \E j \in Job : row[j].status \in InFlight /\ Asks(r, "flag", j, row[j])
  /\ UNCHANGED row

\* ... request_cancel ...
FlagCancel(r) ==
  /\ On(r, "flag")
  /\ LET j == rq[r].job IN
       row' = IF row[j].status \in Terminal THEN row ELSE [row EXCEPT ![j].cancel = TRUE]
  /\ Next1(r, "probe")

\* ... then the liveness of the runner of the row first read
ProbeRunner(r) ==
  /\ On(r, "probe")
  /\ LET seen == rq[r].seen IN
       IF TrackedUp(seen, rq[r].job)
       THEN IF seen.status = "cancelling" THEN Answers(r) ELSE Next1(r, "markcancel")
       ELSE Next1(r, IF seen.status = "cancelling" THEN "cancelled" ELSE "settlecancel")
  /\ UNCHANGED row

\* the runner will act on the flag
MarkCancelling(r) ==
  /\ On(r, "markcancel")
  /\ row' = Moved(rq[r].job, "cancelling")
  /\ Answers(r)

\* no runner: the request settles the row itself
SettleCancel(r) ==
  /\ On(r, "settlecancel")
  /\ row' = Moved(rq[r].job, "cancelling")
  /\ IF CanMove(rq[r].job, "cancelling") THEN Next1(r, "cancelled") ELSE Answers(r)

SettleCancelled(r) ==
  /\ On(r, "cancelled")
  /\ row' = Moved(rq[r].job, "cancelled")
  /\ Answers(r)

\* cancel of a row no worker holds, queued or a displayed source review: the
\* transition that follows (SettleCancelled) may find a worker with it
CancelHeld(r) ==
  /\ "cancel" \in UiOps /\ On(r, "idle")
  /\ \E j \in Job :
       /\ row[j].status \in {"queued", "awaiting_source_review"}
       /\ Asks(r, "cancelled", j, NoRow)
  /\ UNCHANGED row

\* reconcile_orphans: one row of the in-flight rows it listed
Reconcile(r) ==
  /\ "reconcile" \in UiOps /\ On(r, "idle")
  /\ \E j \in Job : row[j].status \in InFlight /\ Asks(r, "reconcile", j, row[j])
  /\ UNCHANGED row

BugBeingStarted(seen) == FALSE

\* no runner yet, but the worker that claimed the row is alive
BeingStarted(seen) ==
  seen.rw = NoWorker /\ seen.owner # NoWorker /\ WorkerUp(seen.owner)

Freeze(r) ==
  /\ On(r, "reconcile")
  /\ LET j == rq[r].job
         seen == rq[r].seen IN
       row' = IF TrackedUp(seen, j) \/ BeingStarted(seen) THEN row
              ELSE MovedR(j, IF seen.cancel THEN "cancelled" ELSE "interrupted", TRUE)
  /\ Answers(r)

\* confirm_source_pages: the selection, then the transition
ConfirmPages(r) ==
  /\ "confirm" \in UiOps /\ On(r, "idle")
  /\ \E j \in Job :
       /\ row[j].status = "awaiting_source_review"
       /\ row' = [row EXCEPT ![j].sel = TRUE]
       /\ Asks(r, "requeue", j, NoRow)

\* transition(QUEUED) expects no status and no owner; the unique index may refuse
\* a row it does not hold
Requeue(r) ==
  /\ On(r, "requeue")
  /\ LET j == rq[r].job
         others == \A k \in Job \ {j} :
                     row[k].chap = row[j].chap => row[k].status \notin IndexActive IN
       row' = IF others THEN Moved(j, "queued") ELSE row
  /\ Answers(r)

\* resume_source_verification: the row displayed, then the transition
VerifySource(r) ==
  /\ "verify" \in UiOps /\ On(r, "idle")
  /\ \E j \in Job :
       /\ row[j].status = "waiting_source_verification"
       /\ Asks(r, "requeue", j, NoRow)
  /\ UNCHANGED row

\* _resolve_stale_submit_for_ready_source: resolve_ready_pipeline without handoff
ResolveReady(r) ==
  /\ "resolve" \in UiOps /\ On(r, "idle")
  /\ \E j \in Job :
       /\ Resolvable(j)
       /\ row' = [row EXCEPT ![j] = [@ EXCEPT !.status = "queued", !.auth = TRUE]]
  /\ UNCHANGED rq

\* continue_authorized_download: the row read, then the transition
AuthorizeDownload(r) ==
  /\ "authorize" \in UiOps /\ On(r, "idle")
  /\ \E j \in Job :
       /\ row[j].status = "source_analysis_ready" /\ row[j].sel
       /\ Asks(r, "requeue", j, NoRow)
  /\ UNCHANGED row

\* dismiss_resumable_job_for_owner
Dismiss(r) ==
  /\ "dismiss" \in UiOps /\ On(r, "idle")
  /\ \E j \in Job :
       /\ row[j].status \in {"interrupted", "resumable"} /\ row[j].recov
       /\ row' = [row EXCEPT ![j].recov = FALSE]
  /\ UNCHANGED rq

\* complete_review
CompleteReview(r) ==
  /\ "review" \in UiOps /\ On(r, "idle")
  /\ \E j \in Job :
       /\ row[j].status = "review_required"
       /\ row' = [row EXCEPT ![j] = [@ EXCEPT !.status = "finished", !.owner = NoWorker,
                                        !.rw = NoWorker, !.top = TRUE, !.cancel = FALSE]]
  /\ UNCHANGED rq

UiRestart(r) ==
  /\ "ui_restart" \in Faults /\ ~On(r, "idle")
  /\ Answers(r)
  /\ UNCHANGED row

\* the handler goes on with a request it has begun
UiContinues(r) ==
  \/ Insert(r) \/ PersistPayload(r) \/ MarkResumable(r) \/ CreateResumed(r)
  \/ FlagCancel(r) \/ ProbeRunner(r) \/ MarkCancelling(r) \/ SettleCancel(r)
  \/ SettleCancelled(r) \/ Freeze(r) \/ Requeue(r)

UiStep(r) ==
  /\ \/ UiContinues(r) \/ Submit(r) \/ Resume(r) \/ Cancel(r) \/ CancelHeld(r)
     \/ Reconcile(r) \/ ConfirmPages(r) \/ VerifySource(r) \/ ResolveReady(r)
     \/ AuthorizeDownload(r) \/ Dismiss(r) \/ CompleteReview(r) \/ UiRestart(r)
  /\ UNCHANGED <<lease, stopq, wk, todo, run>>

(***************************************************************************)
(* Specification.                                                          *)
(***************************************************************************)

\* the worker's own program, step by step
WorkerStep(w) ==
  \/ WorkerCheck(w) \/ Register(w) \/ WorkerStops(w)
  \/ ScanOrphans(w) \/ OrphanProbe(w) \/ OrphanSettle(w) \/ OrphanCancel(w)
  \/ OrphanClose(w) \/ OrphansDone(w) \/ Claim(w) \/ Claimed(w) \/ NothingQueued(w)
  \/ Prepare(w) \/ AnalysisFails(w) \/ AnalysisCancelled(w) \/ FailCancelled(w)
  \/ AnalysisDone(w) \/ Apply(w) \/ Decide(w) \/ FailSource(w) \/ Handoff(w)
  \/ SpawnRunner(w) \/ PersistRunner(w) \/ OpenGate(w) \/ WatchStops(w)
  \/ KillRunner(w) \/ SettleStopped(w) \/ CloseStopped(w) \/ RunnerExited(w)
  \/ ExitReconcile(w) \/ ExitCancelled(w)

\* what happens to a worker, or is asked of it
WorkerEvent(w) ==
  \/ StartWorker(w) \/ Heartbeat(w) \/ LeaseExpires(w) \/ RequestStop(w)
  \/ WorkerCrash(w) \/ PersistFails(w) \/ OrphanSurvives(w)

RunnerMoves(w, j) ==
  /\ RunnerStep(w, j) \/ RunnerAlone(w, j)
  /\ UNCHANGED <<lease, stopq, wk, todo, rq>>

Next ==
  \/ \E w \in Worker : WorkerStep(w) \/ WorkerEvent(w)
  \/ \E w \in Worker, j \in Job : RunnerMoves(w, j)
  \/ \E r \in Request : UiStep(r)

Spec == Init /\ [][Next]_vars

\* The worker loop and the runner are sequential programs the system schedules;
\* a handler that began runs on; a supervised worker is started again and
\* heartbeats.  Users and faults are under no obligation.
Fairness ==
  /\ \A w \in Worker :
       /\ WF_vars(WorkerStep(w)) /\ WF_vars(StartWorker(w))
       /\ WF_vars(Heartbeat(w)) /\ WF_vars(At(w, "dead") /\ LeaseExpires(w))
  /\ \A w \in Worker, j \in Job :
       WF_vars(RunnerStep(w, j) /\ UNCHANGED <<lease, stopq, wk, todo, rq>>)
  /\ \A r \in Request :
       WF_vars(UiContinues(r) /\ UNCHANGED <<lease, stopq, wk, todo, run>>)

FairSpec == Spec /\ Fairness

(***************************************************************************)
(* Properties.                                                             *)
(***************************************************************************)

\* program counters at which the worker is on its way to a runner of its job
Supervising ==
  {"analyse", "apply", "decide", "handoff", "spawn", "persist", "open", "watch"}

\* program counters at which the worker holds a job
Busy == Supervising \union
  {"claimed", "prepare", "failcancel", "failsource", "stop", "settle", "close",
   "halt", "haltsettle", "haltclose", "exit", "exit2"}

WorkerPc ==
  Down \union Busy \union {"check", "register", "idle", "orphans", "claim"}

RowType ==
  [status : Status \union {"absent"}, chap : Chapter \union {NoJob},
   owner : Worker \union {NoWorker}, cancel : BOOLEAN, rw : Worker \union {NoWorker},
   top : BOOLEAN, recov : BOOLEAN, prev : Job \union {NoJob}, root : Job \union {NoJob},
   payload : BOOLEAN, sel : BOOLEAN, auth : BOOLEAN]

\* a runner about to finalize knows its outcome
RunnerType ==
 {c \in
  [st : {"none", "gate", "cancel", "cancelled", "start", "running", "spawn", "pid", "loop",
         "final"},
   known : BOOLEAN, gate : BOOLEAN, skew : BOOLEAN, pipe : {"none", "live"},
   out : {"none", "cancelled", "interrupted", "finished", "review_required", "failed"}] :
   c.st = "final" => c.out # "none"}

OrphanType ==
  [job : Job, rw : Worker \union {NoWorker}, top : BOOLEAN, cancel : BOOLEAN,
   phase : {"probe", "settle", "cancel", "close"}]

WorkerType ==
  [pc : WorkerPc, job : Job \union {NoJob}, safe : BOOLEAN,
   seen : InFlight \union {"absent"}, seenCancel : BOOLEAN]

RequestType ==
  [pc : {"idle", "insert", "payload", "mark", "create", "flag", "probe", "markcancel",
         "settlecancel", "cancelled", "reconcile", "requeue"},
   job : Job \union {NoJob}, seen : RowType]

\* Every variable has its type, a worker past the claim and a request under way
\* hold a row.
TypeOK ==
  /\ row \in [Job -> RowType]
  /\ lease \in [Worker -> {"none", "fresh", "stale"}]
  /\ stopq \in [Worker -> BOOLEAN]
  /\ wk \in [Worker -> WorkerType]
  /\ \A w \in Worker : wk[w].pc \in Busy => wk[w].job \in Job
  /\ todo \in [Worker -> SUBSET OrphanType]
  /\ run \in [Worker -> [Job -> RunnerType]]
  /\ rq \in [Request -> RequestType]
  /\ \A r \in Request : rq[r].pc \notin {"idle", "insert"} => rq[r].job \in Job

Live(w, j) == run[w][j].pipe = "live"

\* docs/WORKER_QUEUE.md, "Nunca ha dois attempts ativos para o mesmo capitulo":
\* a resumed attempt reuses the output directory of the attempt it continues, so
\* two pipelines running for one directory would corrupt its checkpoints.
OneWriterPerOutput ==
  \A w, v \in Worker, j, k \in Job :
    Live(w, j) /\ Live(v, k) /\ row[j].root = row[k].root => w = v /\ j = k

\* A pipeline runs only under the runner its row points at and whose worker owns
\* the row, so that the cancel, the resume and the recovery can find its tree.
PipelineTracked ==
  \A w \in Worker, j \in Job :
    Live(w, j) => row[j].owner = w /\ row[j].rw = w /\ TrackedUp(row[j], j)

\* wait_for_start_gate, "Wait until the worker persisted our PID": whoever dies in
\* between, a process that no row ever named does not work on a job.
StartsRecorded ==
  \A w \in Worker, j \in Job : run[w][j].st \notin {"none", "gate"} => run[w][j].known

\* A pipeline that outlives the settlement of its row has been asked to stop.
LivePipelineIsWanted ==
  \A w \in Worker, j \in Job :
    Live(w, j) => row[j].status \in {"running", "cancelling"} \/ row[j].cancel
                    \/ run[w][j].st = "final"

\* A row in flight whose cancellation nobody asked for is never forgotten: the worker it
\* belongs to is busy with it, or is gone, which makes it an orphan of the next one.
NoRowForgotten ==
  \A j \in Job :
    row[j].status \in InFlight /\ ~row[j].cancel =>
      LET w == row[j].owner IN
        w \in Worker /\ (WorkerUp(w) => wk[w].pc \in Busy /\ Mine(w) = j)

\* One worker at most is on its way to a runner of a row.
OneSupervisor ==
  \A w, v \in Worker :
    wk[w].pc \in Supervising /\ wk[v].pc \in Supervising /\ Mine(w) = Mine(v) => w = v

\* "The original row is never requeued: it stays as the preserved previous
\* attempt" (resume): a row with a successor is never active again.
ResumedIsHistory ==
  \A j, k \in Job :
    row[k].status # "absent" /\ row[k].prev = j => row[j].status \notin DedupeActive

\* every instance the bound allows was used up
NoWorkerLeft == \A w \in Worker : wk[w].pc \in {"exited", "dead"}

\* The queue drains: a queued row is claimed or cancelled, by a worker that is
\* launched anew when the one before died.
QueuedIsTaken ==
  \A j \in Job : row[j].status = "queued"
                 ~> row[j].status # "queued" \/ NoWorkerLeft

\* No row stays in flight for ever: its worker finishes it, or the next worker
\* recovers it when the worker that claimed it died.
FlightEnds ==
  \A j \in Job : row[j].status \in InFlight
                 ~> row[j].status \notin InFlight \/ NoWorkerLeft

Lifecycle == INSTANCE JobLifecycle WITH status <- [j \in Job |-> row[j].status]

\* Every write of every process is one the job store promises.
ImplementsLifecycle == Lifecycle!Spec

\* A row that was cancelled, failed or finished keeps that status.
SettledIsFinal == Lifecycle!SettledIsFinal

==============================================================================
