--------------------------- MODULE WorkerSupervisor ---------------------------
(***************************************************************************)
(* Who keeps a worker process alive, and who ends it: the launcher of a    *)
(* desktop instance (start_tradutor.py all), the supervisor thread it runs *)
(* for the worker it started (worker_supervisor.py), the user interface it *)
(* shows, which starts a worker of its own when it finds none, and the     *)
(* worker processes.  Launchers know of each other's workers through the   *)
(* leases of the workers table only.                                       *)
(*                                                                         *)
(* A definition named Bug... is not part of the model (README, "Mutants"). *)
(***************************************************************************)
EXTENDS Naturals

CONSTANTS
  MaxWorker,    \* bound: the number of worker processes ever started
  Launcher,     \* desktop instances
  MaxRestarts,  \* len(BACKOFF_SECONDS)
  NoLauncher

ASSUME SupervisorAssumption ==
  /\ MaxRestarts \in Nat /\ MaxWorker \in Nat
  /\ NoLauncher \notin Launcher

\* worker processes, numbered in the order they are started
Worker == 1 .. MaxWorker

NoWorker == 0

VARIABLES
  proc,   \* proc[w]: a worker process, the launcher it is a child of (or none:
          \* its user interface), its stop_requested, whether it proved stable
  sup,    \* sup[l]: the supervisor thread of l
  la,     \* la[l]: the main thread of l and of its user interface
  short   \* history: starts of sup[l] in a row that did not prove stable

vars == <<proc, sup, la, short>>

Unused == [st |-> "unused", by |-> NoLauncher, stop |-> FALSE, stable |-> FALSE]

\* a worker that somebody else started may be up already
Init ==
  /\ \E found \in {"unused", "up"} :
       proc = [w \in Worker |-> IF w = 1 THEN [Unused EXCEPT !.st = found] ELSE Unused]
  /\ sup = [l \in Launcher |-> [pc |-> "off", child |-> NoWorker, restarts |-> 0,
                                stop |-> FALSE]]
  /\ la = [l \in Launcher |-> [pc |-> "look", own |-> FALSE, ui |-> NoWorker,
                               target |-> NoWorker, ok |-> TRUE]]
  /\ short = [l \in Launcher |-> 0]

(***************************************************************************)
(* Worker processes.                                                       *)
(***************************************************************************)

Alive(w) == proc[w].st \in {"boot", "checked", "up"}

\* healthy_worker: a registered lease of a live process
Healthy(w) == proc[w].st = "up"

NoneHealthy == \A w \in Worker : ~Healthy(w)

Becomes(w, st) == proc' = [proc EXCEPT ![w].st = st]

\* the process and its request column are gone
Ends(w) == proc' = [proc EXCEPT ![w] = [@ EXCEPT !.st = "gone", !.stop = FALSE]]

\* spawn_worker_process: the child has not registered yet
Spawned(w, parent) ==
  /\ proc[w].st = "unused" /\ \A v \in 1 .. w - 1 : proc[v].st # "unused"
  /\ proc' = [proc EXCEPT ![w] = [@ EXCEPT !.st = "boot", !.by = parent]]

\* another_worker_alive
WorkerCheck(w) ==
  /\ proc[w].st = "boot"
  /\ IF NoneHealthy THEN Becomes(w, "checked") ELSE Ends(w)

Register(w) == proc[w].st = "checked" /\ Becomes(w, "up")

WorkerStops(w) == Healthy(w) /\ proc[w].stop /\ Ends(w)

WorkerCrashes(w) == Alive(w) /\ Ends(w)

\* it has run for STABILITY_SECONDS
ProvesStable(w) ==
  /\ Healthy(w) /\ ~proc[w].stable
  /\ proc' = [proc EXCEPT ![w].stable = TRUE]

WorkerStep(w) ==
  /\ WorkerCheck(w) \/ Register(w) \/ WorkerStops(w)
  /\ UNCHANGED <<sup, la, short>>

WorkerEvent(w) ==
  /\ WorkerCrashes(w) \/ ProvesStable(w)
  /\ UNCHANGED <<sup, la, short>>

(***************************************************************************)
(* Supervisor thread: run and _schedule_restart.                           *)
(***************************************************************************)

BugExhausted(restarts) == restarts > MaxRestarts

Exhausted(restarts) == restarts >= MaxRestarts

\* _schedule_restart up to its sleep, with the budget spent so far
Schedules(l, restarts) ==
  sup' = [sup EXCEPT ![l] =
            IF Exhausted(restarts) THEN [@ EXCEPT !.pc = "degraded", !.restarts = restarts]
            ELSE [@ EXCEPT !.pc = "sleep", !.restarts = restarts + 1]]

BugStopDeclared(l) == sup[l].stop \/ ~proc[sup[l].child].stable

\* intent decides, not the exit status
StopDeclared(l) == sup[l].stop

BugHasExited(l) == TRUE

\* wait() has no timeout
HasExited(l) == ~Alive(sup[l].child)

ChildExits(l) ==
  /\ sup[l].pc = "wait" /\ HasExited(l)
  /\ LET stable == proc[sup[l].child].stable IN
       IF StopDeclared(l)
       THEN /\ sup' = [sup EXCEPT ![l].pc = "stopped"]
            /\ UNCHANGED short
       ELSE /\ Schedules(l, IF stable THEN 0 ELSE sup[l].restarts)
            /\ short' = [short EXCEPT ![l] = IF stable THEN 0 ELSE @ + 1]
  /\ UNCHANGED <<proc, la>>

BugWakes(l) ==
  /\ sup[l].pc = "sleep"
  /\ sup' = [sup EXCEPT ![l].pc = "spawn"]
  /\ UNCHANGED <<proc, la, short>>

\* the stop is read again after the sleep
Wakes(l) ==
  /\ sup[l].pc = "sleep"
  /\ sup' = [sup EXCEPT ![l].pc = IF sup[l].stop THEN "stopped" ELSE "spawn"]
  /\ UNCHANGED <<proc, la, short>>

Respawns(l) ==
  /\ sup[l].pc = "spawn"
  /\ \E w \in Worker :
       /\ Spawned(w, l)
       /\ sup' = [sup EXCEPT ![l] = [@ EXCEPT !.pc = "wait", !.child = w]]
  /\ UNCHANGED <<la, short>>

SpawnFails(l) ==
  /\ sup[l].pc = "spawn"
  /\ Schedules(l, sup[l].restarts)
  /\ short' = [short EXCEPT ![l] = @ + 1]
  /\ UNCHANGED <<proc, la>>

(***************************************************************************)
(* Launcher: main(["all"]), with the user interface it waits for.          *)
(***************************************************************************)

At(l, pc) == la[l].pc = pc

Goto(l, pc) == la' = [la EXCEPT ![l].pc = pc]

\* start_worker: nobody's worker is started twice ...
Look(l) ==
  /\ At(l, "look")
  /\ Goto(l, IF NoneHealthy THEN "spawn" ELSE "ui")
  /\ UNCHANGED <<proc, sup, short>>

BugStart(l) ==
  /\ At(l, "spawn")
  /\ \E w \in Worker : Spawned(w, l)
  /\ sup' = [sup EXCEPT ![l].pc = "wait"]
  /\ la' = [la EXCEPT ![l] = [@ EXCEPT !.pc = "ui", !.own = TRUE]]
  /\ UNCHANGED short

\* ... and the one started here is supervised
Start(l) ==
  /\ At(l, "spawn")
  /\ \E w \in Worker :
       /\ Spawned(w, l)
       /\ sup' = [sup EXCEPT ![l] = [@ EXCEPT !.pc = "wait", !.child = w]]
  /\ la' = [la EXCEPT ![l] = [@ EXCEPT !.pc = "ui", !.own = TRUE]]
  /\ UNCHANGED short

\* ensure_worker, called by every request that queues a job
EnsureLook(l) ==
  /\ At(l, "ui") /\ NoneHealthy
  /\ Goto(l, "ensure")
  /\ UNCHANGED <<proc, sup, short>>

EnsureStart(l) ==
  /\ At(l, "ensure")
  /\ \E w \in Worker :
       /\ Spawned(w, NoLauncher)
       /\ la' = [la EXCEPT ![l] = [@ EXCEPT !.pc = "ui", !.ui = w]]
  /\ UNCHANGED <<sup, short>>

\* what the finally clause of main does once the user interface has ended
UiEnded(l) == IF la[l].own THEN "intent" ELSE "exit"

OwnUiWorkerUp(l) == la[l].ui # NoWorker /\ Alive(la[l].ui)

\* shutdown of the user interface stops a worker if its own one is alive; a user
\* interface that is killed does nothing
Close(l) ==
  /\ At(l, "ui")
  /\ \/ Goto(l, UiEnded(l))
     \/ OwnUiWorkerUp(l) /\ Goto(l, "uistop")
  /\ UNCHANGED <<proc, sup, short>>

\* stop_worker: the intent of this process's supervisor, if it has one ...
Intent(l) ==
  /\ At(l, "intent")
  /\ sup' = [sup EXCEPT ![l].stop = TRUE]
  /\ Goto(l, "stop")
  /\ UNCHANGED <<proc, short>>

\* ... a request to the healthy worker, whoever started it, if there is one ...
AskStop(l, from, waiting, next) ==
  /\ At(l, from)
  /\ \/ \E w \in Worker :
          /\ Healthy(w)
          /\ proc' = [proc EXCEPT ![w].stop = TRUE]
          /\ la' = [la EXCEPT ![l] = [@ EXCEPT !.pc = waiting, !.target = w]]
     \/ NoneHealthy /\ Goto(l, next) /\ UNCHANGED proc
  /\ UNCHANGED <<sup, short>>

\* ... and a wait for it to be gone, with a timeout
AwaitStop(l, waiting, next) ==
  /\ At(l, waiting)
  /\ \E gone \in BOOLEAN :
       /\ gone => ~Alive(la[l].target)
       /\ la' = [la EXCEPT ![l] = [@ EXCEPT !.pc = next, !.target = NoWorker, !.ok = gone]]
  /\ UNCHANGED <<proc, sup, short>>

UiStops(l) == AskStop(l, "uistop", "uiwait", UiEnded(l))
UiAwaits(l) == AwaitStop(l, "uiwait", UiEnded(l))
Stops(l) == AskStop(l, "stop", "await", "exit")
Awaits(l) == AwaitStop(l, "await", "exit")

\* the supervisor is a daemon thread; the workers are detached processes
Exit(l) ==
  /\ At(l, "exit")
  /\ la' = [la EXCEPT ![l] = [@ EXCEPT !.pc = "gone", !.ui = NoWorker]]
  /\ sup' = [sup EXCEPT ![l] = [pc |-> "dead", child |-> NoWorker, restarts |-> 0,
                                 stop |-> TRUE]]
  /\ short' = [short EXCEPT ![l] = 0]
  /\ UNCHANGED proc

(***************************************************************************)
(* Specification.                                                          *)
(***************************************************************************)

SupStep(l) == ChildExits(l) \/ Wakes(l) \/ Respawns(l)

LauncherStep(l) ==
  \/ Look(l) \/ Start(l) \/ EnsureStart(l) \/ Intent(l) \/ UiStops(l) \/ UiAwaits(l)
  \/ Stops(l) \/ Awaits(l) \/ Exit(l)

Next ==
  \/ \E w \in Worker : WorkerStep(w) \/ WorkerEvent(w)
  \/ \E l \in Launcher :
       SupStep(l) \/ SpawnFails(l) \/ LauncherStep(l) \/ EnsureLook(l) \/ Close(l)

Spec == Init /\ [][Next]_vars

\* Threads and processes are scheduled; users and crashes owe nothing.
Fairness ==
  /\ \A w \in Worker : WF_vars(WorkerStep(w))
  /\ \A l \in Launcher : WF_vars(SupStep(l)) /\ WF_vars(LauncherStep(l))

FairSpec == Spec /\ Fairness

(***************************************************************************)
(* Properties.                                                             *)
(***************************************************************************)

ProcType ==
  [st : {"unused", "boot", "checked", "up", "gone"}, by : Launcher \union {NoLauncher},
   stop : BOOLEAN, stable : BOOLEAN]

SupType ==
  [pc : {"off", "wait", "sleep", "spawn", "stopped", "degraded", "dead"},
   child : Worker \union {NoWorker}, restarts : Nat, stop : BOOLEAN]

LaType ==
  [pc : {"look", "spawn", "ui", "ensure", "uistop", "uiwait", "intent", "stop", "await",
         "exit", "gone"},
   own : BOOLEAN, ui : Worker \union {NoWorker}, target : Worker \union {NoWorker},
   ok : BOOLEAN]

\* Every variable has its type, and a supervisor waits on a process it was handed.
TypeOK ==
  /\ proc \in [Worker -> ProcType]
  /\ sup \in [Launcher -> SupType]
  /\ \A l \in Launcher : sup[l].pc = "wait" => sup[l].child \in Worker
  /\ la \in [Launcher -> LaType]
  /\ short \in [Launcher -> Nat]

\* "A worker that keeps crashing must stop being respawned": whatever the mix of
\* crashes, failed starts and stable runs, a supervisor never sees more than one
\* start and MaxRestarts restarts in a row that did not prove stable.
BudgetRespected == \A l \in Launcher : short[l] <= MaxRestarts + 1

\* The children of a launcher live one after the other, although nothing but the
\* handle it waits on tells it so.
OneChild ==
  \A w, v \in Worker :
    /\ Alive(w) /\ Alive(v)
    /\ proc[w].by = proc[v].by /\ proc[w].by # NoLauncher
    => w = v

\* request_stop declares the next exit intentional: a supervisor that was not in
\* the middle of a restart when it was called never comes to one again.
IntentRespected ==
  [][\A l \in Launcher :
       sup[l].stop /\ sup[l].pc # "spawn" => sup'[l].pc # "spawn"]_vars

NoneLeft == \A w \in Worker : proc[w].st # "unused"

\* A dead worker is noticed: while its launcher stays, a worker is healthy again,
\* or the budget is spent and the supervisor says so.
Replaced ==
  \A l \in Launcher :
    sup[l].pc = "wait" /\ ~Alive(sup[l].child)
      ~> \/ \E w \in Worker : Healthy(w)
         \/ sup[l].pc = "degraded" \/ ~At(l, "ui") \/ NoneLeft

===============================================================================
