------------------------ MODULE WorkerSupervisor_proofs ------------------------
(***************************************************************************)
(* What WorkerSupervisor guarantees for any number of launchers, worker    *)
(* processes and restarts: its types, the bound on restarts in a row, one  *)
(* child of a launcher at a time, and no restart after a stop.             *)
(*                                                                         *)
(* An update lemma says what one kind of assignment does to sup, la or     *)
(* proc, an effect lemma what an action does, in the same words; the       *)
(* invariants are proved from the effects and never open an EXCEPT.        *)
(***************************************************************************)
EXTENDS WorkerSupervisor, TLAPS

(***************************************************************************)
(* Updates.                                                                *)
(***************************************************************************)

SupPc == {"off", "wait", "sleep", "spawn", "stopped", "degraded", "dead"}

\* The step leaves the supervisor of l in the given state, and the others alone.
SupIs(l, p, c, r, s) ==
  /\ sup' \in [Launcher -> SupType]
  /\ sup'[l].pc = p /\ sup'[l].child = c /\ sup'[l].restarts = r /\ sup'[l].stop = s
  /\ \A k \in Launcher \ {l} : sup'[k] = sup[k]

\* The step leaves the launcher l at p, and the others alone.
LaIs(l, p) ==
  /\ la' \in [Launcher -> LaType]
  /\ la'[l].pc = p
  /\ \A k \in Launcher \ {l} : la'[k] = la[k]

\* A well-typed record given to the supervisor of l.
LEMMA SupUpdate ==
  ASSUME TypeOK, NEW l \in Launcher, NEW c \in SupType, sup' = [sup EXCEPT ![l] = c]
  PROVE  SupIs(l, c.pc, c.child, c.restarts, c.stop)
  BY DEF TypeOK, SupIs

\* A supervisor that only moves on keeps its child, its budget and its request.
LEMMA SupSetPc ==
  ASSUME TypeOK, NEW l \in Launcher, NEW p \in SupPc, sup' = [sup EXCEPT ![l].pc = p]
  PROVE  SupIs(l, p, sup[l].child, sup[l].restarts, sup[l].stop)
<1> DEFINE c == [sup[l] EXCEPT !.pc = p]
<1>1. /\ c \in SupType /\ c.pc = p /\ c.child = sup[l].child
      /\ c.restarts = sup[l].restarts /\ c.stop = sup[l].stop
  BY DEF TypeOK, SupType, SupPc
<1>2. sup' = [sup EXCEPT ![l] = c]
  OBVIOUS
<1> HIDE DEF c
<1>3. SupIs(l, c.pc, c.child, c.restarts, c.stop)
  BY <1>1, <1>2, SupUpdate
<1> QED BY <1>1, <1>3

\* A request_stop changes nothing else of a supervisor.
LEMMA SupSetStop ==
  ASSUME TypeOK, NEW l \in Launcher, sup' = [sup EXCEPT ![l].stop = TRUE]
  PROVE  SupIs(l, sup[l].pc, sup[l].child, sup[l].restarts, TRUE)
<1> DEFINE c == [sup[l] EXCEPT !.stop = TRUE]
<1>1. /\ c \in SupType /\ c.pc = sup[l].pc /\ c.child = sup[l].child
      /\ c.restarts = sup[l].restarts /\ c.stop = TRUE
  BY DEF TypeOK, SupType
<1>2. sup' = [sup EXCEPT ![l] = c]
  OBVIOUS
<1> HIDE DEF c
<1>3. SupIs(l, c.pc, c.child, c.restarts, c.stop)
  BY <1>1, <1>2, SupUpdate
<1> QED BY <1>1, <1>3

\* A supervisor handed a process waits on it, with the budget it had.
LEMMA SupSetChild ==
  ASSUME TypeOK, NEW l \in Launcher, NEW w \in Worker,
         sup' = [sup EXCEPT ![l] = [@ EXCEPT !.pc = "wait", !.child = w]]
  PROVE  SupIs(l, "wait", w, sup[l].restarts, sup[l].stop)
<1> DEFINE c == [sup[l] EXCEPT !.pc = "wait", !.child = w]
<1>1. /\ c \in SupType /\ c.pc = "wait" /\ c.child = w
      /\ c.restarts = sup[l].restarts /\ c.stop = sup[l].stop
  BY DEF TypeOK, SupType
<1>2. sup' = [sup EXCEPT ![l] = c]
  OBVIOUS
<1> HIDE DEF c
<1>3. SupIs(l, c.pc, c.child, c.restarts, c.stop)
  BY <1>1, <1>2, SupUpdate
<1> QED BY <1>1, <1>3

\* A supervisor that moves on with a new budget keeps its child and its request.
LEMMA SupSetBudget ==
  ASSUME TypeOK, NEW l \in Launcher, NEW p \in SupPc, NEW n \in Nat,
         sup' = [sup EXCEPT ![l] = [@ EXCEPT !.pc = p, !.restarts = n]]
  PROVE  SupIs(l, p, sup[l].child, n, sup[l].stop)
<1> DEFINE c == [sup[l] EXCEPT !.pc = p, !.restarts = n]
<1>1. /\ c \in SupType /\ c.pc = p /\ c.child = sup[l].child
      /\ c.restarts = n /\ c.stop = sup[l].stop
  BY DEF TypeOK, SupType, SupPc
<1>2. sup' = [sup EXCEPT ![l] = c]
  OBVIOUS
<1> HIDE DEF c
<1>3. SupIs(l, c.pc, c.child, c.restarts, c.stop)
  BY <1>1, <1>2, SupUpdate
<1> QED BY <1>1, <1>3

\* _schedule_restart ends degraded, or asleep with one more restart spent.
LEMMA SupSchedules ==
  ASSUME TypeOK, NEW l \in Launcher, NEW r \in Nat, Schedules(l, r)
  PROVE  \/ r >= MaxRestarts /\ SupIs(l, "degraded", sup[l].child, r, sup[l].stop)
         \/ ~(r >= MaxRestarts) /\ SupIs(l, "sleep", sup[l].child, r + 1, sup[l].stop)
<1>1. CASE r >= MaxRestarts
  BY <1>1, SupSetBudget DEF Schedules, Exhausted, SupPc
<1>2. CASE ~(r >= MaxRestarts)
  <2>1. PICK n \in Nat : n = r + 1
    OBVIOUS
  <2>2. sup' = [sup EXCEPT ![l] = [@ EXCEPT !.pc = "sleep", !.restarts = n]]
    BY <1>2, <2>1 DEF Schedules, Exhausted
  <2>3. SupIs(l, "sleep", sup[l].child, n, sup[l].stop)
    BY <2>2, SupSetBudget DEF SupPc
  <2> QED BY <1>2, <2>1, <2>3
<1> QED BY <1>1, <1>2

\* A well-typed record given to the launcher l.
LEMMA LaUpdate ==
  ASSUME TypeOK, NEW l \in Launcher, NEW c \in LaType, la' = [la EXCEPT ![l] = c]
  PROVE  LaIs(l, c.pc)
  BY DEF TypeOK, LaIs

\* A launcher that only moves on.
LEMMA LaGoto ==
  ASSUME TypeOK, NEW l \in Launcher, NEW p, Goto(l, p),
         p \in {"ui", "spawn", "ensure", "uistop", "intent", "stop", "exit"}
  PROVE  LaIs(l, p)
<1> DEFINE c == [la[l] EXCEPT !.pc = p]
<1>1. c \in LaType /\ c.pc = p
  BY DEF TypeOK, LaType
<1>2. la' = [la EXCEPT ![l] = c]
  BY DEF Goto
<1> HIDE DEF c
<1> QED BY <1>1, <1>2, LaUpdate

\* The step leaves the process w with the given status and parent, and the others alone.
ProcIs(w, st, by) ==
  /\ proc' \in [Worker -> ProcType]
  /\ proc'[w].st = st /\ proc'[w].by = by
  /\ \A v \in Worker \ {w} : proc'[v] = proc[v]

\* A well-typed record given to the process w.
LEMMA ProcUpdate ==
  ASSUME TypeOK, NEW w \in Worker, NEW c \in ProcType, proc' = [proc EXCEPT ![w] = c]
  PROVE  ProcIs(w, c.st, c.by)
  BY DEF TypeOK, ProcIs

\* A spawned process boots, as a child of who spawned it.
LEMMA ProcSpawned ==
  ASSUME TypeOK, NEW w \in Worker, NEW l \in Launcher \union {NoLauncher}, Spawned(w, l)
  PROVE  ProcIs(w, "boot", l) /\ proc[w].st = "unused"
<1> DEFINE c == [proc[w] EXCEPT !.st = "boot", !.by = l]
<1>1. c \in ProcType /\ c.st = "boot" /\ c.by = l
  BY DEF TypeOK, ProcType
<1>2. proc' = [proc EXCEPT ![w] = c] /\ proc[w].st = "unused"
  BY DEF Spawned
<1> HIDE DEF c
<1>3. ProcIs(w, c.st, c.by)
  BY <1>1, <1>2, ProcUpdate
<1> QED BY <1>1, <1>2, <1>3

\* A worker that checks or registers keeps its parent.
LEMMA ProcBecomes ==
  ASSUME TypeOK, NEW w \in Worker, NEW st \in {"checked", "up"}, Becomes(w, st)
  PROVE  ProcIs(w, st, proc[w].by)
<1> DEFINE c == [proc[w] EXCEPT !.st = st]
<1>1. c \in ProcType /\ c.st = st /\ c.by = proc[w].by
  BY DEF TypeOK, ProcType
<1>2. proc' = [proc EXCEPT ![w] = c]
  BY DEF Becomes
<1> HIDE DEF c
<1>3. ProcIs(w, c.st, c.by)
  BY <1>1, <1>2, ProcUpdate
<1> QED BY <1>1, <1>3

\* A worker that ends keeps its parent.
LEMMA ProcEnds ==
  ASSUME TypeOK, NEW w \in Worker, Ends(w)
  PROVE  ProcIs(w, "gone", proc[w].by)
<1> DEFINE c == [proc[w] EXCEPT !.st = "gone", !.stop = FALSE]
<1>1. c \in ProcType /\ c.st = "gone" /\ c.by = proc[w].by
  BY DEF TypeOK, ProcType
<1>2. proc' = [proc EXCEPT ![w] = c]
  BY DEF Ends
<1> HIDE DEF c
<1>3. ProcIs(w, c.st, c.by)
  BY <1>1, <1>2, ProcUpdate
<1> QED BY <1>1, <1>3

\* A flag of a worker's record is no part of its status or of its parent.
LEMMA FlagTyped ==
  ASSUME NEW r \in ProcType
  PROVE  /\ [r EXCEPT !.stop = TRUE] \in ProcType /\ [r EXCEPT !.stable = TRUE] \in ProcType
         /\ [r EXCEPT !.stop = TRUE].st = r.st /\ [r EXCEPT !.stop = TRUE].by = r.by
         /\ [r EXCEPT !.stable = TRUE].st = r.st /\ [r EXCEPT !.stable = TRUE].by = r.by
<1>1. /\ [r EXCEPT !.stop = TRUE] \in ProcType
      /\ [r EXCEPT !.stop = TRUE].st = r.st /\ [r EXCEPT !.stop = TRUE].by = r.by
  BY DEF ProcType
<1>2. /\ [r EXCEPT !.stable = TRUE] \in ProcType
      /\ [r EXCEPT !.stable = TRUE].st = r.st /\ [r EXCEPT !.stable = TRUE].by = r.by
  BY DEF ProcType
<1> QED BY <1>1, <1>2

\* A flag set on a worker changes neither its status nor its parent.
LEMMA ProcFlag ==
  ASSUME TypeOK, NEW w \in Worker,
         \/ proc' = [proc EXCEPT ![w].stop = TRUE]
         \/ proc' = [proc EXCEPT ![w].stable = TRUE]
  PROVE  ProcIs(w, proc[w].st, proc[w].by)
<1>0. proc[w] \in ProcType
  BY DEF TypeOK
<1>1. ASSUME proc' = [proc EXCEPT ![w].stop = TRUE]
      PROVE  ProcIs(w, proc[w].st, proc[w].by)
  <2> DEFINE c == [proc[w] EXCEPT !.stop = TRUE]
  <2>1. c \in ProcType /\ c.st = proc[w].st /\ c.by = proc[w].by
    BY <1>0, FlagTyped
  <2>2. proc' = [proc EXCEPT ![w] = c]
    BY <1>1
  <2> HIDE DEF c
  <2>3. ProcIs(w, c.st, c.by)
    BY <2>1, <2>2, ProcUpdate
  <2> QED BY <2>1, <2>3
<1>2. ASSUME proc' = [proc EXCEPT ![w].stable = TRUE]
      PROVE  ProcIs(w, proc[w].st, proc[w].by)
  <2> DEFINE c == [proc[w] EXCEPT !.stable = TRUE]
  <2>1. c \in ProcType /\ c.st = proc[w].st /\ c.by = proc[w].by
    BY <1>0, FlagTyped
  <2>2. proc' = [proc EXCEPT ![w] = c]
    BY <1>2
  <2> HIDE DEF c
  <2>3. ProcIs(w, c.st, c.by)
    BY <2>1, <2>2, ProcUpdate
  <2> QED BY <2>1, <2>3
<1> QED BY <1>1, <1>2

(***************************************************************************)
(* Effects.                                                                *)
(***************************************************************************)

\* A worker's own step touches it only, and makes no ended process live.
LEMMA WorkerEffect ==
  ASSUME TypeOK, NEW w \in Worker, WorkerStep(w) \/ WorkerEvent(w)
  PROVE  /\ UNCHANGED <<sup, la, short>>
         /\ ProcIs(w, proc'[w].st, proc[w].by)
         /\ Alive(w) \/ proc'[w].st = "gone"
<1>1. UNCHANGED <<sup, la, short>>
  BY DEF WorkerStep, WorkerEvent
<1>2. CASE WorkerCheck(w)
  BY <1>1, <1>2, ProcBecomes, ProcEnds DEF WorkerCheck, Alive, ProcIs
<1>3. CASE Register(w)
  BY <1>1, <1>3, ProcBecomes DEF Register, Alive, ProcIs
<1>4. CASE WorkerStops(w) \/ WorkerCrashes(w)
  BY <1>1, <1>4, ProcEnds DEF WorkerStops, WorkerCrashes, ProcIs
<1>5. CASE ProvesStable(w)
  BY <1>1, <1>5, ProcFlag DEF ProvesStable, Healthy, Alive, ProcIs
<1> QED BY <1>1, <1>2, <1>3, <1>4, <1>5 DEF WorkerStep, WorkerEvent

\* A supervisor that sees its child's exit stops, or schedules a restart from the budget
\* the child has earned or left.
LEMMA ExitEffect ==
  ASSUME TypeOK, NEW l \in Launcher, ChildExits(l)
  PROVE  /\ UNCHANGED <<proc, la>> /\ sup[l].pc = "wait" /\ ~Alive(sup[l].child)
         /\ \/ /\ SupIs(l, "stopped", sup[l].child, sup[l].restarts, sup[l].stop)
               /\ UNCHANGED short
            \/ Schedules(l, 0) /\ short' = [short EXCEPT ![l] = 0]
            \/ Schedules(l, sup[l].restarts) /\ short' = [short EXCEPT ![l] = short[l] + 1]
<1>1. UNCHANGED <<proc, la>> /\ sup[l].pc = "wait" /\ ~Alive(sup[l].child)
  BY DEF ChildExits, HasExited
<1>2. sup[l].restarts \in Nat /\ short[l] + 1 \in Nat
  BY DEF TypeOK, SupType
<1>3. CASE StopDeclared(l)
  <2>1. sup' = [sup EXCEPT ![l].pc = "stopped"] /\ UNCHANGED short
    BY <1>3 DEF ChildExits
  <2> QED BY <1>1, <2>1, SupSetPc DEF SupPc
<1>4. CASE ~StopDeclared(l) /\ proc[sup[l].child].stable
  <2>1. Schedules(l, 0) /\ short' = [short EXCEPT ![l] = 0]
    BY <1>4 DEF ChildExits
  <2> QED BY <1>1, <2>1
<1>5. CASE ~StopDeclared(l) /\ ~proc[sup[l].child].stable
  <2>1. Schedules(l, sup[l].restarts) /\ short' = [short EXCEPT ![l] = short[l] + 1]
    BY <1>5 DEF ChildExits
  <2> QED BY <1>1, <1>2, <2>1
<1> QED BY <1>3, <1>4, <1>5

\* A supervisor that wakes spawns only if no stop was requested.
LEMMA WakeEffect ==
  ASSUME TypeOK, NEW l \in Launcher, Wakes(l)
  PROVE  /\ UNCHANGED <<proc, la, short>> /\ sup[l].pc = "sleep"
         /\ \E p \in {"stopped", "spawn"} :
              /\ p = "spawn" => ~sup[l].stop
              /\ SupIs(l, p, sup[l].child, sup[l].restarts, sup[l].stop)
<1>1. UNCHANGED <<proc, la, short>> /\ sup[l].pc = "sleep"
  BY DEF Wakes
<1>2. CASE sup[l].stop
  <2>1. sup' = [sup EXCEPT ![l].pc = "stopped"]
    BY <1>2 DEF Wakes
  <2> QED BY <1>1, <2>1, SupSetPc DEF SupPc
<1>3. CASE ~sup[l].stop
  <2>1. sup' = [sup EXCEPT ![l].pc = "spawn"]
    BY <1>3 DEF Wakes
  <2> QED BY <1>1, <1>3, <2>1, SupSetPc DEF SupPc
<1> QED BY <1>2, <1>3

\* A restart hands the supervisor a new child of its launcher.
LEMMA RespawnEffect ==
  ASSUME TypeOK, NEW l \in Launcher, Respawns(l)
  PROVE  /\ UNCHANGED <<la, short>> /\ sup[l].pc = "spawn"
         /\ \E w \in Worker :
              /\ ProcIs(w, "boot", l)
              /\ SupIs(l, "wait", w, sup[l].restarts, sup[l].stop)
  BY ProcSpawned, SupSetChild DEF Respawns

\* A launcher's start hands its supervisor a new child of the launcher.
LEMMA StartEffect ==
  ASSUME TypeOK, NEW l \in Launcher, Start(l)
  PROVE  /\ UNCHANGED short /\ At(l, "spawn") /\ LaIs(l, "ui")
         /\ \E w \in Worker :
              /\ ProcIs(w, "boot", l)
              /\ SupIs(l, "wait", w, sup[l].restarts, sup[l].stop)
<1> DEFINE c == [la[l] EXCEPT !.pc = "ui", !.own = TRUE]
<1>1. c \in LaType /\ c.pc = "ui"
  BY DEF TypeOK, LaType
<1>2. la' = [la EXCEPT ![l] = c]
  BY DEF Start
<1> HIDE DEF c
<1>3. LaIs(l, "ui")
  BY <1>1, <1>2, LaUpdate
<1> QED BY <1>3, ProcSpawned, SupSetChild DEF Start

\* The user interface starts a process that is nobody's child.
LEMMA EnsureStartEffect ==
  ASSUME TypeOK, NEW l \in Launcher, EnsureStart(l)
  PROVE  /\ UNCHANGED <<sup, short>> /\ LaIs(l, "ui")
         /\ \E w \in Worker : ProcIs(w, "boot", NoLauncher)
<1>1. PICK w \in Worker :
        Spawned(w, NoLauncher) /\ la' = [la EXCEPT ![l] = [@ EXCEPT !.pc = "ui", !.ui = w]]
  BY DEF EnsureStart
<1> DEFINE c == [la[l] EXCEPT !.pc = "ui", !.ui = w]
<1>2. c \in LaType /\ c.pc = "ui"
  BY DEF TypeOK, LaType
<1>3. la' = [la EXCEPT ![l] = c]
  BY <1>1
<1> HIDE DEF c
<1>4. LaIs(l, "ui")
  BY <1>2, <1>3, LaUpdate
<1> QED BY <1>1, <1>4, ProcSpawned DEF EnsureStart

\* A stop request is a flag on one worker at most.
LEMMA AskEffect ==
  ASSUME TypeOK, NEW l \in Launcher, UiStops(l) \/ Stops(l)
  PROVE  /\ UNCHANGED <<sup, short>>
         /\ \E p \in {"uiwait", "intent", "await", "exit"} : LaIs(l, p)
         /\ \/ UNCHANGED proc
            \/ \E w \in Worker : ProcIs(w, proc[w].st, proc[w].by)
<1>1. ASSUME NEW f \in {"uistop", "stop"}, NEW p \in {"uiwait", "await"},
             NEW q \in {"intent", "exit"}, AskStop(l, f, p, q)
      PROVE  /\ UNCHANGED <<sup, short>>
             /\ LaIs(l, p) \/ LaIs(l, q)
             /\ \/ UNCHANGED proc
                \/ \E w \in Worker : ProcIs(w, proc[w].st, proc[w].by)
  <2>1. CASE NoneHealthy /\ Goto(l, q) /\ UNCHANGED proc
    BY <1>1, <2>1, LaGoto DEF AskStop
  <2>2. ASSUME NEW w \in Worker, proc' = [proc EXCEPT ![w].stop = TRUE],
               la' = [la EXCEPT ![l] = [@ EXCEPT !.pc = p, !.target = w]]
        PROVE  LaIs(l, p) /\ ProcIs(w, proc[w].st, proc[w].by)
    <3> DEFINE c == [la[l] EXCEPT !.pc = p, !.target = w]
    <3>1. c \in LaType /\ c.pc = p
      BY DEF TypeOK, LaType
    <3>2. la' = [la EXCEPT ![l] = c]
      BY <2>2
    <3> HIDE DEF c
    <3>3. LaIs(l, p)
      BY <3>1, <3>2, LaUpdate
    <3> QED BY <2>2, <3>3, ProcFlag
  <2> QED BY <1>1, <2>1, <2>2 DEF AskStop
<1>2. UiEnded(l) \in {"intent", "exit"}
  BY DEF UiEnded
<1>3. CASE UiStops(l)
  BY <1>1, <1>2, <1>3 DEF UiStops
<1>4. CASE Stops(l)
  BY <1>1, <1>4 DEF Stops
<1> QED BY <1>3, <1>4

\* A wait for a worker to be gone moves its launcher only.
LEMMA AwaitEffect ==
  ASSUME TypeOK, NEW l \in Launcher, UiAwaits(l) \/ Awaits(l)
  PROVE  /\ UNCHANGED <<proc, sup, short>>
         /\ \E p \in {"intent", "exit"} : LaIs(l, p)
<1>1. ASSUME NEW f \in {"uiwait", "await"}, NEW p \in {"intent", "exit"},
             AwaitStop(l, f, p)
      PROVE  UNCHANGED <<proc, sup, short>> /\ LaIs(l, p)
  <2>1. PICK gone \in BOOLEAN :
          la' = [la EXCEPT ![l] =
                   [@ EXCEPT !.pc = p, !.target = NoWorker, !.ok = gone]]
    BY <1>1 DEF AwaitStop
  <2> DEFINE c == [la[l] EXCEPT !.pc = p, !.target = NoWorker, !.ok = gone]
  <2>2. c \in LaType /\ c.pc = p
    BY DEF TypeOK, LaType
  <2>3. la' = [la EXCEPT ![l] = c]
    BY <2>1
  <2> HIDE DEF c
  <2> QED BY <1>1, <2>2, <2>3, LaUpdate DEF AwaitStop
<1>2. UiEnded(l) \in {"intent", "exit"}
  BY DEF UiEnded
<1>3. CASE UiAwaits(l)
  BY <1>1, <1>2, <1>3 DEF UiAwaits
<1>4. CASE Awaits(l)
  BY <1>1, <1>4 DEF Awaits
<1> QED BY <1>3, <1>4

\* Looking for a worker and closing move the launcher only.
LEMMA GoesEffect ==
  ASSUME TypeOK, NEW l \in Launcher, Look(l) \/ EnsureLook(l) \/ Close(l)
  PROVE  /\ UNCHANGED <<proc, sup, short>>
         /\ \E p \in {"spawn", "ui", "ensure", "uistop", "intent", "exit"} :
              LaIs(l, p) /\ (p = "spawn" => At(l, "look"))
<1>1. UiEnded(l) \in {"intent", "exit"}
  BY DEF UiEnded
<1>2. CASE Look(l)
  BY <1>2, LaGoto DEF Look
<1>3. CASE EnsureLook(l)
  BY <1>3, LaGoto DEF EnsureLook
<1>4. CASE Close(l)
  BY <1>1, <1>4, LaGoto DEF Close
<1> QED BY <1>2, <1>3, <1>4

\* The intent to stop changes nothing else of the supervisor.
LEMMA IntentEffect ==
  ASSUME TypeOK, NEW l \in Launcher, Intent(l)
  PROVE  /\ UNCHANGED <<proc, short>> /\ LaIs(l, "stop")
         /\ SupIs(l, sup[l].pc, sup[l].child, sup[l].restarts, TRUE)
  BY LaGoto, SupSetStop DEF Intent

\* The end of a launcher is the end of its supervisor, and of no worker.
LEMMA EndEffect ==
  ASSUME TypeOK, NEW l \in Launcher, Exit(l)
  PROVE  /\ UNCHANGED proc /\ short' = [short EXCEPT ![l] = 0] /\ LaIs(l, "gone")
         /\ SupIs(l, "dead", NoWorker, 0, TRUE)
<1>1. UNCHANGED proc /\ short' = [short EXCEPT ![l] = 0]
  BY DEF Exit
<1>2. LaIs(l, "gone")
  <2> DEFINE c == [la[l] EXCEPT !.pc = "gone", !.ui = NoWorker]
  <2>1. c \in LaType /\ c.pc = "gone"
    BY DEF TypeOK, LaType
  <2>2. la' = [la EXCEPT ![l] = c]
    BY DEF Exit
  <2> HIDE DEF c
  <2> QED BY <2>1, <2>2, LaUpdate
<1>3. SupIs(l, "dead", NoWorker, 0, TRUE)
  <2> DEFINE c == [pc |-> "dead", child |-> NoWorker, restarts |-> 0, stop |-> TRUE]
  <2>1. /\ c \in SupType /\ c.pc = "dead" /\ c.child = NoWorker
        /\ c.restarts = 0 /\ c.stop = TRUE
    BY DEF SupType
  <2>2. sup' = [sup EXCEPT ![l] = c]
    BY DEF Exit
  <2> HIDE DEF c
  <2>3. SupIs(l, c.pc, c.child, c.restarts, c.stop)
    BY <2>1, <2>2, SupUpdate
  <2> QED BY <2>1, <2>3
<1> QED BY <1>1, <1>2, <1>3

(***************************************************************************)
(* Types.                                                                  *)
(***************************************************************************)

\* The initial state has its type.
LEMMA InitType == Init => TypeOK
<1> SUFFICES ASSUME Init PROVE TypeOK
  OBVIOUS
<1>1. PICK found \in {"unused", "up"} :
        proc = [w \in Worker |-> IF w = 1 THEN [Unused EXCEPT !.st = found] ELSE Unused]
  BY DEF Init
<1> DEFINE c == [Unused EXCEPT !.st = found]
<1>2. c \in ProcType /\ Unused \in ProcType
  BY DEF Unused, ProcType
<1>3. proc = [w \in Worker |-> IF w = 1 THEN c ELSE Unused]
  BY <1>1
<1> HIDE DEF c
<1>4. proc \in [Worker -> ProcType]
  BY <1>2, <1>3
<1>5. sup \in [Launcher -> SupType] /\ \A l \in Launcher : sup[l].pc = "off"
  BY DEF Init, SupType, NoWorker
<1>6. la \in [Launcher -> LaType]
  BY DEF Init, LaType, NoWorker
<1>7. short \in [Launcher -> Nat]
  BY DEF Init
<1> QED BY <1>4, <1>5, <1>6, <1>7 DEF TypeOK

\* A worker's own step keeps the types.
LEMMA WorkerType ==
  ASSUME TypeOK, NEW w \in Worker, WorkerStep(w) \/ WorkerEvent(w)
  PROVE  TypeOK'
  BY WorkerEffect DEF TypeOK, ProcIs

\* A supervisor's step keeps the types.
LEMMA SupervisorType ==
  ASSUME TypeOK, NEW l \in Launcher, SupStep(l) \/ SpawnFails(l)
  PROVE  TypeOK'
<1>1. ASSUME NEW p, NEW c, NEW r, NEW s, SupIs(l, p, c, r, s), p = "wait" => c \in Worker
      PROVE  /\ sup' \in [Launcher -> SupType]
             /\ \A k \in Launcher : sup'[k].pc = "wait" => sup'[k].child \in Worker
  BY <1>1 DEF TypeOK, SupIs
<1>2. sup[l].restarts \in Nat /\ short[l] + 1 \in Nat
  BY DEF TypeOK, SupType
<1>3. CASE ChildExits(l)
  <2>1. UNCHANGED <<proc, la>> /\ short' \in [Launcher -> Nat]
    BY <1>2, <1>3, ExitEffect DEF TypeOK
  <2>2. \E p \in {"stopped", "degraded", "sleep"} : \E r, s : SupIs(l, p, sup[l].child, r, s)
    BY <1>2, <1>3, ExitEffect, SupSchedules
  <2> QED BY <1>1, <2>1, <2>2 DEF TypeOK
<1>4. CASE Wakes(l)
  BY <1>1, <1>4, WakeEffect DEF TypeOK
<1>5. CASE Respawns(l)
  BY <1>1, <1>5, RespawnEffect DEF TypeOK, ProcIs
<1>6. CASE SpawnFails(l)
  <2>1. UNCHANGED <<proc, la>> /\ short' \in [Launcher -> Nat]
    BY <1>2, <1>6 DEF TypeOK, SpawnFails
  <2>2. \E p \in {"degraded", "sleep"} : \E r, s : SupIs(l, p, sup[l].child, r, s)
    BY <1>2, <1>6, SupSchedules DEF SpawnFails
  <2> QED BY <1>1, <2>1, <2>2 DEF TypeOK
<1> QED BY <1>3, <1>4, <1>5, <1>6 DEF SupStep

\* A step of a launcher or of its user interface keeps the types.
LEMMA LauncherType ==
  ASSUME TypeOK, NEW l \in Launcher, LauncherStep(l) \/ EnsureLook(l) \/ Close(l)
  PROVE  TypeOK'
<1>1. CASE Look(l) \/ EnsureLook(l) \/ Close(l)
  BY <1>1, GoesEffect DEF TypeOK, LaIs
<1>2. CASE Start(l)
  BY <1>2, StartEffect DEF TypeOK, LaIs, ProcIs, SupIs
<1>3. CASE EnsureStart(l)
  BY <1>3, EnsureStartEffect DEF TypeOK, LaIs, ProcIs
<1>4. CASE UiStops(l) \/ Stops(l)
  BY <1>4, AskEffect DEF TypeOK, LaIs, ProcIs
<1>5. CASE UiAwaits(l) \/ Awaits(l)
  BY <1>5, AwaitEffect DEF TypeOK, LaIs
<1>6. CASE Intent(l)
  BY <1>6, IntentEffect DEF TypeOK, LaIs, SupIs
<1>7. CASE Exit(l)
  <2>1. UNCHANGED proc /\ la' \in [Launcher -> LaType]
    BY <1>7, EndEffect DEF LaIs
  <2>2. short' \in [Launcher -> Nat]
    BY <1>7 DEF TypeOK, Exit
  <2>3. /\ sup' \in [Launcher -> SupType]
        /\ \A k \in Launcher : sup'[k].pc = "wait" => sup'[k].child \in Worker
    BY <1>7, EndEffect DEF TypeOK, SupIs
  <2> QED BY <2>1, <2>2, <2>3 DEF TypeOK
<1> QED BY <1>1, <1>2, <1>3, <1>4, <1>5, <1>6, <1>7 DEF LauncherStep

\* The type invariant holds in every reachable state.
THEOREM SupervisorTypeCorrect == Spec => []TypeOK
<1>1. TypeOK /\ [Next]_vars => TypeOK'
  <2> SUFFICES ASSUME TypeOK, [Next]_vars PROVE TypeOK'
    OBVIOUS
  <2>1. CASE UNCHANGED vars
    BY <2>1 DEF TypeOK, vars
  <2>2. CASE Next
    BY <2>2, WorkerType, SupervisorType, LauncherType DEF Next
  <2> QED BY <2>1, <2>2
<1> QED BY <1>1, InitType, PTL DEF Spec

(***************************************************************************)
(* The supervisor begins after its launcher has started a worker.          *)
(***************************************************************************)

\* Before a launcher starts a worker its supervisor does not exist.
Fresh(l) == At(l, "look") \/ At(l, "spawn") => sup[l].pc = "off"

\* Every step keeps Fresh, of every launcher.
LEMMA FreshStep ==
  ASSUME TypeOK, [Next]_vars, \A l \in Launcher : Fresh(l)
  PROVE  \A l \in Launcher : Fresh(l)'
<1>1. CASE UNCHANGED vars
  BY <1>1 DEF Fresh, At, vars
<1>2. ASSUME NEW w \in Worker, WorkerStep(w) \/ WorkerEvent(w)
      PROVE  \A k \in Launcher : Fresh(k)'
  BY <1>2, WorkerEffect DEF Fresh, At
<1>3. ASSUME NEW l \in Launcher, SupStep(l) \/ SpawnFails(l)
      PROVE  \A k \in Launcher : Fresh(k)'
  <2>1. UNCHANGED la /\ sup[l].pc # "off"
    BY <1>3 DEF SupStep, ChildExits, Wakes, Respawns, SpawnFails
  <2>2. \A k \in Launcher \ {l} : sup'[k] = sup[k]
    BY <1>3 DEF TypeOK, SupStep, ChildExits, Wakes, Respawns, SpawnFails, Schedules
  <2> QED BY <2>1, <2>2 DEF Fresh, At
<1>4. ASSUME NEW l \in Launcher, LauncherStep(l) \/ EnsureLook(l) \/ Close(l)
      PROVE  \A k \in Launcher : Fresh(k)'
  <2>1. CASE Look(l) \/ EnsureLook(l) \/ Close(l)
    BY <2>1, GoesEffect DEF Fresh, At, LaIs
  <2>2. CASE Start(l)
    BY <2>2, StartEffect DEF Fresh, At, LaIs, SupIs
  <2>3. CASE EnsureStart(l)
    BY <2>3, EnsureStartEffect DEF Fresh, At, LaIs
  <2>4. CASE UiStops(l) \/ Stops(l)
    BY <2>4, AskEffect DEF Fresh, At, LaIs
  <2>5. CASE UiAwaits(l) \/ Awaits(l)
    BY <2>5, AwaitEffect DEF Fresh, At, LaIs
  <2>6. CASE Intent(l)
    BY <2>6, IntentEffect DEF Fresh, At, LaIs, SupIs
  <2>7. CASE Exit(l)
    BY <2>7, EndEffect DEF Fresh, At, LaIs, SupIs
  <2> QED BY <1>4, <2>1, <2>2, <2>3, <2>4, <2>5, <2>6, <2>7 DEF LauncherStep
<1> QED BY <1>1, <1>2, <1>3, <1>4 DEF Next

(***************************************************************************)
(* The restart budget.                                                     *)
(***************************************************************************)

\* The failures in a row are paid from the budget, and the one that finds it empty
\* is the last.
BudgetOf(l) ==
  \/ short[l] <= sup[l].restarts /\ sup[l].restarts <= MaxRestarts
  \/ sup[l].pc \in {"degraded", "dead"} /\ short[l] <= MaxRestarts + 1

BudgetInv == \A l \in Launcher : Fresh(l) /\ BudgetOf(l)

\* Another launcher's step does not change what a launcher has spent.
LEMMA BudgetElsewhere ==
  ASSUME BudgetInv, NEW l \in Launcher, \A k \in Launcher \ {l} : sup'[k] = sup[k],
         \A k \in Launcher \ {l} : short'[k] = short[k], BudgetOf(l)'
  PROVE  \A k \in Launcher : BudgetOf(k)'
<1> SUFFICES ASSUME NEW k \in Launcher PROVE BudgetOf(k)'
  OBVIOUS
<1>1. CASE k = l
  BY <1>1
<1>2. CASE k # l
  BY <1>2 DEF BudgetInv, BudgetOf
<1> QED BY <1>1, <1>2

\* A failed start or a short run is paid from the budget, which is never overdrawn.
LEMMA BudgetPaid ==
  ASSUME TypeOK, BudgetInv, NEW l \in Launcher, NEW r \in Nat, NEW n \in Nat,
         Schedules(l, r), short' = [short EXCEPT ![l] = n], n <= r + 1, r <= MaxRestarts
  PROVE  \A k \in Launcher : BudgetOf(k)'
<1> USE SupervisorAssumption
<1>1. short'[l] = n /\ \A k \in Launcher \ {l} : short'[k] = short[k]
  BY DEF TypeOK
<1>2. CASE r >= MaxRestarts /\ SupIs(l, "degraded", sup[l].child, r, sup[l].stop)
  BY <1>1, <1>2, BudgetElsewhere DEF BudgetOf, SupIs
<1>3. CASE ~(r >= MaxRestarts) /\ SupIs(l, "sleep", sup[l].child, r + 1, sup[l].stop)
  BY <1>1, <1>3, BudgetElsewhere DEF BudgetOf, SupIs
<1> QED BY <1>2, <1>3, SupSchedules

\* A supervisor's step keeps every launcher within its budget.
LEMMA SupervisorBudget ==
  ASSUME TypeOK, BudgetInv, NEW l \in Launcher, SupStep(l) \/ SpawnFails(l)
  PROVE  \A k \in Launcher : BudgetOf(k)'
<1> USE SupervisorAssumption
<1>1. sup[l].restarts \in Nat /\ short[l] \in Nat
  BY DEF TypeOK, SupType
<1>2. ASSUME sup[l].pc \notin {"degraded", "dead"}
      PROVE  short[l] <= sup[l].restarts /\ sup[l].restarts <= MaxRestarts
  BY <1>2 DEF BudgetInv, BudgetOf
<1>3. ASSUME NEW p, NEW c, SupIs(l, p, c, sup[l].restarts, sup[l].stop), UNCHANGED short,
             sup[l].pc \notin {"degraded", "dead"}
      PROVE  \A k \in Launcher : BudgetOf(k)'
  BY <1>2, <1>3, BudgetElsewhere DEF BudgetOf, SupIs
<1>4. CASE ChildExits(l)
  <2>1. sup[l].pc = "wait"
    BY <1>4, ExitEffect
  <2>2. CASE SupIs(l, "stopped", sup[l].child, sup[l].restarts, sup[l].stop)
             /\ UNCHANGED short
    BY <1>3, <2>1, <2>2
  <2>3. CASE Schedules(l, 0) /\ short' = [short EXCEPT ![l] = 0]
    <3>1. PICK z \in Nat : z = 0
      OBVIOUS
    <3>2. Schedules(l, z) /\ short' = [short EXCEPT ![l] = z]
      BY <2>3, <3>1
    <3>3. z <= z + 1 /\ z <= MaxRestarts
      BY <3>1
    <3> QED BY <3>2, <3>3, BudgetPaid
  <2>4. CASE Schedules(l, sup[l].restarts) /\ short' = [short EXCEPT ![l] = short[l] + 1]
    <3>1. PICK r \in Nat, n \in Nat : r = sup[l].restarts /\ n = short[l] + 1
      BY <1>1
    <3>2. Schedules(l, r) /\ short' = [short EXCEPT ![l] = n]
      BY <2>4, <3>1
    <3>3. n <= r + 1 /\ r <= MaxRestarts
      BY <1>1, <1>2, <2>1, <3>1
    <3> QED BY <3>2, <3>3, BudgetPaid
  <2> QED BY <1>4, <2>2, <2>3, <2>4, ExitEffect
<1>5. CASE Wakes(l)
  BY <1>3, <1>5, WakeEffect
<1>6. CASE Respawns(l)
  BY <1>3, <1>6, RespawnEffect
<1>7. CASE SpawnFails(l)
  <2>1. /\ sup[l].pc = "spawn" /\ Schedules(l, sup[l].restarts)
        /\ short' = [short EXCEPT ![l] = short[l] + 1]
    BY <1>7 DEF SpawnFails
  <2>2. PICK r \in Nat, n \in Nat : r = sup[l].restarts /\ n = short[l] + 1
    BY <1>1
  <2>3. Schedules(l, r) /\ short' = [short EXCEPT ![l] = n]
    BY <2>1, <2>2
  <2>4. n <= r + 1 /\ r <= MaxRestarts
    BY <1>1, <1>2, <2>1, <2>2
  <2> QED BY <2>3, <2>4, BudgetPaid
<1> QED BY <1>4, <1>5, <1>6, <1>7 DEF SupStep

\* A step of a launcher spends nothing.
LEMMA LauncherBudget ==
  ASSUME TypeOK, BudgetInv, NEW l \in Launcher, LauncherStep(l) \/ EnsureLook(l) \/ Close(l)
  PROVE  \A k \in Launcher : BudgetOf(k)'
<1> USE SupervisorAssumption
<1>1. CASE Look(l) \/ EnsureLook(l) \/ Close(l)
  BY <1>1, GoesEffect DEF BudgetInv, BudgetOf
<1>2. CASE Start(l)
  <2>1. sup[l].pc = "off" /\ UNCHANGED short
    BY <1>2, StartEffect DEF BudgetInv, Fresh
  <2>2. /\ sup'[l].restarts = sup[l].restarts
        /\ \A k \in Launcher \ {l} : sup'[k] = sup[k]
    BY <1>2, StartEffect DEF SupIs
  <2> QED BY <2>1, <2>2, BudgetElsewhere DEF BudgetInv, BudgetOf
<1>3. CASE EnsureStart(l)
  BY <1>3, EnsureStartEffect DEF BudgetInv, BudgetOf
<1>4. CASE UiStops(l) \/ Stops(l)
  BY <1>4, AskEffect DEF BudgetInv, BudgetOf
<1>5. CASE UiAwaits(l) \/ Awaits(l)
  BY <1>5, AwaitEffect DEF BudgetInv, BudgetOf
<1>6. CASE Intent(l)
  BY <1>6, IntentEffect, BudgetElsewhere DEF BudgetInv, BudgetOf, SupIs
<1>7. CASE Exit(l)
  <2>1. short'[l] = 0 /\ \A k \in Launcher \ {l} : short'[k] = short[k]
    BY <1>7, EndEffect DEF TypeOK
  <2>2. sup'[l].pc = "dead" /\ \A k \in Launcher \ {l} : sup'[k] = sup[k]
    BY <1>7, EndEffect DEF SupIs
  <2>3. BudgetOf(l)'
    BY <2>1, <2>2 DEF BudgetOf
  <2> QED BY <2>1, <2>2, <2>3, BudgetElsewhere
<1> QED BY <1>1, <1>2, <1>3, <1>4, <1>5, <1>6, <1>7 DEF LauncherStep

\* A supervisor never sees more than one start and MaxRestarts restarts in a row
\* that did not prove stable: "A worker that keeps crashing must stop being respawned".
THEOREM RestartsAreBounded == Spec => []BudgetRespected
<1>1. Init => BudgetInv
  BY SupervisorAssumption DEF Init, BudgetInv, Fresh, BudgetOf, At
<1>2. TypeOK /\ BudgetInv /\ [Next]_vars => BudgetInv'
  <2> SUFFICES ASSUME TypeOK, BudgetInv, [Next]_vars PROVE BudgetInv'
    OBVIOUS
  <2>1. \A l \in Launcher : Fresh(l)'
    BY FreshStep DEF BudgetInv
  <2>2. CASE UNCHANGED vars
    BY <2>1, <2>2 DEF BudgetInv, BudgetOf, vars
  <2>3. ASSUME NEW w \in Worker, WorkerStep(w) \/ WorkerEvent(w) PROVE BudgetInv'
    BY <2>1, <2>3, WorkerEffect DEF BudgetInv, BudgetOf
  <2> QED BY <2>1, <2>2, <2>3, SupervisorBudget, LauncherBudget DEF Next, BudgetInv
<1>3. TypeOK /\ BudgetInv => BudgetRespected
  <2> SUFFICES ASSUME TypeOK, BudgetInv, NEW l \in Launcher PROVE short[l] <= MaxRestarts + 1
    BY DEF BudgetRespected
  <2>1. short[l] \in Nat /\ sup[l].restarts \in Nat
    BY DEF TypeOK, SupType
  <2> QED BY <2>1, SupervisorAssumption DEF BudgetInv, BudgetOf
<1> QED BY <1>1, <1>2, <1>3, SupervisorTypeCorrect, PTL DEF Spec

(***************************************************************************)
(* One child at a time.                                                    *)
(***************************************************************************)

\* A live child of a launcher is the one its supervisor waits on, or the supervisor
\* has died with its process.
ChildOf(w, l) ==
  Alive(w) /\ proc[w].by = l
    => \/ sup[l].pc = "dead"
       \/ sup[l].pc = "wait" /\ sup[l].child = w

ChildInv == OneChild /\ \A l \in Launcher : Fresh(l) /\ \A w \in Worker : ChildOf(w, l)

\* A step that makes no process live and loses sight of none keeps the children of
\* every launcher in sight.
LEMMA NoNewChild ==
  ASSUME ChildInv, \A l \in Launcher : Fresh(l)',
         \A w \in Worker : Alive(w)' => Alive(w) /\ proc'[w].by = proc[w].by,
         \A l \in Launcher :
           \/ sup'[l].pc = "dead"
           \/ sup'[l].pc = sup[l].pc /\ sup'[l].child = sup[l].child
           \/ sup[l].pc \notin {"wait", "dead"}
           \/ sup[l].pc = "wait" /\ ~Alive(sup[l].child)
  PROVE  ChildInv'
<1>1. OneChild'
  <2> SUFFICES ASSUME NEW w \in Worker, NEW v \in Worker, Alive(w)', Alive(v)',
                      proc'[w].by = proc'[v].by, proc'[w].by # NoLauncher
               PROVE  w = v
    BY DEF OneChild
  <2> QED BY DEF ChildInv, OneChild
<1>2. ASSUME NEW l \in Launcher, NEW w \in Worker PROVE ChildOf(w, l)'
  <2> SUFFICES ASSUME Alive(w)', proc'[w].by = l
               PROVE  \/ sup'[l].pc = "dead"
                      \/ sup'[l].pc = "wait" /\ sup'[l].child = w
    BY DEF ChildOf
  <2>1. Alive(w) /\ proc[w].by = l
    OBVIOUS
  <2>2. sup[l].pc = "dead" \/ (sup[l].pc = "wait" /\ sup[l].child = w)
    BY <2>1 DEF ChildInv, ChildOf
  <2> QED BY <2>1, <2>2
<1> QED BY <1>1, <1>2 DEF ChildInv

\* A supervisor that is neither waiting nor dead has no live child: the process it
\* starts is the only one, and the one it waits on.
LEMMA NewChild ==
  ASSUME TypeOK, ChildInv, NEW l \in Launcher, NEW w \in Worker, NEW r, NEW s,
         ProcIs(w, "boot", l), SupIs(l, "wait", w, r, s),
         sup[l].pc \notin {"wait", "dead"}, \A k \in Launcher : Fresh(k)'
  PROVE  ChildInv'
<1>1. \A v \in Worker : Alive(v) => proc[v].by # l
  BY DEF ChildInv, ChildOf
<1>2. \A v \in Worker \ {w} :
        /\ Alive(v)' => Alive(v)
        /\ proc'[v].by = proc[v].by
  BY DEF ProcIs, Alive
<1>3. proc'[w].by = l
  BY DEF ProcIs
<1>4. OneChild'
  <2> SUFFICES ASSUME NEW u \in Worker, NEW v \in Worker, Alive(u)', Alive(v)',
                      proc'[u].by = proc'[v].by, proc'[u].by # NoLauncher
               PROVE  u = v
    BY DEF OneChild
  <2>1. CASE u = w \/ v = w
    BY <2>1, <1>1, <1>2, <1>3
  <2>2. CASE u # w /\ v # w
    BY <2>2, <1>2 DEF ChildInv, OneChild
  <2> QED BY <2>1, <2>2
<1>5. ASSUME NEW k \in Launcher, NEW v \in Worker PROVE ChildOf(v, k)'
  <2> SUFFICES ASSUME Alive(v)', proc'[v].by = k
               PROVE  \/ sup'[k].pc = "dead"
                      \/ sup'[k].pc = "wait" /\ sup'[k].child = v
    BY DEF ChildOf
  <2>1. CASE v = w
    BY <2>1, <1>3 DEF SupIs
  <2>2. CASE v # w
    <3>1. Alive(v) /\ proc[v].by = k /\ k # l
      BY <1>1, <1>2, <2>2
    <3>2. sup[k].pc = "dead" \/ (sup[k].pc = "wait" /\ sup[k].child = v)
      BY <3>1 DEF ChildInv, ChildOf
    <3>3. sup'[k] = sup[k]
      BY <3>1 DEF SupIs
    <3> QED BY <3>2, <3>3
  <2> QED BY <2>1, <2>2
<1> QED BY <1>4, <1>5 DEF ChildInv

\* A supervisor's step: it leaves its wait only when the child it waits on is gone.
LEMMA SupervisorChild ==
  ASSUME TypeOK, ChildInv, \A k \in Launcher : Fresh(k)', NEW l \in Launcher,
         SupStep(l) \/ SpawnFails(l)
  PROVE  ChildInv'
<1>1. CASE Respawns(l)
  BY <1>1, RespawnEffect, NewChild
<1>2. CASE ~Respawns(l)
  <2>1. UNCHANGED proc
    BY <1>2 DEF SupStep, ChildExits, Wakes, SpawnFails
  <2>2. \/ sup[l].pc \notin {"wait", "dead"}
        \/ sup[l].pc = "wait" /\ ~Alive(sup[l].child)
    BY <1>2 DEF SupStep, ChildExits, Wakes, SpawnFails, HasExited
  <2>3. \A k \in Launcher \ {l} : sup'[k] = sup[k]
    BY <1>2 DEF TypeOK, SupStep, ChildExits, Wakes, SpawnFails, Schedules
  <2>4. \A w \in Worker : Alive(w)' => Alive(w) /\ proc'[w].by = proc[w].by
    BY <2>1 DEF Alive
  <2> QED BY <2>2, <2>3, <2>4, NoNewChild
<1> QED BY <1>1, <1>2

\* A launcher's step: it starts one child, before its supervisor has begun, and what
\* its user interface starts is nobody's child.
LEMMA LauncherChild ==
  ASSUME TypeOK, ChildInv, \A k \in Launcher : Fresh(k)', NEW l \in Launcher,
         LauncherStep(l) \/ EnsureLook(l) \/ Close(l)
  PROVE  ChildInv'
<1>1. CASE Start(l)
  <2>1. sup[l].pc = "off"
    BY <1>1, StartEffect DEF ChildInv, Fresh
  <2> QED BY <1>1, <2>1, StartEffect, NewChild
<1>2. CASE EnsureStart(l)
  <2>1. PICK w \in Worker : ProcIs(w, "boot", NoLauncher)
    BY <1>2, EnsureStartEffect
  <2>2. UNCHANGED sup /\ NoLauncher \notin Launcher
    BY <1>2, EnsureStartEffect, SupervisorAssumption
  <2>3. \A v \in Worker : proc'[v].by # NoLauncher /\ Alive(v)'
                            => proc'[v] = proc[v] /\ Alive(v)
    BY <2>1 DEF ProcIs, Alive
  <2>4. OneChild'
    BY <2>3 DEF ChildInv, OneChild
  <2>5. \A k \in Launcher, v \in Worker : ChildOf(v, k)'
    BY <2>2, <2>3 DEF ChildInv, ChildOf
  <2> QED BY <2>4, <2>5 DEF ChildInv
<1>3. CASE Look(l) \/ EnsureLook(l) \/ Close(l)
  <2>1. UNCHANGED <<proc, sup>>
    BY <1>3, GoesEffect
  <2> QED BY <2>1, NoNewChild DEF Alive
<1>4. CASE UiStops(l) \/ Stops(l)
  <2>1. UNCHANGED sup
    BY <1>4, AskEffect
  <2>2. \A w \in Worker : Alive(w)' => Alive(w) /\ proc'[w].by = proc[w].by
    BY <1>4, AskEffect DEF ProcIs, Alive
  <2> QED BY <2>1, <2>2, NoNewChild
<1>5. CASE UiAwaits(l) \/ Awaits(l)
  <2>1. UNCHANGED <<proc, sup>>
    BY <1>5, AwaitEffect
  <2> QED BY <2>1, NoNewChild DEF Alive
<1>6. CASE Intent(l)
  <2>1. UNCHANGED proc
    BY <1>6, IntentEffect
  <2>2. \A k \in Launcher : sup'[k].pc = sup[k].pc /\ sup'[k].child = sup[k].child
    BY <1>6, IntentEffect DEF SupIs
  <2> QED BY <2>1, <2>2, NoNewChild DEF Alive
<1>7. CASE Exit(l)
  <2>1. UNCHANGED proc
    BY <1>7, EndEffect
  <2>2. sup'[l].pc = "dead" /\ \A k \in Launcher \ {l} : sup'[k] = sup[k]
    BY <1>7, EndEffect DEF SupIs
  <2> QED BY <2>1, <2>2, NoNewChild DEF Alive
<1> QED BY <1>1, <1>2, <1>3, <1>4, <1>5, <1>6, <1>7 DEF LauncherStep

\* The children of a launcher live one after the other.
THEOREM ChildrenAreSerial == Spec => []OneChild
<1>1. Init => ChildInv
  <2> SUFFICES ASSUME Init PROVE ChildInv
    OBVIOUS
  <2>1. \A w \in Worker : proc[w].by = NoLauncher
    BY DEF Init, Unused
  <2>2. \A l \in Launcher : sup[l].pc = "off"
    BY DEF Init
  <2> QED BY <2>1, <2>2, SupervisorAssumption DEF ChildInv, OneChild, Fresh, ChildOf
<1>2. TypeOK /\ ChildInv /\ [Next]_vars => ChildInv'
  <2> SUFFICES ASSUME TypeOK, ChildInv, [Next]_vars PROVE ChildInv'
    OBVIOUS
  <2>1. \A k \in Launcher : Fresh(k)'
    BY FreshStep DEF ChildInv
  <2>2. CASE UNCHANGED vars
    BY <2>1, <2>2, NoNewChild DEF Alive, vars
  <2>3. ASSUME NEW w \in Worker, WorkerStep(w) \/ WorkerEvent(w) PROVE ChildInv'
    <3>1. \A v \in Worker : Alive(v)' => Alive(v) /\ proc'[v].by = proc[v].by
      BY <2>3, WorkerEffect DEF ProcIs, Alive
    <3> QED BY <2>1, <2>3, <3>1, WorkerEffect, NoNewChild
  <2> QED BY <2>1, <2>2, <2>3, SupervisorChild, LauncherChild DEF Next
<1>3. ChildInv => OneChild
  BY DEF ChildInv
<1> QED BY <1>1, <1>2, <1>3, SupervisorTypeCorrect, PTL DEF Spec

(***************************************************************************)
(* The stop.                                                               *)
(***************************************************************************)

\* The body of IntentRespected.
Respects(l) == sup[l].stop /\ sup[l].pc # "spawn" => sup'[l].pc # "spawn"

\* After request_stop a supervisor that was not in the middle of a restart never comes
\* to one: the exit it waits for, and the sleep it may be in, both read the request.
THEOREM StopIsFinal == Spec => IntentRespected
<1>1. ASSUME TypeOK, Next, NEW k \in Launcher PROVE Respects(k)
  <2>1. ASSUME NEW w \in Worker, WorkerStep(w) \/ WorkerEvent(w) PROVE Respects(k)
    BY <1>1, <2>1, WorkerEffect DEF Respects
  <2>2. ASSUME NEW l \in Launcher, SupStep(l) \/ SpawnFails(l) PROVE Respects(k)
    <3>1. CASE k # l
      <4>1. sup'[k] = sup[k]
        BY <1>1, <2>2, <3>1
           DEF TypeOK, SupStep, ChildExits, Wakes, Respawns, SpawnFails, Schedules
      <4> QED BY <4>1 DEF Respects
    <3>2. CASE k = l /\ ChildExits(l)
      <4>1. sup[l].restarts \in Nat
        BY <1>1 DEF TypeOK, SupType
      <4> QED BY <3>2, <4>1, <1>1, ExitEffect, SupSchedules DEF Respects, SupIs
    <3>3. CASE k = l /\ Wakes(l)
      BY <3>3, <1>1, WakeEffect DEF Respects, SupIs
    <3>4. CASE k = l /\ Respawns(l)
      BY <3>4 DEF Respects, Respawns
    <3>5. CASE k = l /\ SpawnFails(l)
      BY <3>5 DEF Respects, SpawnFails
    <3> QED BY <2>2, <3>1, <3>2, <3>3, <3>4, <3>5 DEF SupStep
  <2>3. ASSUME NEW l \in Launcher, LauncherStep(l) \/ EnsureLook(l) \/ Close(l)
        PROVE  Respects(k)
    <3>1. CASE Start(l)
      BY <1>1, <3>1, StartEffect DEF Respects, SupIs
    <3>2. CASE Intent(l)
      BY <1>1, <3>2, IntentEffect DEF Respects, SupIs
    <3>3. CASE Exit(l)
      BY <1>1, <3>3, EndEffect DEF Respects, SupIs
    <3>4. CASE ~(Start(l) \/ Intent(l) \/ Exit(l))
      <4>1. UNCHANGED sup
        BY <1>1, <2>3, <3>4, GoesEffect, EnsureStartEffect, AskEffect, AwaitEffect
           DEF LauncherStep
      <4> QED BY <4>1 DEF Respects
    <3> QED BY <3>1, <3>2, <3>3, <3>4
  <2> QED BY <1>1, <2>1, <2>2, <2>3 DEF Next
<1>2. TypeOK /\ [Next]_vars
        => [\A l \in Launcher :
              sup[l].stop /\ sup[l].pc # "spawn" => sup'[l].pc # "spawn"]_vars
  BY <1>1 DEF Respects
<1> QED BY <1>2, SupervisorTypeCorrect, PTL DEF Spec, IntentRespected

================================================================================
