-------------------------- MODULE MCSuperviseChapter --------------------------
(***************************************************************************)
(* The two parts of the application that start again what has died: the    *)
(* supervisor of the worker process, and the attempts of one chapter, page *)
(* by page.  They share no state (JobQueue stands between them), so a      *)
(* behaviour follows one of them, `part'.                                  *)
(***************************************************************************)
EXTENDS WorkerSupervisor, ChapterPages

VARIABLE part

allVars == <<part, vars, pageVars>>

L(skip, solid, text) ==
  [decodes |-> TRUE, skip |-> skip, solid |-> solid, text |-> text]

\* pages with text, thick and flat; without text; and pages the precheck takes for
\* empty, rightly, flat ones among them, and wrongly; and a file OpenCV cannot read
MCLooks ==
  {L(FALSE, TRUE, TRUE), L(FALSE, FALSE, TRUE), L(FALSE, TRUE, FALSE),
   L(TRUE, TRUE, FALSE), L(TRUE, FALSE, FALSE), L(TRUE, TRUE, TRUE),
   [decodes |-> FALSE, skip |-> FALSE, solid |-> TRUE, text |-> TRUE]}

Blank == L(TRUE, TRUE, FALSE)

MCInit ==
  /\ Init /\ ChapterInit
  /\ part \in {"supervisor", "chapter"}
  /\ part = "supervisor" => look = [p \in Page |-> Blank]
  /\ part = "chapter" => proc = [w \in Worker |-> Unused]

SupervisorStep(A) == part = "supervisor" /\ A /\ UNCHANGED <<part, pageVars>>
ChapterStep(A) == part = "chapter" /\ A /\ UNCHANGED <<part, vars>>

\* Fairness of WorkerSupervisor; nothing is claimed to happen to a chapter
MCFairness ==
  /\ \A w \in Worker : WF_allVars(SupervisorStep(WorkerStep(w)))
  /\ \A l \in Launcher : /\ WF_allVars(SupervisorStep(SupStep(l)))
                         /\ WF_allVars(SupervisorStep(LauncherStep(l)))

MCSpec ==
  MCInit /\ [][SupervisorStep(Next) \/ ChapterStep(ChapterNext)]_allVars /\ MCFairness

\* The type invariants of the two modules.
TypesOK == TypeOK /\ ChapterTypeOK

===============================================================================
