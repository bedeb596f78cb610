--------------------------- MODULE MCPublishProgress ---------------------------
(***************************************************************************)
(* The two parts of the application whose work must come to an end by      *)
(* itself: a chapter's publication, and the progress stream of a job.  The *)
(* worker starts one runner per claimed row, chosen by its job type        *)
(* (_RUNNERS), and the two share no state: a behaviour follows one of      *)
(* them, `part', because their interleavings would reach no pair of states *)
(* that a property relates.                                                *)
(***************************************************************************)
EXTENDS CommunityPublish, ProgressEvents

CONSTANTS p1, p2, s1

VARIABLE part

allVars == <<part, publishVars, progressVars>>

\* Either both posts are published and nothing else happens, or one post meets its
\* owner's requests, or its owner and a moderator disagree about it.
MCDemands == {{"publish"} \X {p1, p2},
              {"publish", "unpublish", "delete", "trash"} \X {p1},
              {"publish", "unpublish", "moderate"} \X {p1}}

Start == CHOOSE demand \in MCDemands : TRUE

MCInit ==
  /\ PublishInit /\ ProgressInit
  /\ part \in {"publish", "progress"}
  /\ part = "progress" => ~earlyId /\ asked = Start

PublishStep(A) == part = "publish" /\ A /\ UNCHANGED <<part, progressVars>>
ProgressStep(A) == part = "progress" /\ A /\ UNCHANGED <<part, publishVars>>

\* PublishFairness and ProgressFairness, each for the part that runs
MCFairness ==
  /\ WF_allVars(PublishStep(RunnerNext)) /\ WF_allVars(PublishStep(WorkerNext))
  /\ SF_allVars(PublishStep(ReadAttempt)) /\ SF_allVars(PublishStep(ClaimPublish))
  /\ WF_allVars(ProgressStep(PumpNext)) /\ WF_allVars(ProgressStep(LoopNext))

MCSpec ==
  MCInit /\ [][PublishStep(PublishNext) \/ ProgressStep(ProgressNext)]_allVars /\ MCFairness

\* The type invariants of the two modules.
TypesOK == PublishTypeOK /\ ProgressTypeOK

===============================================================================
