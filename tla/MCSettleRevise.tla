----------------------------- MODULE MCSettleRevise -----------------------------
(***************************************************************************)
(* The two parts of the application that repair what a dead process left:  *)
(* the settlement of a chapter's reservation and the quality revision of a *)
(* finished chapter.  They share no state (a revision never touches the    *)
(* wallet, and starts on a chapter whose job is over): a behaviour follows *)
(* one of them, `part'.                                                    *)
(***************************************************************************)
EXTENDS YkSettlement, ChapterRevision

VARIABLE part

\* One region may need a human, the other may be left as it is.
MCReplies == [x \in {1, 2} |-> IF x = 1 THEN {"rewrite", "manual"} ELSE {"rewrite", "keep"}]

MCInit == SettleInit /\ RevisionInit /\ part \in {"settlement", "revision"}

MCNext ==
  \/ part = "settlement" /\ SettleNext /\ UNCHANGED <<part, revisionVars>>
  \/ part = "revision" /\ RevisionNext /\ UNCHANGED <<part, ykVars>>

MCSpec == MCInit /\ [][MCNext]_<<part, ykVars, revisionVars>>

===============================================================================
