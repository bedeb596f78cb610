----------------------------- MODULE JobLifecycle -----------------------------
(***************************************************************************)
(* What the job store promises of a single row, whoever writes it: rows    *)
(* are inserted in one of the initial statuses, move only along the table  *)
(* and are settled in a terminal status.  Three writes are plain UPDATEs   *)
(* that bypass the table of transition(): the claim of a queued row (a     *)
(* pair the table lists), the handoff that gives an analysed row back to   *)
(* the worker that held it, and the confirmation of a quality review.      *)
(***************************************************************************)
EXTENDS JobStatus

CONSTANT Job           \* row identifiers

VARIABLE status        \* status[j], "absent" before the row is inserted

Init == status = [j \in Job |-> "absent"]

\* create_job
Create(j) ==
  /\ status[j] = "absent"
  /\ \E s \in {"queued", "staging", "awaiting_source_review"} :
       status' = [status EXCEPT ![j] = s]

\* transition and claim_next_job
Move(j) ==
  \E t \in Status :
    /\ TransitionAllowed(status[j], t)
    /\ status' = [status EXCEPT ![j] = t]

\* resolve_ready_pipeline with handoff_worker_id
Handoff(j) ==
  /\ status[j] = "source_analysis_ready"
  /\ status' = [status EXCEPT ![j] = "claiming"]

\* complete_review
CompleteReview(j) ==
  /\ status[j] = "review_required"
  /\ status' = [status EXCEPT ![j] = "finished"]

Next == \E j \in Job : Create(j) \/ Move(j) \/ Handoff(j) \/ CompleteReview(j)

Spec == Init /\ [][Next]_status

TypeOK == status \in [Job -> Status \union {"absent"}]

\* What the callers can rely on: a row that was cancelled, failed or finished
\* keeps that status, and a reviewed row can only become finished (the comment on
\* the table, "Terminal states do not transition", forgets the confirmation).
SettledIsFinal ==
  [][\A j \in Job :
       status[j] \in Terminal =>
         \/ status'[j] = status[j]
         \/ status[j] = "review_required" /\ status'[j] = "finished"]_status

==============================================================================
