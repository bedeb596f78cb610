------------------------------ MODULE JobStatus ------------------------------
(***************************************************************************)
(* The persisted statuses of a job row and the transition table every      *)
(* writer of the row is checked against                                    *)
(* (src/yomu/runtime/job_store.py, JobStatus and ALLOWED_TRANSITIONS).     *)
(***************************************************************************)

\* Terminal statuses: the row is history.
Terminal == {"cancelled", "failed", "finished", "review_required"}

\* A worker holds the row and must supervise it.
InFlight == {"claiming", "starting", "running", "cancelling"}

\* The holds a row may wait in before any runner exists.
Holds == {"awaiting_source_review", "waiting_source_verification",
          "source_analysis_ready"}

Status == Terminal \union InFlight \union Holds
            \union {"staging", "queued", "interrupted", "resumable"}

\* Rows a new submission of the same chapter is compared with.
DedupeActive == {"staging", "queued"} \union InFlight \union Holds

\* Predicate of the partial unique index uq_jobs_active_owner_chapter.
IndexActive == {"staging", "queued", "awaiting_source_review",
                "source_analysis_ready"} \union InFlight

\* ALLOWED_TRANSITIONS; a pair not listed is rejected with TransitionError.
TransitionAllowed(s, t) ==
  \/ /\ s = "staging"
     /\ t \in {"queued", "awaiting_source_review",
               "waiting_source_verification", "cancelled", "failed"}
  \/ s = "queued" /\ t \in {"claiming", "cancelled"}
  \/ /\ s = "claiming"
     /\ t \in {"starting", "queued", "failed", "interrupted", "cancelling"}
                \union Holds
  \/ s = "starting" /\ t \in {"running", "interrupted", "failed", "cancelling"}
  \/ /\ s = "running"
     /\ t \in {"finished", "review_required", "cancelling", "interrupted", "failed"}
  \/ s \in Holds /\ t \in {"queued", "cancelled", "failed"}
  \/ s = "cancelling" /\ t \in {"cancelled", "interrupted", "failed"}
  \/ s = "interrupted" /\ t \in {"resumable", "failed", "cancelled"}
  \/ s = "resumable" /\ t \in {"queued", "cancelled"}

==============================================================================
