------------------------------ MODULE MCJobQueue ------------------------------
(***************************************************************************)
(* Model-checking instance of JobQueue.                                    *)
(***************************************************************************)
EXTENDS JobQueueClaims, TLC

\* Worker instances differ only by name.
WorkerSymmetry == Permutations(Worker)

\* So do concurrent requests.
RequestSymmetry == Permutations(Request)

===============================================================================
