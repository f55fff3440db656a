---------------------------- MODULE MCDeleteJobs ----------------------------
(***************************************************************************)
(* Small instances of DeleteJobs: two requests that may carry the same key *)
(* or the same plan, plans of one and of two steps, and the refinement of  *)
(* the abstract ledger.                                                    *)
(***************************************************************************)
EXTENDS JobLedger, TLC

CONSTANTS p1, p2

\* p1 has two steps, p2 has one.
SmallSize == p1 :> 2 @@ p2 :> 1

\* A single plan of two steps.
TwoSteps == p1 :> 2

\* Requests, keys and job IDs are interchangeable (safety runs only).
Symmetry == Permutations(Requests) \cup Permutations(Keys) \cup Permutations(JobIds)
=============================================================================
