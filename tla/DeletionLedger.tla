--------------------------- MODULE DeletionLedger ---------------------------
(***************************************************************************)
(* What the deletion service promises for one job after another, without   *)
(* handlers, goroutines, plans or restarts: a ledger of deletions that are *)
(* sent one at a time, in order, each at most once, and whose outcome is   *)
(* never better than what was acknowledged.                                *)
(***************************************************************************)
EXTENDS Naturals

CONSTANT Jobs

VARIABLES
    state,  \* none, accepted, running, completed, failed or uncertain
    total,  \* the number of deletions of the job
    sent,   \* the deletions sent to a downloader
    acked   \* the deletions acknowledged and recorded

vars == <<state, total, sent, acked>>

Init ==
    /\ state = [j \in Jobs |-> "none"]
    /\ total = [j \in Jobs |-> 0]
    /\ sent = [j \in Jobs |-> 0]
    /\ acked = [j \in Jobs |-> 0]

Becomes(j, from, to) == state[j] = from /\ state'[j] = to

Same(j) == total'[j] = total[j] /\ sent'[j] = sent[j] /\ acked'[j] = acked[j]

Accept(j) ==
    /\ Becomes(j, "none", "accepted")
    /\ total'[j] \in Nat \ {0}
    /\ sent'[j] = sent[j] /\ acked'[j] = acked[j]

Begin(j) == Becomes(j, "accepted", "running") /\ Same(j)

\* The next deletion leaves only when every earlier one is acknowledged.
Send(j) ==
    /\ Becomes(j, "running", "running")
    /\ sent[j] = acked[j] /\ sent[j] < total[j]
    /\ sent'[j] = sent[j] + 1
    /\ total'[j] = total[j] /\ acked'[j] = acked[j]

Acknowledge(j) ==
    /\ Becomes(j, "running", "running")
    /\ acked[j] < sent[j]
    /\ acked'[j] = acked[j] + 1
    /\ total'[j] = total[j] /\ sent'[j] = sent[j]

Complete(j) == acked[j] = total[j] /\ Becomes(j, "running", "completed") /\ Same(j)

\* Failing is honest only while nothing is in doubt.
FailClean(j) ==
    /\ sent[j] = acked[j]
    /\ Becomes(j, "accepted", "failed") \/ Becomes(j, "running", "failed")
    /\ Same(j)

Doubt(j) == Becomes(j, "running", "uncertain") /\ Same(j)

JobStep(j) ==
    \/ Accept(j) \/ Begin(j) \/ Send(j) \/ Acknowledge(j)
    \/ Complete(j) \/ FailClean(j) \/ Doubt(j)

\* A restart settles several jobs in one step.
Next == \A j \in Jobs : JobStep(j) \/ (state'[j] = state[j] /\ Same(j))

Spec == Init /\ [][Next]_vars

-----------------------------------------------------------------------------
(* What follows from the ledger alone.                                      *)

\* At most one deletion of a job is unanswered, none is sent beyond the job's, a
\* completed job has all of them acknowledged and a failed one leaves none in doubt.
Honest ==
    \A j \in Jobs :
        /\ total[j] \in Nat /\ acked[j] \in Nat
        /\ sent[j] \in {acked[j], acked[j] + 1} /\ sent[j] <= total[j]
        /\ state[j] \in {"none", "accepted"} => sent[j] = 0
        /\ state[j] = "completed" => acked[j] = total[j]
        /\ state[j] = "failed" => sent[j] = acked[j]

\* A settled job neither changes its outcome nor sends or records anything more.
Final ==
    [][\A j \in Jobs : state[j] \in {"completed", "failed", "uncertain"} =>
            state'[j] = state[j] /\ Same(j)]_vars
=============================================================================
