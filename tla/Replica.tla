------------------------------ MODULE Replica ------------------------------
(***************************************************************************)
(* What the synchroniser promises of the rows it keeps, without requests,  *)
(* cursors, snapshots or jobs: the copy of a task shows a state the task   *)
(* was really in, and only moves on to later ones.  The one exception is a *)
(* downloader whose identifiers are not stable: there a copy may say that  *)
(* a task is gone which is still there.                                    *)
(***************************************************************************)
EXTENDS Naturals

CONSTANT Tasks

VARIABLES
    past,   \* past[t]: the states t has been in, the present one included
    copy,   \* copy[t]: the state that is shown of t
    stable  \* the tasks of downloaders whose identifiers were never given anew

vars == <<past, copy, stable>>

Unborn == [present |-> FALSE, at |-> 0]

Init ==
    /\ past = [t \in Tasks |-> {Unborn}]
    /\ copy = [t \in Tasks |-> Unborn]
    /\ stable = Tasks

\* The world moves: what has been stays true.
Live ==
    /\ past' \in [Tasks -> SUBSET [present : BOOLEAN, at : Nat]]
    /\ \A t \in Tasks : past[t] \subseteq past'[t]
    /\ UNCHANGED <<copy, stable>>

Lose ==
    /\ stable' \subseteq stable
    /\ UNCHANGED <<past, copy>>

Mistaken(t) ==
    /\ t \notin stable
    /\ copy'[t] = [present |-> FALSE, at |-> copy'[t].at]
    /\ \E s \in past[t] : s.at = copy'[t].at

Follow ==
    /\ copy' \in [Tasks -> [present : BOOLEAN, at : Nat]]
    /\ \A t \in Tasks :
            /\ copy'[t] \in past[t] \/ copy'[t] = copy[t] \/ Mistaken(t)
            /\ copy[t].at <= copy'[t].at
    /\ UNCHANGED <<past, stable>>

Next == Live \/ Lose \/ Follow

Spec == Init /\ [][Next]_vars
=============================================================================
