--------------------------- MODULE ContentHistory --------------------------
(***************************************************************************)
(* A history of ContentGroups: for every edit, the placement of all tasks  *)
(* and the rows of all groups before and after it.                         *)
(***************************************************************************)
EXTENDS ContentGroups

VARIABLE past   \* past[o]: the pictures before and after edit o, as long as it is not undone

historyVars == <<vars, past>>

Picture ==
    [place |-> [t \in DOMAIN task |-> Place(t)],
     group |-> [g \in DOMAIN group |-> [group[g] EXCEPT !.version = 0]]]

HistoryInit == Init /\ past = << >>

HistoryNext ==
    /\ Next
    /\ past' = [o \in {p \in DOMAIN operation' : ~operation'[p].undone} |->
            IF o \in DOMAIN operation THEN past[o] ELSE [before |-> Picture, after |-> Picture']]

HistorySpec == HistoryInit /\ [][HistoryNext]_historyVars

\* What the undo of an edit has to leave behind.
RestoredTo(before, after) ==
    /\ \A t \in DOMAIN task : Picture'.place[t] =
            IF t \in DOMAIN before.place /\ before.place[t] # after.place[t]
            THEN before.place[t] ELSE Place(t)
    /\ \A g \in DOMAIN group :
            IF g \in DOMAIN before.group
            THEN before.group[g] # after.group[g] => Picture'.group[g] = before.group[g]
            ELSE g \in DOMAIN after.group => group'[g].retired

\* Undoing an edit, at whatever time, puts back every task that it moved and every
\* group that it changed, retires what it created, and moves nothing else
\* (UndoGroupOperation, docs/architecture.md:75).
UndoRestoresThePast ==
    [][\A o \in DOMAIN operation :
            UndoGroupOperation(o) => RestoredTo(past[o].before, past[o].after)]_historyVars
=============================================================================
