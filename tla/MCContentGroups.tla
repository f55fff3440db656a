-------------------------- MODULE MCContentGroups --------------------------
(***************************************************************************)
(* Small instances of ContentGroups: the automatic groups that tasks may   *)
(* be found to belong to, and the groups and operations that edits create. *)
(***************************************************************************)
EXTENDS ContentGroups, TLC

CONSTANTS t1, t2, d1, A, B, n1, n2, o1, o2

OneHome == t1 :> d1 @@ t2 :> d1
FirstWanders == t1 :> {A, B} @@ t2 :> {B}

Symmetric == Permutations(Uuids) \cup Permutations(Operations)
=============================================================================
