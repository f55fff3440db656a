-------------------------- MODULE MCContentHistory -------------------------
(***************************************************************************)
(* The small instances of ContentGroups, with the history of its edits.    *)
(***************************************************************************)
EXTENDS MCContentGroups, ContentHistory
=============================================================================
