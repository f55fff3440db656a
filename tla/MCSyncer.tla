----------------------------- MODULE MCSyncer -----------------------------
(***************************************************************************)
(* Small instances of Syncer: one downloader, a qBittorrent or a           *)
(* Transmission, with two tasks that may take each other's id.             *)
(***************************************************************************)
EXTENDS Syncer

CONSTANTS d1, t1, t2

OneHome == [t \in Tasks |-> d1]
=============================================================================
