------------------------- MODULE MCPlannedDeletion -------------------------
(***************************************************************************)
(* Small instances of PlannedDeletion: two downloaders of one storage, one *)
(* content seen by several tasks with or without evidence, and a second    *)
(* directory inside the first whose torrent may hold one of its files.     *)
(***************************************************************************)
EXTENDS PlannedDeletion, TLC

CONSTANTS t1, t2, d1, d2, disk, A, B, e1, e2, f1, f2

Seen == [path |-> A, bytes |-> 1, ev |-> e1, files |-> {f1}]
\* The same sizes under another name: same data group, another manifest.
Renamed == [Seen EXCEPT !.files = {f2}]
Unread == [Seen EXCEPT !.ev = NoEvidence, !.files = {}]
Inner == [path |-> B, bytes |-> 2, ev |-> e2, files |-> {f1}]
InnerUnread == [Inner EXCEPT !.ev = NoEvidence, !.files = {}]

OneStorage == d1 :> disk @@ d2 :> disk
Order == t1 :> 1 @@ t2 :> 2
BInA == {<<A, B>>}

\* Two tasks of one downloader: evidence comes and goes, a file is renamed.
OneHome == t1 :> d1 @@ t2 :> d1
EvidenceViews == t1 :> {Seen, Renamed, Unread} @@ t2 :> {Seen}

\* A task on each of two downloaders of the storage, which may share a file.
TwoHomes == t1 :> d1 @@ t2 :> d2
SharingViews == t1 :> {Seen} @@ t2 :> {Seen, Inner, InnerUnread}
=============================================================================
