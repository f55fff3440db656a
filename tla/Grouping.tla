------------------------------ MODULE Grouping ------------------------------
(***************************************************************************)
(* Automatic grouping (internal/domain/grouping.go): which data group each *)
(* task of one synchronised batch belongs to, and how far that group can   *)
(* be trusted.                                                             *)
(*                                                                         *)
(* A batch is a function from tasks of one downloader to views.  A view is *)
(* what normalizeTorrent keeps of a task: its canonical path, its wanted   *)
(* bytes, the fingerprint of its selected file sizes (NoEvidence when the  *)
(* manifest could not be read) and its files.  Hashed IDs are injective in *)
(* what they hash, so a group is named by its key.                         *)
(***************************************************************************)
EXTENDS FiniteSets

CONSTANTS
    Tasks,      \* torrent instances: a hash on a downloader
    Downloaders,
    Home,       \* Home[t]: the downloader of t
    Storage,    \* Storage[d]: the storage d writes to
    NoEvidence

\* Stage one: storage, path and wanted bytes make the candidates.
Candidates(batch, t) ==
    {u \in DOMAIN batch : batch[u].path = batch[t].path /\ batch[u].bytes = batch[t].bytes}

\* Stage two: known fingerprints split them; a task without evidence joins the
\* only known partition there is, else it stays with its like.
Partition(batch, t) ==
    LET known == {batch[u].ev : u \in Candidates(batch, t)} \ {NoEvidence}
    IN  IF batch[t].ev # NoEvidence THEN batch[t].ev
        ELSE IF Cardinality(known) = 1 THEN CHOOSE e \in known : TRUE
        ELSE NoEvidence

GroupKey(batch, t) ==
    [storage |-> Storage[Home[t]], path |-> batch[t].path, bytes |-> batch[t].bytes,
     ev |-> Partition(batch, t)]

GroupKeys(batch) == {GroupKey(batch, t) : t \in DOMAIN batch}

Members(batch, k) == {t \in DOMAIN batch : GroupKey(batch, t) = k}

\* One member without evidence makes the whole group tentative.
Confidence(batch, k) ==
    IF \A t \in Members(batch, k) : batch[t].ev # NoEvidence THEN "verified" ELSE "tentative"
=============================================================================
