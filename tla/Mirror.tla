------------------------------- MODULE Mirror -------------------------------
(***************************************************************************)
(* The mirror: the rows SeedGraph keeps of tasks, data groups, content     *)
(* groups and downloaders, and the transactions that change them           *)
(* (internal/store/sync.go, downloaders.go and groups.go).                 *)
(*                                                                         *)
(* Each operator is one transaction on the rows; the modules that extend   *)
(* this one say when it runs.  Trackers, runtime figures and the journal   *)
(* of runs do not take part in grouping or deletion and are left out.      *)
(* Whatever sets downloaders.online sets last_success_at as well, and what *)
(* reads one reads the other, so one flag stands for both.                 *)
(***************************************************************************)
EXTENDS Grouping, Naturals

CONSTANTS
    Enabled,        \* the downloaders that are created enabled
    Views,          \* Views[t]: the views a snapshot may show of t
    MaxVersion,     \* bound: versions of data groups that TLC explores
    MaxEdit         \* bound: versions of content groups that TLC explores

VARIABLES
    task,           \* torrent_instances, by task
    dataGroup,      \* data_groups, by group key
    contentGroup,   \* content_groups: the version, by group key
    downloader      \* downloaders: whether online, with a recent last_success_at

mirrorVars == <<task, dataGroup, contentGroup, downloader>>

AllViews == UNION {Views[t] : t \in Tasks}

ASSUME HomeAssumption == Home \in [Tasks -> Downloaders] /\ Enabled \subseteq Downloaders
\* Without a manifest there are no files either.
ASSUME ViewAssumption == \A v \in AllViews : v.ev = NoEvidence => v.files = {}
ASSUME VersionAssumption == MaxVersion \in Nat \ {0} /\ MaxEdit \in Nat \ {0}

TasksOf(d) == {t \in Tasks : Home[t] = d}

Active == {t \in DOMAIN task : task[t].active}

Batches(d) ==
    UNION {{batch \in [S -> AllViews] : \A t \in S : batch[t] \in Views[t]} : S \in SUBSET TasksOf(d)}

\* What may arrive from a downloader: all of its tasks, or a delta.  No API lists a
\* task as changed and as removed at once.
Snapshots(d) ==
    {[batch |-> batch, complete |-> TRUE, removed |-> {}] : batch \in Batches(d)} \cup
    UNION {{[batch |-> batch, complete |-> FALSE, removed |-> gone] :
                gone \in SUBSET (TasksOf(d) \ DOMAIN batch)} : batch \in Batches(d)}

-----------------------------------------------------------------------------
(* ApplySync.                                                               *)

\* Every member upserts the row of its group with its own evidence: a group of
\* mixed members is rewritten in each batch and keeps the evidence of the last.
DataRow(batch, k, last) ==
    LET row == dataGroup[k]
        trust == Confidence(batch, k)
        rewritten == row.confidence # trust \/ \E t \in Members(batch, k) : batch[t].ev # row.ev
    IN  [version |-> IF k \notin DOMAIN dataGroup THEN 1
                     ELSE IF rewritten THEN row.version + 1 ELSE row.version,
         confidence |-> trust,
         ev |-> batch[last].ev]

UpsertDataGroups(batch) ==
    \E last \in [GroupKeys(batch) -> DOMAIN batch] :
        /\ \A k \in GroupKeys(batch) : last[k] \in Members(batch, k)
        /\ dataGroup' = [k \in DOMAIN dataGroup \cup GroupKeys(batch) |->
                IF k \in GroupKeys(batch) THEN DataRow(batch, k, last[k]) ELSE dataGroup[k]]

\* An automatic content group is inserted once; a sync never changes its version.
UpsertContentGroups(batch) ==
    contentGroup' = [g \in DOMAIN contentGroup \cup GroupKeys(batch) |->
        IF g \in DOMAIN contentGroup THEN contentGroup[g] ELSE 1]

\* A manual assignment outlives every sync, a tombstone included.
Pinned(t) == t \in DOMAIN task /\ task[t].manual

TaskRow(batch, t) ==
    [active |-> TRUE,
     view |-> batch[t],
     group |-> GroupKey(batch, t),
     content |-> IF Pinned(t) THEN task[t].content ELSE GroupKey(batch, t),
     manual |-> Pinned(t)]

\* A complete snapshot tombstones what it does not show.
Vanished(d, snapshot, t) ==
    Home[t] = d /\ t \notin DOMAIN snapshot.batch /\ (snapshot.complete \/ t \in snapshot.removed)

\* Mutant: what a snapshot no longer shows is deleted.
UpsertTasksDropping(d, snapshot) ==
    task' = [t \in DOMAIN snapshot.batch \cup {u \in DOMAIN task : ~Vanished(d, snapshot, u)} |->
        IF t \in DOMAIN snapshot.batch THEN TaskRow(snapshot.batch, t) ELSE task[t]]

UpsertTasks(d, snapshot) ==
    task' = [t \in DOMAIN task \cup DOMAIN snapshot.batch |->
        IF t \in DOMAIN snapshot.batch THEN TaskRow(snapshot.batch, t)
        ELSE [task[t] EXCEPT !.active = @ /\ ~Vanished(d, snapshot, t)]]

ApplySync(d, snapshot) ==
    /\ UpsertDataGroups(snapshot.batch)
    /\ UpsertContentGroups(snapshot.batch)
    /\ UpsertTasks(d, snapshot)
    /\ downloader' = [downloader EXCEPT ![d] = TRUE]

-----------------------------------------------------------------------------
(* The other transactions on these rows.                                    *)

\* RecordFailedSync or a failed connection test puts it offline; without either,
\* last_success_at falls behind SEEDGRAPH_STALE_AFTER.
LoseTouch(d) ==
    /\ downloader' = [downloader EXCEPT ![d] = FALSE]
    /\ UNCHANGED <<task, dataGroup, contentGroup>>

\* CreateDownloader: a new downloader is offline and never succeeded.
AddDownloader(d) ==
    /\ d \notin DOMAIN downloader
    /\ downloader' = [e \in DOMAIN downloader \cup {d} |->
            e # d /\ downloader[e]]
    /\ UNCHANGED <<task, dataGroup, contentGroup>>

\* A connection test that succeeded counts as a success, though no task was read.
MarkReachable(d) ==
    /\ downloader' = [downloader EXCEPT ![d] = TRUE]
    /\ UNCHANGED <<task, dataGroup, contentGroup>>

\* MoveInstance, requested with the current versions of both groups.
MoveInstance(t, g) ==
    /\ t \in Active
    /\ g \in DOMAIN contentGroup \ {task[t].content}
    /\ task' = [task EXCEPT ![t].content = g, ![t].manual = TRUE]
    /\ contentGroup' = [contentGroup EXCEPT ![g] = @ + 1, ![task[t].content] = @ + 1]
    /\ UNCHANGED <<dataGroup, downloader>>

SetGroupLock(g) ==
    /\ g \in DOMAIN contentGroup
    /\ contentGroup' = [contentGroup EXCEPT ![g] = @ + 1]
    /\ UNCHANGED <<task, dataGroup, downloader>>

MirrorInit ==
    /\ task = << >>
    /\ dataGroup = << >>
    /\ contentGroup = << >>
    /\ downloader = << >>

VersionsBounded ==
    /\ \A k \in DOMAIN dataGroup : dataGroup[k].version <= MaxVersion
    /\ \A g \in DOMAIN contentGroup : contentGroup[g] <= MaxEdit

-----------------------------------------------------------------------------

KeyType ==
    [storage : {Storage[d] : d \in Downloaders}, path : {v.path : v \in AllViews},
     bytes : {v.bytes : v \in AllViews}, ev : {v.ev : v \in AllViews} \cup {NoEvidence}]

\* Every task row names rows of a data group and of a content group, so no join
\* of the planner comes up empty.
MirrorTypeOK ==
    /\ DOMAIN task \subseteq Tasks
    /\ \A t \in DOMAIN task :
            task[t] \in [active : BOOLEAN, view : Views[t], group : DOMAIN dataGroup,
                         content : DOMAIN contentGroup, manual : BOOLEAN]
    /\ DOMAIN dataGroup \subseteq KeyType
    /\ \A k \in DOMAIN dataGroup :
            dataGroup[k] \in [version : Nat \ {0}, confidence : {"verified", "tentative"},
                              ev : {v.ev : v \in AllViews}]
    /\ DOMAIN contentGroup \subseteq KeyType
    /\ \A g \in DOMAIN contentGroup : contentGroup[g] \in Nat \ {0}
    /\ DOMAIN downloader \subseteq Downloaders
    /\ \A d \in DOMAIN downloader : downloader[d] \in BOOLEAN
    /\ \A t \in DOMAIN task : Home[t] \in DOMAIN downloader
=============================================================================
