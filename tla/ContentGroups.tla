--------------------------- MODULE ContentGroups ---------------------------
(***************************************************************************)
(* Content groups (internal/store/groups.go): the groups a user sees and   *)
(* rearranges, and the journal of operations that lets an edit be undone,  *)
(* while every sync places tasks of its own accord (store/sync.go).        *)
(*                                                                         *)
(* Every action is one write transaction, and SQLite runs them one at a    *)
(* time.  A request carries the versions its client has seen; with others  *)
(* than the current ones it changes nothing, so only the others are        *)
(* actions.  Names, confidence and times are left out.                     *)
(***************************************************************************)
EXTENDS Naturals, FiniteSets

CONSTANTS
    Tasks,          \* torrent instances
    Downloaders,
    Home,           \* Home[t]: the downloader of t
    AutoGroups,     \* groups named by what automatic grouping hashes
    Uuids,          \* groups named by an edit
    Suggests,       \* Suggests[t]: the automatic groups t may be found to belong to
    Operations,     \* the IDs of edits, as many as TLC explores
    MaxVersion,     \* bound: the version an edit or a restore may still lead to
    MaxLocked       \* bound: the version a lock may still lead to

VARIABLES
    task,           \* torrent_instances, tombstones included
    group,          \* content_groups, retired ones (deleted_at) included
    operation,      \* group_operations: what the payload says
    configured      \* downloaders

vars == <<task, group, operation, configured>>

ASSUME NameAssumption == AutoGroups \cap Uuids = {}
ASSUME HomeAssumption == Home \in [Tasks -> Downloaders]
ASSUME SuggestAssumption == Suggests \in [Tasks -> SUBSET AutoGroups]

TasksOf(d) == {t \in Tasks : Home[t] = d}

Active == {t \in DOMAIN task : task[t].active}

Live == {g \in DOMAIN group : ~group[g].retired}

Members(g) == {t \in Active : task[t].content = g}

Place(t) == [content |-> task[t].content, manual |-> task[t].manual]

\* A new row: version 1, unlocked and in use.
Row(manual) == [version |-> 1, manual |-> manual, locked |-> FALSE, retired |-> FALSE]

-----------------------------------------------------------------------------
(* What the program does by itself.                                         *)

\* What a sync may report: a suggestion for each task it shows, and which others
\* of the downloader are gone (all of them when the snapshot is complete).
Batches(d) ==
    UNION {{batch \in [S -> AutoGroups] : \A t \in S : batch[t] \in Suggests[t]} : S \in SUBSET TasksOf(d)}

Pinned(t) == t \in DOMAIN task /\ task[t].manual

\* Mutant: no upsert for a task that stays where it is.
UpsertPlaced(batch) ==
    group' = [g \in DOMAIN group \cup {batch[t] : t \in {u \in DOMAIN batch : ~Pinned(u)}} |->
        IF g \in DOMAIN group THEN group[g] ELSE Row(FALSE)]

\* The upsert of a suggested group leaves one that exists as it is, retired or not.
UpsertGroups(batch) ==
    group' = [g \in DOMAIN group \cup {batch[t] : t \in DOMAIN batch} |->
        IF g \in DOMAIN group THEN group[g] ELSE Row(FALSE)]

\* A manual placement survives, a tombstone included; an automatic one follows.
UpsertTasks(batch, gone) ==
    task' = [t \in DOMAIN task \cup DOMAIN batch |->
        IF t \in DOMAIN batch
        THEN [active |-> TRUE, suggested |-> batch[t], manual |-> Pinned(t),
              content |-> IF Pinned(t) THEN task[t].content ELSE batch[t]]
        ELSE [task[t] EXCEPT !.active = @ /\ t \notin gone]]

ApplySync(d, batch, gone) ==
    /\ d \in configured
    /\ gone \subseteq TasksOf(d) \ DOMAIN batch
    /\ UpsertGroups(batch)
    /\ UpsertTasks(batch, gone)
    /\ UNCHANGED <<operation, configured>>

\* The tasks go with their downloader; configured again, it has another ID and
\* so have its tasks.
DeleteDownloader(d) ==
    /\ d \in configured
    /\ configured' = configured \ {d}
    /\ task' = [t \in DOMAIN task \ TasksOf(d) |-> task[t]]
    /\ UNCHANGED <<group, operation>>

-----------------------------------------------------------------------------
(* Edits that are journalled.                                               *)

\* Mutant: an edit that forgets the version.
EditedUnversioned(row) == [row EXCEPT !.manual = TRUE]

\* A group that loses or gains members by hand becomes manual.
Edited(row) == [row EXCEPT !.version = @ + 1, !.manual = TRUE]

Retired(row) == [row EXCEPT !.version = @ + 1, !.retired = TRUE]

\* Mutant: the journal takes every placement for an automatic one.
PayloadUnpinned(moved, target, sources, created) ==
    [was |-> [t \in moved |-> [Place(t) EXCEPT !.manual = FALSE]], target |-> target,
     groups |-> [g \in sources |-> group[g]], created |-> created,
     after |-> [g \in sources \cup created |-> group'[g].version],
     retires |-> {g \in sources : group'[g].retired}, undone |-> FALSE]

\* Where the tasks were, the groups before the edit, and what it made of them.
Payload(moved, target, sources, created) ==
    [was |-> [t \in moved |-> Place(t)], target |-> target,
     groups |-> [g \in sources |-> group[g]], created |-> created,
     after |-> [g \in sources \cup created |-> group'[g].version],
     retires |-> {g \in sources : group'[g].retired}, undone |-> FALSE]

\* The rows of the tasks and of the journal, for all three edits.
Regroup(o, moved, target, sources, created) ==
    /\ task' = [t \in DOMAIN task |-> IF t \in moved
            THEN [task[t] EXCEPT !.content = target, !.manual = TRUE] ELSE task[t]]
    /\ operation' = [p \in DOMAIN operation \cup {o} |->
            IF p = o THEN Payload(moved, target, sources, created) ELSE operation[p]]
    /\ UNCHANGED configured

SplitGroup(o, g, moved, new) ==
    /\ o \notin DOMAIN operation /\ new \notin DOMAIN group
    /\ g \in Live
    /\ moved # {} /\ moved \subseteq Members(g)
    /\ group' = [h \in DOMAIN group \cup {new} |->
            IF h = new THEN Row(TRUE) ELSE IF h = g THEN Edited(group[h]) ELSE group[h]]
    /\ Regroup(o, moved, new, {g}, {new})

MoveInstance(o, t, target) ==
    LET sources == {task[t].content, target}
    IN  /\ o \notin DOMAIN operation
        /\ t \in Active /\ target # task[t].content
        /\ sources \subseteq Live
        /\ group' = [h \in DOMAIN group |-> IF h \in sources THEN Edited(group[h]) ELSE group[h]]
        /\ Regroup(o, {t}, target, sources, {})

\* The merged groups keep their tombstoned members.
MergeGroups(o, sources, new) ==
    LET moved == UNION {Members(g) : g \in sources}
    IN  /\ o \notin DOMAIN operation /\ new \notin DOMAIN group
        /\ sources \subseteq Live /\ Cardinality(sources) > 1
        /\ moved # {}
        /\ group' = [h \in DOMAIN group \cup {new} |->
                IF h = new THEN Row(TRUE) ELSE IF h \in sources THEN Retired(group[h]) ELSE group[h]]
        /\ Regroup(o, moved, new, sources, {new})

Affected(o) == DOMAIN operation[o].after

GroupsAsLeft(o) ==
    \A g \in Affected(o) :
        /\ group[g].version = operation[o].after[g]
        /\ group[g].retired <=> g \in operation[o].retires

TasksAsLeft(o) ==
    \A t \in DOMAIN operation[o].was :
        t \in Active /\ Place(t) = [content |-> operation[o].target, manual |-> TRUE]

\* Mutants: an undo that checks the tasks alone, or not the versions.
UndoableByTasks(o) == ~operation[o].undone /\ TasksAsLeft(o)

UndoableUnversioned(o) ==
    /\ ~operation[o].undone
    /\ \A g \in Affected(o) : group[g].retired <=> g \in operation[o].retires
    /\ TasksAsLeft(o)

\* An edit can be undone once, while its groups and tasks are as it left them.
Undoable(o) == ~operation[o].undone /\ GroupsAsLeft(o) /\ TasksAsLeft(o)

UndoGroupOperation(o) ==
    LET payload == operation[o]
    IN  /\ Undoable(o)
        /\ group' = [g \in DOMAIN group |->
                IF g \in DOMAIN payload.groups THEN [payload.groups[g] EXCEPT !.version = payload.after[g] + 1]
                ELSE IF g \in payload.created THEN Retired(group[g])
                ELSE group[g]]
        /\ task' = [t \in DOMAIN task |->
                IF t \in DOMAIN payload.was
                THEN [task[t] EXCEPT !.content = payload.was[t].content, !.manual = payload.was[t].manual]
                ELSE task[t]]
        /\ operation' = [operation EXCEPT ![o].undone = TRUE]
        /\ UNCHANGED configured

-----------------------------------------------------------------------------
(* Edits that are not.                                                      *)

SetGroupLock(g, locked) ==
    /\ g \in Live
    /\ group' = [group EXCEPT ![g].version = @ + 1, ![g].locked = locked]
    /\ UNCHANGED <<task, operation, configured>>

\* Every member goes where the last sync suggested, tombstones with such a suggestion
\* as well; those groups come back into use, then the group itself is retired,
\* even when it is one of them.
RestoreAutomaticGroup(g) ==
    LET targets == {task[t].suggested : t \in Members(g)}
    IN  /\ g \in Live
        /\ Members(g) # {}
        /\ task' = [t \in DOMAIN task |->
                IF task[t].content = g /\ task[t].suggested \in targets
                THEN [task[t] EXCEPT !.content = task[t].suggested, !.manual = FALSE]
                ELSE task[t]]
        /\ group' = [h \in DOMAIN group |->
                IF h = g THEN Retired(group[h])
                ELSE IF h \in targets THEN [group[h] EXCEPT !.retired = FALSE]
                ELSE group[h]]
        /\ UNCHANGED <<operation, configured>>

-----------------------------------------------------------------------------

Init ==
    /\ task = << >>
    /\ group = << >>
    /\ operation = << >>
    /\ configured = Downloaders

Bounded(max) == \A g \in DOMAIN group : group[g].version <= max

Sync ==
    \E d \in Downloaders : \E batch \in Batches(d) : \E gone \in SUBSET TasksOf(d) :
        ApplySync(d, batch, gone)

Delete == \E d \in Downloaders : DeleteDownloader(d)

Split ==
    \E o \in Operations, g \in Live, new \in Uuids : \E moved \in SUBSET Members(g) :
        SplitGroup(o, g, moved, new) /\ Bounded(MaxVersion)'

Move ==
    \E o \in Operations, t \in Active, target \in Live :
        MoveInstance(o, t, target) /\ Bounded(MaxVersion)'

Merge ==
    \E o \in Operations, sources \in SUBSET Live, new \in Uuids :
        MergeGroups(o, sources, new) /\ Bounded(MaxVersion)'

Undo == \E o \in DOMAIN operation : UndoGroupOperation(o)

Lock == \E g \in Live, locked \in BOOLEAN : SetGroupLock(g, locked) /\ Bounded(MaxLocked)'

Restore == \E g \in Live : RestoreAutomaticGroup(g) /\ Bounded(MaxVersion)'

Next == Sync \/ Delete \/ Split \/ Move \/ Merge \/ Undo \/ Lock \/ Restore

Spec == Init /\ [][Next]_vars

-----------------------------------------------------------------------------
(* Properties.                                                              *)

GroupType == [version : Nat \ {0}, manual : BOOLEAN, locked : BOOLEAN, retired : BOOLEAN]

TaskRows ==
    /\ DOMAIN task \subseteq {t \in Tasks : Home[t] \in configured}
    /\ \A t \in DOMAIN task :
            task[t] \in [active : BOOLEAN, content : DOMAIN group, manual : BOOLEAN,
                         suggested : DOMAIN group \cap AutoGroups]

GroupRows ==
    /\ DOMAIN group \subseteq AutoGroups \cup Uuids
    /\ \A g \in DOMAIN group : group[g] \in GroupType

JournalRow(row) ==
    /\ DOMAIN row = {"was", "target", "groups", "created", "after", "retires", "undone"}
    /\ DOMAIN row.after = DOMAIN row.groups \cup row.created
    /\ DOMAIN row.after \subseteq DOMAIN group
    /\ \A g \in DOMAIN row.after : row.after[g] \in Nat
    /\ row.target \in DOMAIN row.after
    /\ row.created \subseteq Uuids \ DOMAIN row.groups
    /\ \A g \in DOMAIN row.groups : row.groups[g] \in GroupType
    /\ \A t \in DOMAIN row.was : row.was[t] \in [content : DOMAIN row.groups, manual : BOOLEAN]
    /\ row.undone \in BOOLEAN

\* Every task names a group that has a row, and so does its suggestion; the journal
\* names groups that have rows (store/migrations/001_init.sql:48-103).
TypeOK ==
    /\ TaskRows
    /\ GroupRows
    /\ DOMAIN operation \subseteq Operations
    /\ \A o \in DOMAIN operation : JournalRow(operation[o])
    /\ configured \subseteq Downloaders

\* Of the edits of one group at most one can be undone, the last: whatever came
\* between, the versions never make an older edit look current again.
OneUndoPerGroup ==
    \A o, p \in DOMAIN operation :
        o # p /\ Undoable(o) /\ Undoable(p) => Affected(o) \cap Affected(p) = {}

\* A group that an undo retired never comes back: no other undo, restore or sync
\* revives it (UndoGroupOperation, RestoreAutomaticGroup).
UndoneStaysUndone ==
    \A o \in DOMAIN operation : operation[o].undone =>
        \A g \in operation[o].created : group[g].retired

\* The members of a group that an edit created are placed there by hand, so no sync
\* takes them out of it (ApplySync), whichever edits and undos brought them there.
CreatedGroupsPinned == \A t \in DOMAIN task : task[t].content \in Uuids => task[t].manual

\* Tasks in use whose group is not: no list of groups shows them (groups.go:264-274),
\* and the planner does not find their group (deletions.go:215-218).
Stranded == {t \in Active : task[t].content \notin Live}

\* No split, move, merge or undo (the steps that write the journal) leaves a task in
\* a group that is not in use.
EditsKeepTasksListed == [][operation' # operation => Stranded' \subseteq Stranded]_vars

SelfSuggested(g) == \E t \in Members(g) : task[t].suggested = g

\* Task t has entered a group that was out of use, or was a tombstone there.
EntersRetired(t) ==
    /\ task'[t].content \in DOMAIN group \ Live
    /\ t \notin Active \/ task'[t].content # task[t].content

\* A task that is listed stays so, whatever edits, undos, locks and removed
\* downloaders do: it is lost only by a sync that brings it into a group retired
\* before, or by the restore of a group that is a suggestion for one of its members.
TasksStayListed ==
    [][\/ Stranded' \subseteq Stranded
       \/ Sync /\ \A t \in Stranded' \ Stranded : EntersRetired(t)
       \/ \E g \in Live : RestoreAutomaticGroup(g) /\ SelfSuggested(g)]_vars

\* Restoring the automatic grouping of a manual group leaves its tasks listed
\* (the button of TorrentGroupsPage.tsx:470-481).
RestoreKeepsTasksListed ==
    [][\A g \in Live : group[g].manual /\ RestoreAutomaticGroup(g) => Stranded' \subseteq Stranded]_vars

\* Whatever a sync finds, no task ends up in a group that a merge took out of use and
\* no undo brought back: nobody would see it (ApplySync after MergeGroups).
MergedGroupsTakeNoTask ==
    [][Sync => \A o \in DOMAIN operation : ~operation[o].undone =>
        \A t \in Stranded' \ Stranded : task'[t].content \notin operation[o].retires]_vars
=============================================================================
