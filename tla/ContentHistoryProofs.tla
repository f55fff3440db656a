------------------------ MODULE ContentHistoryProofs -----------------------
(***************************************************************************)
(* Proof about ContentHistory, for any tasks, groups and operations: an    *)
(* undo brings back the picture before its edit, whatever happened since.  *)
(***************************************************************************)
EXTENDS ContentHistory, ContentGroupsProofs

\* What the journal says of an edit is what it changed between the two pictures.
Recorded(o) ==
    LET row == operation[o]
        before == past[o].before
        after == past[o].after
    IN  /\ \A t \in DOMAIN row.was : t \in DOMAIN before.place /\ before.place[t] = row.was[t]
        /\ \A t \in DOMAIN before.place : before.place[t] # after.place[t] <=> t \in DOMAIN row.was
        /\ \A g \in DOMAIN row.groups :
                g \in DOMAIN before.group /\ before.group[g] = [row.groups[g] EXCEPT !.version = 0]
        /\ \A g \in DOMAIN before.group : before.group[g] # after.group[g] => g \in DOMAIN row.groups
        /\ DOMAIN after.group \subseteq DOMAIN before.group \cup row.created

AllRecorded == \A o \in DOMAIN operation : ~operation[o].undone => Recorded(o)

HistoryInv == Inv /\ AllRecorded

\* Each of the three edits puts its tasks into another group.
LEMMA EditsDisplace ==
    ASSUME TypeOK, Split \/ Move \/ Merge
    PROVE  \E o, moved, target, sources, created :
                /\ EditStep(o, moved, target, sources, created)
                /\ \A t \in moved : task[t].content # target
  <1>1. CASE Split
    <2>1. PICK o \in Operations, g \in Live, new \in Uuids : \E moved \in SUBSET Members(g) : SplitGroup(o, g, moved, new)
      BY <1>1 DEF Split
    <2>2. PICK moved \in SUBSET Members(g) : SplitGroup(o, g, moved, new)
      BY <2>1
    <2>3. EditStep(o, moved, new, {g}, {new})
      BY <2>2, SplitEdits
    <2>4. \A t \in moved : task[t].content # new
      BY <2>2 DEF SplitGroup, Members, Live
    <2>5. QED
      BY <2>3, <2>4
  <1>2. CASE Move
    <2>1. PICK o \in Operations, t \in Active, target \in Live : MoveInstance(o, t, target)
      BY <1>2 DEF Move
    <2>2. EditStep(o, {t}, target, {task[t].content, target}, {})
      BY <2>1, MoveEdits
    <2>3. task[t].content # target
      BY <2>1 DEF MoveInstance
    <2>4. QED
      BY <2>2, <2>3
  <1>3. CASE Merge
    <2>1. PICK o \in Operations, sources \in SUBSET Live, new \in Uuids : MergeGroups(o, sources, new)
      BY <1>3 DEF Merge
    <2> DEFINE moved == UNION {Members(g) : g \in sources}
    <2>2. EditStep(o, moved, new, sources, {new})
      BY <2>1, MergeEdits
    <2>3. \A t \in moved : task[t].content # new
      BY <2>1 DEF MergeGroups, Members, Live
    <2> HIDE DEF moved
    <2>4. QED
      BY <2>2, <2>3
  <1>4. QED
    BY <1>1, <1>2, <1>3

\* The pictures of a new edit differ in what its journal row names.
LEMMA EditIsRecorded ==
    ASSUME TypeOK, NEW o, NEW moved, NEW target, NEW sources, NEW created,
           EditStep(o, moved, target, sources, created), \A t \in moved : task[t].content # target,
           past'[o] = [before |-> Picture, after |-> Picture']
    PROVE  Recorded(o)'
  <1> DEFINE row == operation'[o]
             before == past'[o].before
             after == past'[o].after
  <1>0. before = Picture /\ after = Picture'
    OBVIOUS
  <1>a. EditStep(o, moved, target, sources, created)
    OBVIOUS
  <1>b. operation'[o] = Payload(moved, target, sources, created)
    BY <1>a DEF EditStep, Regroup
  <1>2. /\ DOMAIN row.was = moved /\ \A t \in moved : row.was[t] = Place(t)
        /\ DOMAIN row.groups = sources /\ \A g \in sources : row.groups[g] = group[g]
        /\ row.created = created
    BY <1>b DEF Payload
  <1> HIDE DEF row, before, after
  <1>1. /\ DOMAIN before.place = DOMAIN task /\ DOMAIN before.group = DOMAIN group
        /\ DOMAIN after.group = DOMAIN group'
        /\ \A t \in DOMAIN task : before.place[t] = Place(t) /\ after.place[t] = Place(t)'
        /\ \A g \in DOMAIN group : before.group[g] = [group[g] EXCEPT !.version = 0]
        /\ \A g \in DOMAIN group' : after.group[g] = [group'[g] EXCEPT !.version = 0]
    <2>1. DOMAIN task' = DOMAIN task
      BY <1>a, EditRows
    <2>2. QED
      BY <1>0, <2>1 DEF Picture
  <1>3. moved \subseteq DOMAIN task /\ sources \subseteq DOMAIN group
    BY DEF EditStep, Active, Live
  <1>4. ASSUME NEW t \in DOMAIN task PROVE before.place[t] # after.place[t] <=> t \in moved
    <2>1. CASE t \in moved
      <3>1. task'[t].content # task[t].content
        BY <1>3, <2>1, EditMoves DEF TypeOK
      <3>2. Place(t).content = task[t].content /\ Place(t)'.content = task'[t].content
        BY DEF Place
      <3>3. QED
        BY <1>1, <2>1, <3>1, <3>2
    <2>2. CASE t \notin moved
      <3>1. task'[t] = task[t]
        BY <2>2, EditRows
      <3>2. Place(t)' = Place(t)
        BY <3>1 DEF Place
      <3>3. QED
        BY <1>1, <2>2, <3>2
    <2>3. QED
      BY <2>1, <2>2
  <1>5. ASSUME NEW g \in DOMAIN group, before.group[g] # after.group[g] PROVE g \in sources
    <2>1. g \in DOMAIN group'
      BY DEF EditStep
    <2>2. [group'[g] EXCEPT !.version = 0] # [group[g] EXCEPT !.version = 0]
      BY <1>1, <1>5, <2>1
    <2>3. group'[g] # group[g]
      BY <2>2
    <2>4. QED
      BY <2>3 DEF EditStep
  <1>6. DOMAIN after.group \subseteq DOMAIN before.group \cup created
    BY <1>1 DEF EditStep
  <1>7. /\ \A t \in DOMAIN row.was : t \in DOMAIN before.place /\ before.place[t] = row.was[t]
        /\ \A g \in DOMAIN row.groups :
                g \in DOMAIN before.group /\ before.group[g] = [row.groups[g] EXCEPT !.version = 0]
    BY <1>1, <1>2, <1>3
  <1>8. QED
    BY <1>1, <1>2, <1>4, <1>5, <1>6, <1>7 DEF Recorded, row, before, after

\* What has been recorded of an edit stays true of it.
LEMMA RecordStays ==
    ASSUME NEW p \in DOMAIN operation, Recorded(p), past'[p] = past[p],
           operation'[p].was = operation[p].was, operation'[p].groups = operation[p].groups,
           operation'[p].created = operation[p].created
    PROVE  Recorded(p)'
  BY DEF Recorded

LEMMA HistoryStep == ASSUME HistoryInv, HistoryNext PROVE AllRecorded'
  <1>0. TypeOK
    BY DEF HistoryInv, Inv
  <1>a. ASSUME NEW p \in DOMAIN operation', ~operation'[p].undone, p \in DOMAIN operation
        PROVE  past'[p] = past[p]
    BY <1>a DEF HistoryNext
  <1>1. CASE Split \/ Move \/ Merge
    <2>1. PICK o, moved, target, sources, created :
                EditStep(o, moved, target, sources, created) /\ \A t \in moved : task[t].content # target
      BY <1>0, <1>1, EditsDisplace
    <2>a. o \notin DOMAIN operation
      BY <2>1 DEF EditStep
    <2>2. /\ DOMAIN operation' = DOMAIN operation \cup {o} /\ o \notin DOMAIN operation
          /\ \A p \in DOMAIN operation : operation'[p] = operation[p]
      BY <2>1, <2>a, EditRows
    <2>3. operation'[o].undone = FALSE
      BY <2>1, EditPayload
    <2>4. past'[o] = [before |-> Picture, after |-> Picture']
      BY <2>2, <2>3 DEF HistoryNext
    <2>5. Recorded(o)'
      BY <1>0, <2>1, <2>4, EditIsRecorded
    <2>6. ASSUME NEW p \in DOMAIN operation, ~operation'[p].undone PROVE Recorded(p)'
      <3>1. past'[p] = past[p] /\ operation'[p] = operation[p]
        BY <1>a, <2>2, <2>6
      <3>2. Recorded(p)
        BY <2>6, <3>1 DEF HistoryInv, AllRecorded
      <3>3. QED
        BY <3>1, <3>2, RecordStays
    <2>7. QED
      BY <2>2, <2>5, <2>6 DEF AllRecorded
  <1>2. CASE Undo
    <2>1. PICK o \in DOMAIN operation : UndoGroupOperation(o)
      BY <1>2 DEF Undo
    <2>2. operation' = [operation EXCEPT ![o].undone = TRUE]
      BY <2>1 DEF UndoGroupOperation
    <2>3. operation'[o].undone
      <3>1. "undone" \in DOMAIN operation[o]
        BY <1>0 DEF TypeOK, JournalRow
      <3>2. QED
        BY <2>2, <3>1
    <2>4. ASSUME NEW p \in DOMAIN operation', ~operation'[p].undone PROVE Recorded(p)'
      <3>1. p \in DOMAIN operation /\ p # o /\ operation'[p] = operation[p]
        BY <2>2, <2>3, <2>4
      <3>2. past'[p] = past[p] /\ Recorded(p)
        BY <1>a, <2>4, <3>1 DEF HistoryInv, AllRecorded
      <3>3. QED
        BY <3>1, <3>2, RecordStays
    <2>5. QED
      BY <2>4 DEF AllRecorded
  <1>3. CASE operation' = operation
    <2>1. ASSUME NEW p \in DOMAIN operation', ~operation'[p].undone PROVE Recorded(p)'
      <3>1. past'[p] = past[p] /\ Recorded(p)
        BY <1>a, <1>3, <2>1 DEF HistoryInv, AllRecorded
      <3>2. QED
        BY <1>3, <3>1, RecordStays
    <2>2. QED
      BY <2>1 DEF AllRecorded
  <1>4. Sync \/ Delete \/ Lock \/ Restore => operation' = operation
    BY DEF Sync, ApplySync, Delete, DeleteDownloader, Lock, SetGroupLock, Restore, RestoreAutomaticGroup
  <1>5. QED
    BY <1>1, <1>2, <1>3, <1>4 DEF HistoryNext, Next

LEMMA UndoRestores ==
    ASSUME HistoryInv, NEW o \in DOMAIN operation, UndoGroupOperation(o)
    PROVE  RestoredTo(past[o].before, past[o].after)
  <1> DEFINE row == operation[o]
             before == past[o].before
             after == past[o].after
  <1>1. Inv /\ JournalRow(row) /\ Recorded(o)
    BY DEF HistoryInv, AllRecorded, Inv, TypeOK, UndoGroupOperation, Undoable
  <1>2. /\ \A t \in DOMAIN row.was : t \in DOMAIN before.place /\ before.place[t] = row.was[t]
        /\ \A t \in DOMAIN before.place : before.place[t] # after.place[t] <=> t \in DOMAIN row.was
        /\ \A g \in DOMAIN row.groups :
                g \in DOMAIN before.group /\ before.group[g] = [row.groups[g] EXCEPT !.version = 0]
        /\ \A g \in DOMAIN before.group : before.group[g] # after.group[g] => g \in DOMAIN row.groups
        /\ DOMAIN after.group \subseteq DOMAIN before.group \cup row.created
    BY <1>1 DEF Recorded
  <1>3. /\ \A t \in DOMAIN row.was : row.was[t] \in [content : DOMAIN row.groups, manual : BOOLEAN]
        /\ \A g \in DOMAIN row.groups : row.groups[g] \in GroupType
    BY <1>1 DEF JournalRow
  <1>4. /\ DOMAIN task' = DOMAIN task
        /\ \A t \in DOMAIN task : t \in DOMAIN row.was =>
                task'[t].content = row.was[t].content /\ task'[t].manual = row.was[t].manual
        /\ \A t \in DOMAIN task : t \notin DOMAIN row.was => task'[t] = task[t]
    BY <1>1, UndoTasks
  <1>5. /\ DOMAIN group' = DOMAIN group
        /\ \A g \in row.created : group'[g].retired
    BY <1>1, UndoGroups
  <1>6. \A g \in DOMAIN group : g \in DOMAIN row.groups =>
            group'[g] = [row.groups[g] EXCEPT !.version = row.after[g] + 1]
    BY DEF UndoGroupOperation
  <1>7. /\ \A t \in DOMAIN task : Picture'.place[t] = Place(t)'
        /\ \A g \in DOMAIN group : Picture'.group[g] = [group'[g] EXCEPT !.version = 0]
    BY <1>4, <1>5 DEF Picture
  <1> HIDE DEF row, before, after
  <1>8. ASSUME NEW t \in DOMAIN task
        PROVE  Picture'.place[t] = IF t \in DOMAIN before.place /\ before.place[t] # after.place[t]
                                   THEN before.place[t] ELSE Place(t)
    <2>1. CASE t \in DOMAIN row.was
      <3>1. Place(t)' = [content |-> row.was[t].content, manual |-> row.was[t].manual]
        BY <1>4, <2>1 DEF Place
      <3>2. Place(t)' = row.was[t]
        BY <1>3, <2>1, <3>1
      <3>3. QED
        BY <1>2, <1>7, <2>1, <3>2
    <2>2. CASE t \notin DOMAIN row.was
      <3>1. Place(t)' = Place(t)
        BY <1>4, <2>2 DEF Place
      <3>2. QED
        BY <1>2, <1>7, <2>2, <3>1
    <2>3. QED
      BY <2>1, <2>2
  <1>9. ASSUME NEW g \in DOMAIN group
        PROVE  IF g \in DOMAIN before.group
               THEN before.group[g] # after.group[g] => Picture'.group[g] = before.group[g]
               ELSE g \in DOMAIN after.group => group'[g].retired
    <2>1. ASSUME g \in DOMAIN row.groups PROVE Picture'.group[g] = before.group[g]
      <3> DEFINE r == row.groups[g]
                 n == row.after[g] + 1
      <3>1. r \in GroupType /\ group'[g] = [r EXCEPT !.version = n]
        BY <1>3, <1>6, <2>1
      <3>2. before.group[g] = [r EXCEPT !.version = 0]
        BY <1>2, <2>1
      <3> HIDE DEF r, n
      <3>3. [group'[g] EXCEPT !.version = 0] = [r EXCEPT !.version = 0]
        BY <3>1 DEF GroupType
      <3>4. QED
        BY <1>7, <3>2, <3>3
    <2>2. QED
      BY <1>2, <1>5, <2>1
  <1>10. QED
    BY <1>8, <1>9 DEF RestoredTo, before, after

\* However many edits, syncs, locks and restores lie between an edit and its undo,
\* the undo brings back what the edit changed and touches nothing else.
THEOREM UndosRestore == HistorySpec => UndoRestoresThePast
  <1> DEFINE Restores == \A o \in DOMAIN operation :
                UndoGroupOperation(o) => RestoredTo(past[o].before, past[o].after)
  <1>1. HistoryInit => HistoryInv
    BY InvInit DEF HistoryInit, HistoryInv, AllRecorded, Init
  <1>2. HistoryInv /\ [HistoryNext]_historyVars => HistoryInv'
    <2>1. ASSUME HistoryInv, HistoryNext PROVE HistoryInv'
      BY <2>1, HistoryStep, InvStep DEF HistoryInv, HistoryNext
    <2>2. ASSUME HistoryInv, UNCHANGED historyVars PROVE HistoryInv'
      <3>1. UNCHANGED vars /\ past' = past
        BY <2>2 DEF historyVars
      <3>2. Inv'
        BY <2>2, <3>1, InvStep DEF HistoryInv
      <3>3. operation' = operation
        BY <3>1 DEF vars
      <3>4. QED
        BY <2>2, <3>1, <3>2, <3>3 DEF HistoryInv, AllRecorded, Recorded
    <2>3. QED
      BY <2>1, <2>2
  <1>3. HistoryInv => [Restores]_historyVars
    BY UndoRestores
  <1>4. QED
    BY <1>1, <1>2, <1>3, PTL DEF HistorySpec, UndoRestoresThePast
=============================================================================
