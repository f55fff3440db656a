------------------------ MODULE ContentGroupsProofs ------------------------
(***************************************************************************)
(* Proofs about ContentGroups, for any tasks, groups and operations: the   *)
(* rows fit together, and no undo acts on what it did not leave behind.    *)
(***************************************************************************)
EXTENDS ContentGroups, TLAPS

After(o, g) == operation[o].after[g]

\* A group never falls behind what the journal recorded of it.
VersionsGrow ==
    \A o \in DOMAIN operation : \A g \in Affected(o) : After(o, g) <= group[g].version

\* No two edits left a group at the same version.
VersionsDiffer ==
    \A o, p \in DOMAIN operation : o # p =>
        \A g \in Affected(o) \cap Affected(p) : After(o, g) # After(p, g)

\* What an undo retired has passed every version the journal knows.
UndoneIsOver ==
    \A o \in DOMAIN operation : operation[o].undone =>
        \A g \in operation[o].created :
            /\ group[g].retired
            /\ \A p \in DOMAIN operation : g \in Affected(p) => After(p, g) < group[g].version

\* A created group that nothing has touched since holds what the edit put there.
CreatedAsRecorded ==
    \A o \in DOMAIN operation : \A g \in operation[o].created :
        group[g].version = After(o, g) =>
            \A t \in DOMAIN task : task[t].content = g => t \in DOMAIN operation[o].was

\* The journal remembers hand-made placements as such.
PinnedBefore ==
    \A o \in DOMAIN operation : \A t \in DOMAIN operation[o].was :
        operation[o].was[t].content \in Uuids => operation[o].was[t].manual

\* An edit starts from groups in use.
SavedInUse ==
    \A o \in DOMAIN operation : \A g \in DOMAIN operation[o].groups : ~operation[o].groups[g].retired

JournalInv ==
    /\ VersionsGrow /\ VersionsDiffer /\ UndoneIsOver
    /\ CreatedAsRecorded /\ PinnedBefore /\ SavedInUse

Inv == TypeOK /\ CreatedGroupsPinned /\ JournalInv

-----------------------------------------------------------------------------
(* What the three edits have in common.                                     *)

EditStep(o, moved, target, sources, created) ==
    /\ o \in Operations \ DOMAIN operation
    /\ created \subseteq Uuids \ DOMAIN group
    /\ sources \subseteq Live
    /\ target \in sources \cup created /\ created \subseteq {target}
    /\ moved \subseteq Active
    /\ \A t \in moved : task[t].content \in sources
    /\ DOMAIN group' = DOMAIN group \cup created
    /\ \A g \in created : group'[g] = Row(TRUE)
    /\ \A g \in DOMAIN group \ sources : group'[g] = group[g]
    /\ \A g \in sources : group'[g] \in GroupType /\ group'[g].version = group[g].version + 1
    /\ \A g \in sources : group'[g].retired => g # target /\ Members(g) \subseteq moved
    /\ Regroup(o, moved, target, sources, created)

LEMMA RowUpdates ==
    ASSUME NEW row \in GroupType, NEW n \in Nat \ {0}
    PROVE  /\ [row EXCEPT !.version = n, !.manual = TRUE] \in GroupType
           /\ [row EXCEPT !.version = n, !.retired = TRUE] \in GroupType
  BY DEF GroupType

LEMMA EditedRow ==
    ASSUME NEW row \in GroupType
    PROVE  /\ Edited(row) \in GroupType
           /\ Edited(row).version = row.version + 1
           /\ Edited(row).retired = row.retired
  <1>1. row.version + 1 \in Nat \ {0}
    BY DEF GroupType
  <1>2. Edited(row) \in GroupType
    BY <1>1, RowUpdates DEF Edited
  <1>3. QED
    BY <1>2 DEF Edited, GroupType

LEMMA RetiredRow ==
    ASSUME NEW row \in GroupType
    PROVE  /\ Retired(row) \in GroupType
           /\ Retired(row).version = row.version + 1
           /\ Retired(row).retired
  <1>1. row.version + 1 \in Nat \ {0}
    BY DEF GroupType
  <1>2. Retired(row) \in GroupType
    BY <1>1, RowUpdates DEF Retired
  <1>3. QED
    BY <1>2 DEF Retired, GroupType

LEMMA SplitEdits ==
    ASSUME TypeOK, NEW o \in Operations, NEW g \in Live, NEW new \in Uuids,
           NEW moved \in SUBSET Members(g), SplitGroup(o, g, moved, new)
    PROVE  EditStep(o, moved, new, {g}, {new})
  <1>1. g \in DOMAIN group /\ new \notin DOMAIN group /\ ~group[g].retired
    BY DEF Live, SplitGroup
  <1>2. group' = [h \in DOMAIN group \cup {new} |->
            IF h = new THEN Row(TRUE) ELSE IF h = g THEN Edited(group[h]) ELSE group[h]]
    BY DEF SplitGroup
  <1>3. group[g] \in GroupType
    BY <1>1 DEF TypeOK, GroupRows
  <1>4. group'[g] = Edited(group[g])
    BY <1>1, <1>2
  <1>5. group'[g] \in GroupType /\ group'[g].version = group[g].version + 1 /\ ~group'[g].retired
    BY <1>1, <1>3, <1>4, EditedRow
  <1>6. moved \subseteq Active /\ \A t \in moved : task[t].content = g
    BY DEF Members
  <1>7. Regroup(o, moved, new, {g}, {new}) /\ o \notin DOMAIN operation
    BY DEF SplitGroup
  <1>8. DOMAIN group' = DOMAIN group \cup {new} /\ group'[new] = Row(TRUE)
    BY <1>2
  <1>9. \A h \in DOMAIN group \ {g} : group'[h] = group[h]
    BY <1>1, <1>2
  <1>10. QED
    BY <1>1, <1>5, <1>6, <1>7, <1>8, <1>9 DEF EditStep

LEMMA MoveEdits ==
    ASSUME TypeOK, NEW o \in Operations, NEW t \in Active, NEW target \in Live,
           MoveInstance(o, t, target)
    PROVE  EditStep(o, {t}, target, {task[t].content, target}, {})
  <1> DEFINE sources == {task[t].content, target}
  <1>1. sources \subseteq Live /\ o \notin DOMAIN operation
    BY DEF MoveInstance
  <1>2. group' = [h \in DOMAIN group |-> IF h \in sources THEN Edited(group[h]) ELSE group[h]]
    BY DEF MoveInstance
  <1>3. Regroup(o, {t}, target, sources, {})
    BY DEF MoveInstance
  <1>4. ASSUME NEW g \in sources
        PROVE  group'[g] \in GroupType /\ group'[g].version = group[g].version + 1 /\ ~group'[g].retired
    <2>1. g \in DOMAIN group /\ ~group[g].retired
      BY <1>1, <1>4 DEF Live
    <2>2. group[g] \in GroupType /\ group'[g] = Edited(group[g])
      BY <1>2, <1>4, <2>1 DEF TypeOK, GroupRows
    <2>3. QED
      BY <2>1, <2>2, EditedRow
  <1>5. DOMAIN group' = DOMAIN group /\ \A h \in DOMAIN group \ sources : group'[h] = group[h]
    BY <1>2
  <1> HIDE DEF sources
  <1>6. target \in sources /\ task[t].content \in sources
    BY DEF sources
  <1>7. EditStep(o, {t}, target, sources, {})
    BY <1>1, <1>3, <1>4, <1>5, <1>6 DEF EditStep
  <1>8. QED
    BY <1>7 DEF sources

LEMMA MergeEdits ==
    ASSUME TypeOK, NEW o \in Operations, NEW sources \in SUBSET Live, NEW new \in Uuids,
           MergeGroups(o, sources, new)
    PROVE  EditStep(o, UNION {Members(g) : g \in sources}, new, sources, {new})
  <1> DEFINE moved == UNION {Members(g) : g \in sources}
  <1>1. new \notin DOMAIN group /\ o \notin DOMAIN operation
    BY DEF MergeGroups
  <1>2. group' = [h \in DOMAIN group \cup {new} |->
            IF h = new THEN Row(TRUE) ELSE IF h \in sources THEN Retired(group[h]) ELSE group[h]]
    BY DEF MergeGroups
  <1>3. Regroup(o, moved, new, sources, {new})
    BY DEF MergeGroups
  <1>4. ASSUME NEW g \in sources
        PROVE  group'[g] \in GroupType /\ group'[g].version = group[g].version + 1 /\ g # new
    <2>1. g \in DOMAIN group
      BY <1>4 DEF Live
    <2>2. group[g] \in GroupType /\ group'[g] = Retired(group[g])
      BY <1>1, <1>2, <1>4, <2>1 DEF TypeOK, GroupRows
    <2>3. QED
      BY <1>1, <2>1, <2>2, RetiredRow
  <1>5. \A g \in sources : Members(g) \subseteq moved
    OBVIOUS
  <1>6. moved \subseteq Active /\ \A t \in moved : task[t].content \in sources
    BY DEF Members
  <1>7. DOMAIN group' = DOMAIN group \cup {new} /\ group'[new] = Row(TRUE)
    BY <1>2
  <1>8. \A h \in DOMAIN group \ sources : group'[h] = group[h]
    BY <1>1, <1>2
  <1> HIDE DEF moved
  <1>9. EditStep(o, moved, new, sources, {new})
    BY <1>1, <1>3, <1>4, <1>5, <1>6, <1>7, <1>8 DEF EditStep
  <1>10. QED
    BY <1>9 DEF moved

\* A task that is placed elsewhere.
LEMMA MovedRow ==
    ASSUME TaskRows, NEW t \in DOMAIN task, NEW g, NEW b \in BOOLEAN,
           task'[t] = [task[t] EXCEPT !.content = g, !.manual = b]
    PROVE  /\ task'[t].content = g /\ task'[t].manual = b
           /\ task'[t].active = task[t].active /\ task'[t].suggested = task[t].suggested
           /\ g \in DOMAIN group =>
                task'[t] \in [active : BOOLEAN, content : DOMAIN group, manual : BOOLEAN,
                              suggested : DOMAIN group \cap AutoGroups]
  BY DEF TaskRows

\* The rows an edit writes.
LEMMA EditRows ==
    ASSUME NEW o, NEW moved, NEW target, NEW sources, NEW created,
           EditStep(o, moved, target, sources, created)
    PROVE  /\ DOMAIN task' = DOMAIN task
           /\ \A t \in DOMAIN task \ moved : task'[t] = task[t]
           /\ DOMAIN operation' = DOMAIN operation \cup {o}
           /\ \A p \in DOMAIN operation : operation'[p] = operation[p]
           /\ configured' = configured
  BY DEF EditStep, Regroup

LEMMA EditMoves ==
    ASSUME TaskRows, NEW o, NEW moved, NEW target, NEW sources, NEW created,
           EditStep(o, moved, target, sources, created), NEW t \in moved \cap DOMAIN task
    PROVE  /\ task'[t].content = target /\ task'[t].manual
           /\ task'[t].active = task[t].active
           /\ task'[t] \in [active : BOOLEAN, content : DOMAIN group', manual : BOOLEAN,
                            suggested : DOMAIN group' \cap AutoGroups]
  <1>1. task'[t] = [task[t] EXCEPT !.content = target, !.manual = TRUE]
    BY DEF EditStep, Regroup
  <1>2. target \in DOMAIN group' /\ DOMAIN group \subseteq DOMAIN group'
    BY DEF EditStep, Live
  <1>3. QED
    BY <1>1, <1>2 DEF TaskRows

LEMMA EditPayload ==
    ASSUME NEW o, NEW moved, NEW target, NEW sources, NEW created,
           EditStep(o, moved, target, sources, created)
    PROVE  LET row == operation'[o]
           IN  /\ DOMAIN row.was = moved /\ \A t \in moved : row.was[t] = Place(t)
               /\ DOMAIN row.groups = sources /\ \A g \in sources : row.groups[g] = group[g]
               /\ row.created = created /\ row.target = target /\ row.undone = FALSE
               /\ DOMAIN row.after = sources \cup created
               /\ \A g \in sources \cup created : row.after[g] = group'[g].version
  <1>1. operation'[o] = Payload(moved, target, sources, created)
    BY DEF EditStep, Regroup
  <1>2. QED
    BY <1>1 DEF Payload

LEMMA EditPayloadDomain ==
    ASSUME NEW o, NEW moved, NEW target, NEW sources, NEW created,
           EditStep(o, moved, target, sources, created)
    PROVE  DOMAIN operation'[o] = {"was", "target", "groups", "created", "after", "retires", "undone"}
  <1>1. operation'[o] = Payload(moved, target, sources, created)
    BY DEF EditStep, Regroup
  <1>2. QED
    BY <1>1 DEF Payload

\* Groups are never deleted, so rows that fit go on fitting.
LEMMA RowsStayTyped ==
    ASSUME NEW t \in DOMAIN task, TaskRows, DOMAIN group \subseteq DOMAIN group'
    PROVE  task[t] \in [active : BOOLEAN, content : DOMAIN group', manual : BOOLEAN,
                        suggested : DOMAIN group' \cap AutoGroups]
  BY DEF TaskRows

LEMMA JournalStaysTyped ==
    ASSUME NEW row, JournalRow(row), DOMAIN group \subseteq DOMAIN group'
    PROVE  JournalRow(row)'
  BY DEF JournalRow

-----------------------------------------------------------------------------
(* An edit preserves the invariant.                                         *)

LEMMA EditKeepsTypes ==
    ASSUME Inv, NEW o, NEW moved, NEW target, NEW sources, NEW created,
           EditStep(o, moved, target, sources, created)
    PROVE  TypeOK' /\ CreatedGroupsPinned'
  <1>1. /\ DOMAIN group' = DOMAIN group \cup created /\ sources \subseteq DOMAIN group
        /\ target \in DOMAIN group' /\ created \subseteq Uuids \ DOMAIN group
        /\ moved \subseteq DOMAIN task /\ o \in Operations
    BY DEF EditStep, Live, Active
  <1>2. GroupRows'
    <2>1. Row(TRUE) \in GroupType
      BY DEF Row, GroupType
    <2>2. ASSUME NEW g \in DOMAIN group' PROVE group'[g] \in GroupType
      <3>1. CASE g \in created
        BY <2>1, <3>1 DEF EditStep
      <3>2. CASE g \in sources
        BY <3>2 DEF EditStep
      <3>3. CASE g \notin created /\ g \notin sources
        BY <1>1, <2>2, <3>3 DEF EditStep, Inv, TypeOK, GroupRows
      <3>4. QED
        BY <3>1, <3>2, <3>3
    <2>3. QED
      BY <1>1, <2>2 DEF Inv, TypeOK, GroupRows
  <1>3. TaskRows' /\ CreatedGroupsPinned'
    <2>1. ASSUME NEW t \in DOMAIN task
          PROVE  /\ task'[t] \in [active : BOOLEAN, content : DOMAIN group', manual : BOOLEAN,
                                  suggested : DOMAIN group' \cap AutoGroups]
                 /\ task'[t].content \in Uuids => task'[t].manual
      <3>0. /\ TaskRows /\ CreatedGroupsPinned /\ DOMAIN group \subseteq DOMAIN group'
            /\ task[t] \in [active : BOOLEAN, content : DOMAIN group', manual : BOOLEAN,
                            suggested : DOMAIN group' \cap AutoGroups]
        BY <1>1, RowsStayTyped DEF Inv, TypeOK
      <3>1. CASE t \in moved
        BY <2>1, <3>0, <3>1, EditMoves
      <3>2. CASE t \notin moved
        <4>1. task'[t] = task[t]
          BY <3>2, EditRows
        <4>2. QED
          BY <3>0, <4>1 DEF CreatedGroupsPinned
      <3>3. QED
        BY <3>1, <3>2
    <2>2. DOMAIN task' = DOMAIN task /\ configured' = configured
      BY EditRows
    <2>3. QED
      BY <2>1, <2>2 DEF Inv, TypeOK, TaskRows, CreatedGroupsPinned
  <1>4. ASSUME NEW p \in DOMAIN operation' PROVE JournalRow(operation[p])'
    <2>1. CASE p \in DOMAIN operation
      <3>1. operation'[p] = operation[p] /\ JournalRow(operation[p])
        BY <2>1, EditRows DEF Inv, TypeOK
      <3>2. QED
        BY <1>1, <3>1 DEF JournalRow
    <2>2. CASE p = o
      <3> DEFINE row == operation'[o]
      <3>2. \A t \in moved : Place(t) \in [content : sources, manual : BOOLEAN]
        BY <1>1 DEF EditStep, Place, Inv, TypeOK, TaskRows
      <3>3. \A g \in sources \cup created : g \in DOMAIN group' /\ group'[g].version \in Nat
        BY <1>1, <1>2 DEF GroupRows, GroupType
      <3>4. \A g \in sources : group[g] \in GroupType
        BY <1>1 DEF Inv, TypeOK, GroupRows
      <3>5. target \in sources \cup created
        BY DEF EditStep
      <3>6. /\ DOMAIN row.was = moved /\ \A t \in moved : row.was[t] = Place(t)
            /\ DOMAIN row.groups = sources /\ \A g \in sources : row.groups[g] = group[g]
            /\ row.created = created /\ row.target = target /\ row.undone = FALSE
            /\ DOMAIN row.after = sources \cup created
            /\ \A g \in sources \cup created : row.after[g] = group'[g].version
        BY EditPayload
      <3> HIDE DEF row
      <3>7. \A t \in DOMAIN row.was : row.was[t] \in [content : DOMAIN row.groups, manual : BOOLEAN]
        BY <3>2, <3>6
      <3>8. row.created \subseteq Uuids \ DOMAIN row.groups
        BY <1>1, <3>6
      <3>9. /\ DOMAIN row.after = DOMAIN row.groups \cup row.created
            /\ DOMAIN row.after \subseteq DOMAIN group'
            /\ \A g \in DOMAIN row.after : row.after[g] \in Nat
            /\ row.target \in DOMAIN row.after
            /\ \A g \in DOMAIN row.groups : row.groups[g] \in GroupType
            /\ row.undone \in BOOLEAN
        BY <3>3, <3>4, <3>5, <3>6
      <3>10. DOMAIN operation'[p] = {"was", "target", "groups", "created", "after", "retires", "undone"}
        BY <2>2, EditPayloadDomain
      <3>11. QED
        BY <2>2, <3>7, <3>8, <3>9, <3>10 DEF JournalRow, row
    <2>3. QED
      BY <1>4, <2>1, <2>2, EditRows
  <1>5. DOMAIN operation' \subseteq Operations
    <2>1. DOMAIN operation' = DOMAIN operation \cup {o}
      BY EditRows
    <2>2. QED
      BY <1>1, <2>1 DEF Inv, TypeOK
  <1>6. configured' \subseteq Downloaders
    BY EditRows DEF Inv, TypeOK
  <1>7. QED
    BY <1>2, <1>3, <1>4, <1>5, <1>6 DEF TypeOK

LEMMA EditKeepsJournal ==
    ASSUME Inv, NEW o, NEW moved, NEW target, NEW sources, NEW created,
           EditStep(o, moved, target, sources, created)
    PROVE  JournalInv'
  <1> DEFINE row == operation'[o]
  <1>0. o \notin DOMAIN operation /\ moved \subseteq DOMAIN task
    BY DEF EditStep, Active
  <1>1. /\ DOMAIN operation' = DOMAIN operation \cup {o} /\ o \notin DOMAIN operation
        /\ \A p \in DOMAIN operation : operation'[p] = operation[p]
        /\ operation'[o] = row
    BY <1>0, EditRows
  <1>2. /\ DOMAIN row.was = moved /\ \A t \in moved : row.was[t] = Place(t)
        /\ DOMAIN row.groups = sources /\ \A g \in sources : row.groups[g] = group[g]
        /\ row.created = created /\ row.target = target /\ row.undone = FALSE
        /\ DOMAIN row.after = sources \cup created
        /\ \A g \in sources \cup created : row.after[g] = group'[g].version
    BY EditPayload
  <1> HIDE DEF row
  <1>3. \A p \in DOMAIN operation : JournalRow(operation[p])
    BY DEF Inv, TypeOK
  <1>4. /\ \A g \in DOMAIN group : group[g].version \in Nat
        /\ \A g \in DOMAIN group' : group'[g].version \in Nat
    BY EditKeepsTypes DEF Inv, TypeOK, GroupRows, GroupType
  <1>5. /\ DOMAIN group' = DOMAIN group \cup created /\ sources \subseteq DOMAIN group
        /\ created \cap DOMAIN group = {}
        /\ \A g \in DOMAIN group \ sources : group'[g] = group[g]
        /\ \A g \in sources : group'[g].version = group[g].version + 1
        /\ \A g \in sources : ~group[g].retired
    BY DEF EditStep, Live
  <1>6. \A p \in DOMAIN operation : \A g \in Affected(p) :
            g \in DOMAIN group /\ After(p, g) \in Nat /\ After(p, g) <= group[g].version
    BY <1>3 DEF Inv, JournalInv, VersionsGrow, JournalRow, Affected, After
  <1>7. VersionsGrow'
    BY <1>1, <1>2, <1>4, <1>5, <1>6 DEF VersionsGrow, Affected, After
  <1>8. VersionsDiffer'
    <2>1. \A p \in DOMAIN operation : \A g \in Affected(p) \cap DOMAIN row.after : After(p, g) < row.after[g]
      BY <1>2, <1>4, <1>5, <1>6
    <2>2. \A p \in DOMAIN operation : \A g \in Affected(p) \cap DOMAIN row.after : After(p, g) # row.after[g]
      BY <1>2, <1>4, <1>5, <1>6, <2>1
    <2>3. QED
      BY <1>1, <2>2 DEF VersionsDiffer, Affected, After, Inv, JournalInv
  <1>9. UndoneIsOver'
    <2>1. SUFFICES ASSUME NEW p \in DOMAIN operation', operation'[p].undone, NEW g \in operation'[p].created
                   PROVE  /\ group'[g].retired
                          /\ \A q \in DOMAIN operation' : g \in Affected(q)' => After(q, g)' < group'[g].version
      BY DEF UndoneIsOver
    <2>2. p \in DOMAIN operation /\ operation'[p] = operation[p]
      BY <1>1, <1>2, <2>1
    <2>3. /\ g \in DOMAIN group /\ group[g].retired
          /\ \A q \in DOMAIN operation : g \in Affected(q) => After(q, g) < group[g].version
      BY <1>3, <2>1, <2>2 DEF Inv, JournalInv, UndoneIsOver, JournalRow
    <2>4. g \notin sources \cup created /\ group'[g] = group[g]
      BY <1>5, <2>3
    <2>5. QED
      BY <1>1, <1>2, <2>3, <2>4 DEF Affected, After
  <1>10. CreatedAsRecorded'
    <2>1. SUFFICES ASSUME NEW p \in DOMAIN operation', NEW g \in operation'[p].created,
                          group'[g].version = After(p, g)',
                          NEW t \in DOMAIN task', task'[t].content = g
                   PROVE  t \in DOMAIN operation'[p].was
      BY DEF CreatedAsRecorded
    <2>2. t \in DOMAIN task /\ (t \notin moved => task'[t] = task[t])
      BY <2>1, EditRows
    <2>3. CASE p \in DOMAIN operation
      <3>1. operation'[p] = operation[p] /\ g \in Affected(p) /\ g \in operation[p].created
        BY <1>1, <1>3, <2>1, <2>3 DEF JournalRow, Affected
      <3>2. g \notin sources \cup created /\ group'[g] = group[g]
        BY <1>4, <1>5, <1>6, <2>1, <2>3, <3>1 DEF After
      <3>3. t \notin moved
        <4>1. t \in moved => task'[t].content = target
          BY <2>2, EditMoves DEF Inv, TypeOK
        <4>2. QED
          BY <2>1, <3>2, <4>1 DEF EditStep
      <3>4. QED
        BY <2>1, <2>2, <2>3, <3>1, <3>2, <3>3 DEF Inv, JournalInv, CreatedAsRecorded, After
    <2>4. CASE p = o
      <3>1. g \in created /\ g \notin DOMAIN group
        BY <1>1, <1>2, <1>5, <2>1, <2>4
      <3>2. t \in moved
        BY <2>1, <2>2, <3>1 DEF Inv, TypeOK, TaskRows
      <3>3. QED
        BY <1>1, <1>2, <2>4, <3>2
    <2>5. QED
      BY <1>1, <2>3, <2>4
  <1>11. PinnedBefore'
    <2>1. \A t \in moved : Place(t).content \in Uuids => Place(t).manual
      BY DEF EditStep, Active, Place, Inv, CreatedGroupsPinned
    <2>2. QED
      BY <1>1, <1>2, <2>1 DEF PinnedBefore, Inv, JournalInv
  <1>12. SavedInUse'
    BY <1>1, <1>2, <1>5 DEF SavedInUse, Inv, JournalInv
  <1>13. QED
    BY <1>7, <1>8, <1>9, <1>10, <1>11, <1>12 DEF JournalInv

-----------------------------------------------------------------------------
(* An undo preserves the invariant.                                         *)

LEMMA UndoGroups ==
    ASSUME Inv, NEW o \in DOMAIN operation, UndoGroupOperation(o)
    PROVE  /\ DOMAIN group' = DOMAIN group
           /\ \A g \in DOMAIN operation[o].groups :
                group'[g] \in GroupType /\ group'[g].version = group[g].version + 1 /\ ~group'[g].retired
           /\ \A g \in operation[o].created :
                group'[g] \in GroupType /\ group'[g].version = group[g].version + 1 /\ group'[g].retired
           /\ \A g \in DOMAIN group \ Affected(o) : group'[g] = group[g]
  <1>1. JournalRow(operation[o])
    BY DEF Inv, TypeOK
  <1>2. group' = [g \in DOMAIN group |->
            IF g \in DOMAIN operation[o].groups
            THEN [operation[o].groups[g] EXCEPT !.version = operation[o].after[g] + 1]
            ELSE IF g \in operation[o].created THEN Retired(group[g]) ELSE group[g]]
    BY DEF UndoGroupOperation
  <1>3. \A g \in Affected(o) : group[g].version = operation[o].after[g]
    BY DEF UndoGroupOperation, Undoable, GroupsAsLeft
  <1>4. ASSUME NEW g \in DOMAIN operation[o].groups
        PROVE  group'[g] \in GroupType /\ group'[g].version = group[g].version + 1 /\ ~group'[g].retired
    <2>1. /\ g \in DOMAIN group /\ g \in Affected(o)
          /\ operation[o].groups[g] \in GroupType /\ ~operation[o].groups[g].retired
          /\ operation[o].after[g] \in Nat
      BY <1>1, <1>4 DEF JournalRow, Affected, Inv, JournalInv, SavedInUse
    <2>2. group'[g] = [operation[o].groups[g] EXCEPT !.version = operation[o].after[g] + 1]
      BY <1>2, <1>4, <2>1
    <2> DEFINE row == operation[o].groups[g]
               n == operation[o].after[g] + 1
    <2>3. row \in GroupType /\ n \in Nat \ {0} /\ ~row.retired /\ group'[g] = [row EXCEPT !.version = n]
      BY <2>1, <2>2
    <2>4. n = group[g].version + 1
      BY <1>3, <2>1
    <2> HIDE DEF row, n
    <2>5. group'[g] \in GroupType /\ group'[g].version = n /\ ~group'[g].retired
      BY <2>3 DEF GroupType
    <2>6. QED
      BY <2>4, <2>5
  <1>5. ASSUME NEW g \in operation[o].created
        PROVE  group'[g] \in GroupType /\ group'[g].version = group[g].version + 1 /\ group'[g].retired
    <2>1. g \in DOMAIN group /\ g \notin DOMAIN operation[o].groups
      BY <1>1, <1>5 DEF JournalRow
    <2>2. group[g] \in GroupType /\ group'[g] = Retired(group[g])
      BY <1>2, <1>5, <2>1 DEF Inv, TypeOK, GroupRows
    <2>3. QED
      BY <2>2, RetiredRow
  <1>6. \A g \in DOMAIN group \ Affected(o) : group'[g] = group[g]
    BY <1>1, <1>2 DEF JournalRow, Affected
  <1>7. QED
    BY <1>2, <1>4, <1>5, <1>6

LEMMA UndoJournal ==
    ASSUME Inv, NEW o \in DOMAIN operation, UndoGroupOperation(o)
    PROVE  /\ DOMAIN operation' = DOMAIN operation /\ configured' = configured
           /\ \A p \in DOMAIN operation :
                /\ operation'[p].was = operation[p].was /\ operation'[p].groups = operation[p].groups
                /\ operation'[p].created = operation[p].created
                /\ operation'[p].after = operation[p].after
                /\ p # o => operation'[p] = operation[p]
                /\ JournalRow(operation[p])'
  <1>1. operation' = [operation EXCEPT ![o].undone = TRUE] /\ configured' = configured
    BY DEF UndoGroupOperation
  <1>2. DOMAIN group' = DOMAIN group
    BY UndoGroups
  <1>3. ASSUME NEW p \in DOMAIN operation
        PROVE  /\ operation'[p].was = operation[p].was /\ operation'[p].groups = operation[p].groups
               /\ operation'[p].created = operation[p].created
               /\ operation'[p].after = operation[p].after
               /\ p # o => operation'[p] = operation[p]
               /\ JournalRow(operation[p])'
    <2>1. JournalRow(operation[p])
      BY DEF Inv, TypeOK
    <2>2. CASE p # o
      <3>1. operation'[p] = operation[p]
        BY <1>1, <2>2
      <3>2. QED
        BY <1>2, <2>1, <2>2, <3>1 DEF JournalRow
    <2>3. CASE p = o
      <3> DEFINE row == operation[p]
                 new == operation'[p]
      <3>1. new = [row EXCEPT !.undone = TRUE]
        BY <1>1, <2>3
      <3>2. DOMAIN row = {"was", "target", "groups", "created", "after", "retires", "undone"}
        BY <2>1 DEF JournalRow
      <3> HIDE DEF row, new
      <3>3. /\ DOMAIN new = DOMAIN row
            /\ new.was = row.was /\ new.groups = row.groups /\ new.created = row.created
            /\ new.after = row.after /\ new.target = row.target /\ new.undone = TRUE
        BY <3>1, <3>2
      <3>4. QED
        BY <1>2, <2>1, <2>3, <3>3 DEF JournalRow, row, new
    <2>4. QED
      BY <2>2, <2>3
  <1>4. DOMAIN operation' = DOMAIN operation
    BY <1>1
  <1>5. QED
    BY <1>1, <1>3, <1>4

LEMMA UndoTasks ==
    ASSUME Inv, NEW o \in DOMAIN operation, UndoGroupOperation(o)
    PROVE  /\ DOMAIN task' = DOMAIN task
           /\ \A t \in DOMAIN task : t \in DOMAIN operation[o].was =>
                /\ task'[t].content = operation[o].was[t].content
                /\ task'[t].manual = operation[o].was[t].manual
                /\ task'[t].content \in DOMAIN operation[o].groups
                /\ task'[t] \in [active : BOOLEAN, content : DOMAIN group, manual : BOOLEAN,
                                 suggested : DOMAIN group \cap AutoGroups]
           /\ \A t \in DOMAIN task : t \notin DOMAIN operation[o].was => task'[t] = task[t]
  <1>1. task' = [t \in DOMAIN task |->
            IF t \in DOMAIN operation[o].was
            THEN [task[t] EXCEPT !.content = operation[o].was[t].content, !.manual = operation[o].was[t].manual]
            ELSE task[t]]
    BY DEF UndoGroupOperation
  <1>2. ASSUME NEW t \in DOMAIN task, t \in DOMAIN operation[o].was
        PROVE  /\ task'[t].content = operation[o].was[t].content
               /\ task'[t].manual = operation[o].was[t].manual
               /\ task'[t].content \in DOMAIN operation[o].groups
               /\ task'[t] \in [active : BOOLEAN, content : DOMAIN group, manual : BOOLEAN,
                                suggested : DOMAIN group \cap AutoGroups]
    <2> DEFINE g == operation[o].was[t].content
               b == operation[o].was[t].manual
    <2>1. task'[t] = [task[t] EXCEPT !.content = g, !.manual = b]
      BY <1>1, <1>2
    <2>2. b \in BOOLEAN /\ g \in DOMAIN operation[o].groups /\ g \in DOMAIN group
      BY <1>2 DEF Inv, TypeOK, JournalRow
    <2>3. TaskRows
      BY DEF Inv, TypeOK
    <2> HIDE DEF g, b
    <2>4. /\ task'[t].content = g /\ task'[t].manual = b
          /\ task'[t] \in [active : BOOLEAN, content : DOMAIN group, manual : BOOLEAN,
                           suggested : DOMAIN group \cap AutoGroups]
      BY <1>2, <2>1, <2>2, <2>3, MovedRow
    <2>5. QED
      BY <2>2, <2>4 DEF g, b
  <1>3. QED
    BY <1>1, <1>2

LEMMA UndoKeepsTypes ==
    ASSUME Inv, NEW o \in DOMAIN operation, UndoGroupOperation(o)
    PROVE  TypeOK' /\ CreatedGroupsPinned'
  <1>1. GroupRows'
    <2>1. ASSUME NEW g \in DOMAIN group PROVE group'[g] \in GroupType
      <3>1. CASE g \in Affected(o)
        BY <3>1, UndoGroups DEF Affected, Inv, TypeOK, JournalRow
      <3>2. CASE g \notin Affected(o)
        BY <2>1, <3>2, UndoGroups DEF Inv, TypeOK, GroupRows
      <3>3. QED
        BY <3>1, <3>2
    <2>2. DOMAIN group' = DOMAIN group
      BY UndoGroups
    <2>3. QED
      BY <2>1, <2>2 DEF Inv, TypeOK, GroupRows
  <1>2. ASSUME NEW t \in DOMAIN task
        PROVE  /\ task'[t] \in [active : BOOLEAN, content : DOMAIN group, manual : BOOLEAN,
                                suggested : DOMAIN group \cap AutoGroups]
               /\ task'[t].content \in Uuids => task'[t].manual
    <2>1. CASE t \in DOMAIN operation[o].was
      <3>1. operation[o].was[t].content \in Uuids => operation[o].was[t].manual
        BY <2>1 DEF Inv, JournalInv, PinnedBefore
      <3>2. QED
        BY <1>2, <2>1, <3>1, UndoTasks
    <2>2. CASE t \notin DOMAIN operation[o].was
      <3>1. task'[t] = task[t]
        BY <1>2, <2>2, UndoTasks
      <3>2. QED
        BY <1>2, <3>1 DEF Inv, TypeOK, TaskRows, CreatedGroupsPinned
    <2>3. QED
      BY <2>1, <2>2
  <1>3. DOMAIN task' = DOMAIN task /\ DOMAIN group' = DOMAIN group
    BY UndoTasks, UndoGroups
  <1>4. configured' = configured /\ DOMAIN operation' = DOMAIN operation
    BY UndoJournal
  <1>5. TaskRows' /\ CreatedGroupsPinned'
    BY <1>2, <1>3, <1>4 DEF Inv, TypeOK, TaskRows, CreatedGroupsPinned
  <1>6. \A p \in DOMAIN operation' : JournalRow(operation[p])'
    BY <1>4, UndoJournal
  <1>7. QED
    BY <1>1, <1>4, <1>5, <1>6 DEF Inv, TypeOK

LEMMA UndoKeepsJournal ==
    ASSUME Inv, NEW o \in DOMAIN operation, UndoGroupOperation(o)
    PROVE  JournalInv'
  <1>1. /\ DOMAIN operation' = DOMAIN operation /\ DOMAIN group' = DOMAIN group
        /\ \A p \in DOMAIN operation :
            /\ operation'[p].was = operation[p].was /\ operation'[p].groups = operation[p].groups
            /\ operation'[p].created = operation[p].created
            /\ operation'[p].after = operation[p].after
            /\ p # o => operation'[p] = operation[p]
    BY UndoJournal, UndoGroups
  <1>2. \A p \in DOMAIN operation : JournalRow(operation[p])
    BY DEF Inv, TypeOK
  <1>3. /\ \A g \in Affected(o) : group'[g].version = group[g].version + 1
        /\ \A g \in DOMAIN group \ Affected(o) : group'[g] = group[g]
        /\ \A g \in Affected(o) : After(o, g) = group[g].version
        /\ ~operation[o].undone
    <2>1. Affected(o) = DOMAIN operation[o].groups \cup operation[o].created
      BY <1>2 DEF Affected, JournalRow
    <2>2. \A g \in Affected(o) : After(o, g) = group[g].version
      BY DEF After, UndoGroupOperation, Undoable, GroupsAsLeft
    <2>3. ~operation[o].undone
      BY DEF UndoGroupOperation, Undoable
    <2>4. QED
      BY <2>1, <2>2, <2>3, UndoGroups
  <1>4. \A p \in DOMAIN operation : \A g \in Affected(p) :
            /\ g \in DOMAIN group /\ After(p, g) \in Nat /\ group[g].version \in Nat
            /\ After(p, g) <= group[g].version
            /\ g \in Affected(o) => After(p, g) < group'[g].version
    BY <1>2, <1>3 DEF Inv, TypeOK, GroupRows, GroupType, JournalInv, VersionsGrow, JournalRow, Affected, After
  <1>5. VersionsGrow'
    BY <1>1, <1>3, <1>4 DEF VersionsGrow, Affected, After
  <1>6. VersionsDiffer'
    BY <1>1 DEF VersionsDiffer, Affected, After, Inv, JournalInv
  <1>7. UndoneIsOver'
    <2>1. SUFFICES ASSUME NEW p \in DOMAIN operation, operation'[p].undone, NEW g \in operation[p].created
                   PROVE  /\ group'[g].retired
                          /\ \A q \in DOMAIN operation : g \in Affected(q) => After(q, g) < group'[g].version
      BY <1>1 DEF UndoneIsOver, Affected, After
    <2>2. g \in Affected(p)
      BY <1>2 DEF JournalRow, Affected
    <2>3. CASE p = o
      BY <1>4, <2>1, <2>2, <2>3, UndoGroups
    <2>4. CASE p # o
      <3>1. /\ group[g].retired
            /\ \A q \in DOMAIN operation : g \in Affected(q) => After(q, g) < group[g].version
        BY <1>1, <2>1, <2>4 DEF Inv, JournalInv, UndoneIsOver
      <3>2. g \notin Affected(o)
        BY <1>3, <1>4, <2>2, <3>1
      <3>3. QED
        BY <1>3, <1>4, <2>2, <3>1, <3>2
    <2>5. QED
      BY <2>3, <2>4
  <1>8. CreatedAsRecorded'
    <2>1. SUFFICES ASSUME NEW p \in DOMAIN operation, NEW g \in operation[p].created,
                          group'[g].version = After(p, g), NEW t \in DOMAIN task', task'[t].content = g
                   PROVE  t \in DOMAIN operation[p].was
      BY <1>1 DEF CreatedAsRecorded, After
    <2>2. g \in Affected(p)
      BY <1>2 DEF JournalRow, Affected
    <2>3. g \notin Affected(o) /\ group'[g] = group[g]
      BY <1>3, <1>4, <2>1, <2>2
    <2>4. t \in DOMAIN task /\ t \notin DOMAIN operation[o].was /\ task'[t] = task[t]
      BY <1>2, <2>1, <2>3, UndoTasks DEF JournalRow, Affected
    <2>5. QED
      BY <2>1, <2>3, <2>4 DEF Inv, JournalInv, CreatedAsRecorded
  <1>9. PinnedBefore' /\ SavedInUse'
    BY <1>1 DEF PinnedBefore, SavedInUse, Inv, JournalInv
  <1>10. QED
    BY <1>5, <1>6, <1>7, <1>8, <1>9 DEF JournalInv

-----------------------------------------------------------------------------
(* The steps that leave the journal alone.                                  *)

\* Such a step keeps the invariant when versions do not fall, no group created by an
\* edit comes back into use or gains members, and rows stay typed.
LEMMA QuietStep ==
    ASSUME Inv, operation' = operation, configured' \subseteq configured,
           TaskRows', GroupRows', DOMAIN group \subseteq DOMAIN group',
           \A g \in DOMAIN group : group[g].version <= group'[g].version,
           \A g \in DOMAIN group \cap Uuids : group[g].retired => group'[g].retired,
           \A t \in DOMAIN task' : task'[t].content \in Uuids =>
                t \in DOMAIN task /\ task'[t].content = task[t].content /\ task'[t].manual = task[t].manual
    PROVE  Inv'
  <1>1. \A p \in DOMAIN operation : JournalRow(operation[p])
    BY DEF Inv, TypeOK
  <1>2. TypeOK'
    <2>1. \A p \in DOMAIN operation' : JournalRow(operation[p])'
      BY <1>1 DEF JournalRow
    <2>2. QED
      BY <2>1 DEF Inv, TypeOK
  <1>3. CreatedGroupsPinned'
    BY DEF Inv, CreatedGroupsPinned
  <1>4. \A g \in DOMAIN group : group[g].version \in Nat /\ group'[g].version \in Nat
    BY <1>2 DEF Inv, TypeOK, GroupRows, GroupType
  <1>5. \A p \in DOMAIN operation : \A g \in Affected(p) :
            g \in DOMAIN group /\ After(p, g) \in Nat /\ After(p, g) <= group[g].version
    BY <1>1 DEF Inv, JournalInv, VersionsGrow, JournalRow, Affected, After
  <1>6. VersionsGrow'
    BY <1>4, <1>5 DEF VersionsGrow, Affected, After
  <1>7. VersionsDiffer' /\ PinnedBefore' /\ SavedInUse'
    BY DEF Inv, JournalInv, VersionsDiffer, PinnedBefore, SavedInUse, Affected, After
  <1>8. UndoneIsOver'
    <2>1. SUFFICES ASSUME NEW p \in DOMAIN operation, operation[p].undone, NEW g \in operation[p].created
                   PROVE  /\ group'[g].retired
                          /\ \A q \in DOMAIN operation : g \in Affected(q) => After(q, g) < group'[g].version
      BY DEF UndoneIsOver, Affected, After
    <2>2. g \in DOMAIN group \cap Uuids
      BY <1>1, <2>1 DEF JournalRow
    <2>3. /\ group[g].retired
          /\ \A q \in DOMAIN operation : g \in Affected(q) => After(q, g) < group[g].version
      BY <2>1 DEF Inv, JournalInv, UndoneIsOver
    <2>4. QED
      BY <1>4, <1>5, <2>2, <2>3
  <1>9. CreatedAsRecorded'
    <2>1. SUFFICES ASSUME NEW p \in DOMAIN operation, NEW g \in operation[p].created,
                          group'[g].version = After(p, g), NEW t \in DOMAIN task', task'[t].content = g
                   PROVE  t \in DOMAIN operation[p].was
      BY DEF CreatedAsRecorded, After
    <2>2. g \in Uuids /\ g \in Affected(p)
      BY <1>1, <2>1 DEF JournalRow, Affected
    <2>3. group[g].version = After(p, g)
      BY <1>4, <1>5, <2>1, <2>2
    <2>4. t \in DOMAIN task /\ task[t].content = g
      BY <2>1, <2>2
    <2>5. QED
      BY <2>1, <2>3, <2>4 DEF Inv, JournalInv, CreatedAsRecorded
  <1>10. QED
    BY <1>2, <1>3, <1>6, <1>7, <1>8, <1>9 DEF Inv, JournalInv

LEMMA SyncQuiet ==
    ASSUME Inv, NEW d \in Downloaders, NEW batch \in Batches(d), NEW gone, ApplySync(d, batch, gone)
    PROVE  Inv'
  <1>1. /\ DOMAIN batch \subseteq TasksOf(d)
        /\ \A t \in DOMAIN batch : batch[t] \in AutoGroups
    BY DEF Batches
  <1>2. group' = [g \in DOMAIN group \cup {batch[t] : t \in DOMAIN batch} |->
            IF g \in DOMAIN group THEN group[g] ELSE Row(FALSE)]
    BY DEF ApplySync, UpsertGroups
  <1>3. d \in configured /\ configured' = configured /\ operation' = operation
    BY DEF ApplySync
  <1>4. /\ DOMAIN group \subseteq DOMAIN group' /\ \A g \in DOMAIN group : group'[g] = group[g]
        /\ \A t \in DOMAIN batch : batch[t] \in DOMAIN group'
        /\ \A g \in DOMAIN group' \ DOMAIN group : g \in AutoGroups /\ group'[g] = Row(FALSE)
    BY <1>1, <1>2
  <1>5. GroupRows'
    <2>1. Row(FALSE) \in GroupType
      BY DEF Row, GroupType
    <2>2. QED
      BY <1>4, <2>1 DEF Inv, TypeOK, GroupRows
  <1>6. task' = [t \in DOMAIN task \cup DOMAIN batch |->
            IF t \in DOMAIN batch
            THEN [active |-> TRUE, suggested |-> batch[t], manual |-> Pinned(t),
                  content |-> IF Pinned(t) THEN task[t].content ELSE batch[t]]
            ELSE [task[t] EXCEPT !.active = @ /\ t \notin gone]]
    BY DEF ApplySync, UpsertTasks
  <1>7. DOMAIN task' \subseteq {t \in Tasks : Home[t] \in configured'}
    BY <1>1, <1>3, <1>6 DEF Inv, TypeOK, TaskRows, TasksOf
  <1>8. ASSUME NEW t \in DOMAIN batch
        PROVE  /\ task'[t] \in [active : BOOLEAN, content : DOMAIN group', manual : BOOLEAN,
                                suggested : DOMAIN group' \cap AutoGroups]
               /\ task'[t].content \in Uuids =>
                    t \in DOMAIN task /\ task'[t].content = task[t].content /\ task'[t].manual = task[t].manual
    <2>1. task'[t] = [active |-> TRUE, suggested |-> batch[t], manual |-> Pinned(t),
                      content |-> IF Pinned(t) THEN task[t].content ELSE batch[t]]
      BY <1>6, <1>8
    <2>2. Pinned(t) \in BOOLEAN
      BY DEF Pinned, Inv, TypeOK, TaskRows
    <2>3. CASE Pinned(t)
      <3>1. t \in DOMAIN task /\ task[t].manual = TRUE /\ task[t].content \in DOMAIN group
        BY <2>3 DEF Pinned, Inv, TypeOK, TaskRows
      <3> DEFINE c == task[t].content
                 s == batch[t]
      <3>2. c \in DOMAIN group' /\ s \in DOMAIN group' \cap AutoGroups
        BY <1>1, <1>4, <1>8, <3>1
      <3>3. task'[t] = [active |-> TRUE, suggested |-> s, manual |-> TRUE, content |-> c]
        BY <2>1, <2>2, <2>3
      <3>4. t \in DOMAIN task /\ task[t].content = c /\ task[t].manual = TRUE
        BY <3>1
      <3> HIDE DEF c, s
      <3>5. task'[t] \in [active : BOOLEAN, content : DOMAIN group', manual : BOOLEAN,
                         suggested : DOMAIN group' \cap AutoGroups]
        BY <3>2, <3>3
      <3>6. task'[t].content = c /\ task'[t].manual = TRUE
        BY <3>3
      <3>7. QED
        BY <3>4, <3>5, <3>6
    <2>4. CASE ~Pinned(t)
      <3>1. batch[t] \in DOMAIN group' \cap AutoGroups /\ batch[t] \notin Uuids
        BY <1>1, <1>4, <1>8, NameAssumption
      <3>2. QED
        BY <2>1, <2>2, <2>4, <3>1
    <2>5. QED
      BY <2>3, <2>4
  <1>9. ASSUME NEW t \in DOMAIN task \ DOMAIN batch
        PROVE  /\ task'[t] \in [active : BOOLEAN, content : DOMAIN group', manual : BOOLEAN,
                                suggested : DOMAIN group' \cap AutoGroups]
               /\ task'[t].content = task[t].content /\ task'[t].manual = task[t].manual
    <2>1. task'[t] = [task[t] EXCEPT !.active = task[t].active /\ t \notin gone]
      BY <1>6, <1>9
    <2>2. task[t] \in [active : BOOLEAN, content : DOMAIN group', manual : BOOLEAN,
                       suggested : DOMAIN group' \cap AutoGroups]
      BY <1>4, <1>9, RowsStayTyped DEF Inv, TypeOK
    <2> DEFINE b == task[t].active /\ t \notin gone
    <2>3. b \in BOOLEAN
      OBVIOUS
    <2>4. task'[t] = [task[t] EXCEPT !.active = b]
      BY <2>1
    <2> HIDE DEF b
    <2>5. QED
      BY <2>2, <2>3, <2>4
  <1>10. DOMAIN task' = DOMAIN task \cup DOMAIN batch
    BY <1>6
  <1>11. TaskRows'
    BY <1>7, <1>8, <1>9, <1>10 DEF TaskRows
  <1>12. \A t \in DOMAIN task' : task'[t].content \in Uuids =>
            t \in DOMAIN task /\ task'[t].content = task[t].content /\ task'[t].manual = task[t].manual
    BY <1>8, <1>9, <1>10
  <1>13. \A g \in DOMAIN group : group[g].version <= group'[g].version
    BY <1>4 DEF Inv, TypeOK, GroupRows, GroupType
  <1>14. QED
    BY <1>3, <1>4, <1>5, <1>11, <1>12, <1>13, QuietStep

LEMMA DeleteQuiet ==
    ASSUME Inv, NEW d, DeleteDownloader(d)
    PROVE  Inv'
  <1>1. /\ operation' = operation /\ group' = group /\ configured' = configured \ {d}
        /\ task' = [t \in DOMAIN task \ TasksOf(d) |-> task[t]]
    BY DEF DeleteDownloader
  <1>2. DOMAIN task' \subseteq DOMAIN task /\ \A t \in DOMAIN task' : task'[t] = task[t] /\ t \notin TasksOf(d)
    BY <1>1
  <1>3. TaskRows'
    BY <1>1, <1>2 DEF Inv, TypeOK, TaskRows, TasksOf
  <1>4. GroupRows' /\ \A g \in DOMAIN group : group[g].version <= group'[g].version
    BY <1>1 DEF Inv, TypeOK, GroupRows, GroupType
  <1>5. QED
    BY <1>1, <1>2, <1>3, <1>4, QuietStep

LEMMA LockQuiet ==
    ASSUME Inv, NEW g \in Live, NEW locked \in BOOLEAN, SetGroupLock(g, locked)
    PROVE  Inv'
  <1>1. /\ operation' = operation /\ configured' = configured /\ task' = task
        /\ group' = [group EXCEPT ![g].version = @ + 1, ![g].locked = locked]
    BY DEF SetGroupLock
  <1>2. g \in DOMAIN group /\ group[g] \in GroupType
    BY DEF Live, Inv, TypeOK, GroupRows
  <1>3. DOMAIN group' = DOMAIN group /\ \A h \in DOMAIN group \ {g} : group'[h] = group[h]
    BY <1>1
  <1>4. group'[g] \in GroupType /\ group[g].version <= group'[g].version /\ group'[g].retired = group[g].retired
    <2> DEFINE n == group[g].version + 1
               row == group[g]
    <2>1. n \in Nat \ {0} /\ row.version <= n /\ row \in GroupType
      BY <1>2 DEF GroupType
    <2>2. group'[g] = [row EXCEPT !.version = n, !.locked = locked]
      BY <1>1, <1>2
    <2> HIDE DEF n, row
    <2>3. group'[g] \in GroupType /\ group'[g].version = n /\ group'[g].retired = row.retired
      BY <2>1, <2>2 DEF GroupType
    <2>4. QED
      BY <2>1, <2>3 DEF row
  <1>5. GroupRows'
    BY <1>2, <1>3, <1>4 DEF Inv, TypeOK, GroupRows
  <1>6. TaskRows'
    BY <1>1, <1>3 DEF Inv, TypeOK, TaskRows
  <1>7. \A h \in DOMAIN group : group[h].version <= group'[h].version /\ (group[h].retired => group'[h].retired)
    BY <1>3, <1>4 DEF Inv, TypeOK, GroupRows, GroupType
  <1>8. QED
    BY <1>1, <1>3, <1>5, <1>6, <1>7, QuietStep

LEMMA RestoreQuiet ==
    ASSUME Inv, NEW g \in Live, RestoreAutomaticGroup(g)
    PROVE  Inv'
  <1> DEFINE targets == {task[t].suggested : t \in Members(g)}
  <1>1. /\ operation' = operation /\ configured' = configured
        /\ task' = [t \in DOMAIN task |->
                IF task[t].content = g /\ task[t].suggested \in targets
                THEN [task[t] EXCEPT !.content = task[t].suggested, !.manual = FALSE]
                ELSE task[t]]
        /\ group' = [h \in DOMAIN group |->
                IF h = g THEN Retired(group[h])
                ELSE IF h \in targets THEN [group[h] EXCEPT !.retired = FALSE]
                ELSE group[h]]
    BY DEF RestoreAutomaticGroup
  <1>2. targets \subseteq AutoGroups
    BY DEF Members, Active, Inv, TypeOK, TaskRows
  <1> HIDE DEF targets
  <1>3. DOMAIN group' = DOMAIN group /\ DOMAIN task' = DOMAIN task
    BY <1>1
  <1>4. ASSUME NEW h \in DOMAIN group
        PROVE  /\ group'[h] \in GroupType /\ group[h].version <= group'[h].version
               /\ h \in Uuids /\ group[h].retired => group'[h].retired
    <2>1. group[h] \in GroupType /\ group[h].version \in Nat
      BY DEF Inv, TypeOK, GroupRows, GroupType
    <2>2. CASE h = g
      <3>1. group'[h] = Retired(group[h])
        BY <1>1, <2>2
      <3>2. QED
        BY <2>1, <3>1, RetiredRow
    <2>3. CASE h # g /\ h \in targets
      <3>1. group'[h] = [group[h] EXCEPT !.retired = FALSE]
        BY <1>1, <2>3
      <3>2. h \notin Uuids
        BY <1>2, <2>3, NameAssumption
      <3>3. group'[h] \in GroupType /\ group'[h].version = group[h].version
        BY <2>1, <3>1 DEF GroupType
      <3>4. QED
        BY <2>1, <3>2, <3>3
    <2>4. CASE h # g /\ h \notin targets
      <3>1. group'[h] = group[h]
        BY <1>1, <2>4
      <3>2. QED
        BY <2>1, <3>1
    <2>5. QED
      BY <2>2, <2>3, <2>4
  <1>5. GroupRows'
    BY <1>3, <1>4 DEF Inv, TypeOK, GroupRows
  <1>6. ASSUME NEW t \in DOMAIN task
        PROVE  /\ task'[t] \in [active : BOOLEAN, content : DOMAIN group, manual : BOOLEAN,
                                suggested : DOMAIN group \cap AutoGroups]
               /\ task'[t].content \in Uuids =>
                    task'[t].content = task[t].content /\ task'[t].manual = task[t].manual
    <2>1. TaskRows /\ task[t].suggested \in DOMAIN group \cap AutoGroups
      BY <1>6 DEF Inv, TypeOK, TaskRows
    <2>2. CASE task[t].content = g /\ task[t].suggested \in targets
      <3> DEFINE s == task[t].suggested
      <3>1. task'[t] = [task[t] EXCEPT !.content = s, !.manual = FALSE]
        BY <1>1, <1>6, <2>2
      <3>2. s \in DOMAIN group /\ s \notin Uuids
        BY <2>1, NameAssumption
      <3> HIDE DEF s
      <3>3. QED
        BY <1>6, <2>1, <3>1, <3>2, MovedRow
    <2>3. CASE ~(task[t].content = g /\ task[t].suggested \in targets)
      <3>1. task'[t] = task[t]
        BY <1>1, <1>6, <2>3
      <3>2. QED
        BY <1>6, <2>1, <3>1 DEF TaskRows
    <2>4. QED
      BY <2>2, <2>3
  <1>7. TaskRows'
    BY <1>1, <1>3, <1>6 DEF Inv, TypeOK, TaskRows
  <1>8. QED
    BY <1>1, <1>3, <1>4, <1>5, <1>6, <1>7, QuietStep

-----------------------------------------------------------------------------
(* No edit or undo leaves a task behind.                                    *)

LEMMA EditStrandsNone ==
    ASSUME Inv, NEW o, NEW moved, NEW target, NEW sources, NEW created,
           EditStep(o, moved, target, sources, created)
    PROVE  Stranded' \subseteq Stranded
  <1> SUFFICES ASSUME NEW t \in Stranded', t \notin Stranded PROVE FALSE
    OBVIOUS
  <1>1. t \in DOMAIN task /\ task'[t].active /\ task'[t].content \notin Live'
    BY EditRows DEF Stranded, Active
  <1>2. TaskRows
    BY DEF Inv, TypeOK
  <1>3. CASE t \in moved
    <2>1. task'[t].content = target
      BY <1>1, <1>2, <1>3, EditMoves
    <2>2. target \in DOMAIN group' /\ ~group'[target].retired
      BY DEF EditStep, Row, Live
    <2>3. QED
      BY <1>1, <2>1, <2>2 DEF Live
  <1>4. CASE t \notin moved
    <2> DEFINE c == task[t].content
    <2>1. task'[t] = task[t]
      BY <1>1, <1>4, EditRows
    <2>2. c \in Live /\ t \in Members(c)
      BY <1>1, <2>1 DEF Stranded, Active, Members
    <2> HIDE DEF c
    <2>3. c \in DOMAIN group' /\ ~group'[c].retired
      BY <1>4, <2>2 DEF EditStep, Live
    <2>4. QED
      BY <1>1, <2>1, <2>3 DEF Live, c
  <1>5. QED
    BY <1>3, <1>4

LEMMA UndoStrandsNone ==
    ASSUME Inv, NEW o \in DOMAIN operation, UndoGroupOperation(o)
    PROVE  Stranded' \subseteq Stranded
  <1> SUFFICES ASSUME NEW t \in Stranded', t \notin Stranded PROVE FALSE
    OBVIOUS
  <1>1. t \in DOMAIN task /\ task'[t].active /\ task'[t].content \notin Live'
    BY UndoTasks DEF Stranded, Active
  <1>2. JournalRow(operation[o])
    BY DEF Inv, TypeOK
  <1>3. \A g \in DOMAIN operation[o].groups : g \in Live'
    BY <1>2, UndoGroups DEF JournalRow, Live
  <1>4. t \notin DOMAIN operation[o].was /\ task'[t] = task[t]
    BY <1>1, <1>3, UndoTasks
  <1> DEFINE c == task[t].content
  <1>5. c \in Live
    BY <1>1, <1>4 DEF Stranded, Active
  <1>6. c \notin operation[o].created
    <2>1. SUFFICES ASSUME c \in operation[o].created PROVE FALSE
      OBVIOUS
    <2>2. group[c].version = After(o, c)
      BY <1>2, <2>1 DEF UndoGroupOperation, Undoable, GroupsAsLeft, Affected, After, JournalRow
    <2>3. QED
      BY <1>1, <1>4, <2>1, <2>2 DEF Inv, JournalInv, CreatedAsRecorded
  <1>7. c \notin DOMAIN operation[o].groups
    BY <1>1, <1>3, <1>4
  <1>8. group'[c] = group[c] /\ c \in DOMAIN group'
    BY <1>2, <1>5, <1>6, <1>7, UndoGroups DEF JournalRow, Affected, Live
  <1>9. QED
    BY <1>1, <1>4, <1>5, <1>8 DEF Live

-----------------------------------------------------------------------------
(* What else may leave a task behind.                                       *)

\* A sync loses a task only to a group that was retired before.
LEMMA SyncStrands ==
    ASSUME Inv, NEW d \in Downloaders, NEW batch \in Batches(d), NEW gone, ApplySync(d, batch, gone),
           NEW t \in Stranded' \ Stranded
    PROVE  EntersRetired(t)
  <1>1. /\ DOMAIN group' = DOMAIN group \cup {batch[u] : u \in DOMAIN batch}
        /\ \A g \in DOMAIN group : group'[g] = group[g]
        /\ \A g \in DOMAIN group' \ DOMAIN group : ~group'[g].retired
    BY DEF ApplySync, UpsertGroups, Row
  <1>2. /\ DOMAIN task' = DOMAIN task \cup DOMAIN batch
        /\ \A u \in DOMAIN batch :
                task'[u] = [active |-> TRUE, suggested |-> batch[u], manual |-> Pinned(u),
                            content |-> IF Pinned(u) THEN task[u].content ELSE batch[u]]
        /\ \A u \in DOMAIN task \ DOMAIN batch :
                task'[u] = [task[u] EXCEPT !.active = task[u].active /\ u \notin gone]
    BY DEF ApplySync, UpsertTasks
  <1>3. TaskRows
    BY DEF Inv, TypeOK
  <1>4. t \in DOMAIN task' /\ task'[t].active /\ task'[t].content \notin Live'
    BY DEF Stranded, Active
  <1>5. task'[t].content \in DOMAIN group'
    <2>1. CASE t \in DOMAIN batch
      <3>1. task'[t].content = IF Pinned(t) THEN task[t].content ELSE batch[t]
        BY <1>2, <2>1
      <3>2. QED
        BY <1>1, <1>3, <2>1, <3>1 DEF Pinned, TaskRows
    <2>2. CASE t \notin DOMAIN batch
      <3>1. t \in DOMAIN task /\ task'[t].content = task[t].content
        BY <1>2, <1>3, <1>4, <2>2 DEF TaskRows
      <3>2. QED
        BY <1>1, <1>3, <3>1 DEF TaskRows
    <2>3. QED
      BY <2>1, <2>2
  <1>6. task'[t].content \in DOMAIN group /\ group[task'[t].content].retired
    BY <1>1, <1>4, <1>5 DEF Live
  <1>7. t \in Active /\ task'[t].content = task[t].content => t \in Stranded
    BY <1>6 DEF Stranded, Live
  <1>8. QED
    BY <1>6, <1>7 DEF EntersRetired, Live

\* A restore brings every group it fills back into use, but for the restored one.
LEMMA RestoreStrands ==
    ASSUME Inv, NEW g \in Live, RestoreAutomaticGroup(g), ~SelfSuggested(g)
    PROVE  Stranded' \subseteq Stranded
  <1> SUFFICES ASSUME NEW t \in Stranded', t \notin Stranded PROVE FALSE
    OBVIOUS
  <1> DEFINE targets == {task[u].suggested : u \in Members(g)}
  <1>1. /\ task' = [u \in DOMAIN task |->
                IF task[u].content = g /\ task[u].suggested \in targets
                THEN [task[u] EXCEPT !.content = task[u].suggested, !.manual = FALSE]
                ELSE task[u]]
        /\ group' = [h \in DOMAIN group |->
                IF h = g THEN Retired(group[h])
                ELSE IF h \in targets THEN [group[h] EXCEPT !.retired = FALSE]
                ELSE group[h]]
    BY DEF RestoreAutomaticGroup
  <1>2. g \notin targets
    BY DEF SelfSuggested
  <1>3. TaskRows /\ GroupRows
    BY DEF Inv, TypeOK
  <1>4. t \in DOMAIN task /\ task'[t].active /\ task'[t].content \notin Live'
    BY <1>1 DEF Stranded, Active
  <1>5. task[t] \in [active : BOOLEAN, content : DOMAIN group, manual : BOOLEAN,
                     suggested : DOMAIN group \cap AutoGroups]
    BY <1>3, <1>4 DEF TaskRows
  <1>6. CASE task[t].content = g
    <2> DEFINE s == task[t].suggested
    <2>1. task[t].active
      <3>1. task'[t].active = task[t].active
        BY <1>1, <1>4, <1>5
      <3>2. QED
        BY <1>4, <3>1
    <2>2. s \in targets /\ s # g /\ s \in DOMAIN group
      BY <1>2, <1>4, <1>5, <1>6, <2>1 DEF Members, Active
    <2>3. task'[t].content = s
      BY <1>1, <1>4, <1>5, <1>6, <2>2
    <2> HIDE DEF s, targets
    <2>4. group'[s] = [group[s] EXCEPT !.retired = FALSE]
      BY <1>1, <2>2
    <2>5. s \in DOMAIN group' /\ ~group'[s].retired
      BY <1>1, <1>3, <2>2, <2>4 DEF GroupRows, GroupType
    <2>6. QED
      BY <1>4, <2>3, <2>5 DEF Live
  <1>7. CASE task[t].content # g
    <2> DEFINE c == task[t].content
    <2>1. task'[t] = task[t]
      BY <1>1, <1>4, <1>7
    <2>2. c \in Live /\ c # g
      BY <1>4, <1>7, <2>1 DEF Stranded, Active
    <2> HIDE DEF c, targets
    <2>3. group'[c] = [group[c] EXCEPT !.retired = FALSE] \/ group'[c] = group[c]
      BY <1>1, <2>2 DEF Live
    <2>4. c \in DOMAIN group' /\ ~group'[c].retired
      BY <1>1, <1>3, <2>2, <2>3 DEF Live, GroupRows, GroupType
    <2>5. QED
      BY <1>4, <2>1, <2>4 DEF Live, c
  <1>8. QED
    BY <1>6, <1>7

LEMMA DeleteStrandsNone ==
    ASSUME NEW d \in Downloaders, DeleteDownloader(d) PROVE Stranded' \subseteq Stranded
  BY DEF DeleteDownloader, Stranded, Active, Live

LEMMA LockStrandsNone ==
    ASSUME Inv, NEW g \in Live, NEW locked \in BOOLEAN, SetGroupLock(g, locked)
    PROVE  Stranded' \subseteq Stranded
  <1>1. task' = task /\ DOMAIN group' = DOMAIN group
    BY DEF SetGroupLock
  <1>2. ASSUME NEW h \in DOMAIN group PROVE group'[h].retired = group[h].retired
    <2>1. group[h] \in GroupType
      BY DEF Inv, TypeOK, GroupRows
    <2>2. CASE h = g
      <3> DEFINE v == group[h].version + 1
      <3>1. group'[h] = [group[h] EXCEPT !.version = v, !.locked = locked]
        BY <2>2 DEF SetGroupLock
      <3> HIDE DEF v
      <3>2. QED
        BY <2>1, <3>1 DEF GroupType
    <2>3. CASE h # g
      BY <2>3 DEF SetGroupLock
    <2>4. QED
      BY <2>2, <2>3
  <1>3. Live' = Live
    BY <1>1, <1>2 DEF Live
  <1>4. QED
    BY <1>1, <1>3 DEF Stranded, Active

-----------------------------------------------------------------------------
(* The theorems.                                                            *)

LEMMA InvInit == Init => Inv
  BY DEF Init, Inv, TypeOK, TaskRows, GroupRows, CreatedGroupsPinned, JournalInv, VersionsGrow,
         VersionsDiffer, UndoneIsOver, CreatedAsRecorded, PinnedBefore, SavedInUse

LEMMA EditInv ==
    ASSUME Inv, NEW o, NEW moved, NEW target, NEW sources, NEW created,
           EditStep(o, moved, target, sources, created)
    PROVE  Inv' /\ Stranded' \subseteq Stranded
  BY EditKeepsTypes, EditKeepsJournal, EditStrandsNone DEF Inv

\* The three edits, and what they share.
LEMMA Edits ==
    ASSUME TypeOK, Split \/ Move \/ Merge
    PROVE  \E o, moved, target, sources, created : EditStep(o, moved, target, sources, created)
  <1>1. CASE Split
    BY <1>1, SplitEdits DEF Split
  <1>2. CASE Move
    BY <1>2, MoveEdits DEF Move
  <1>3. CASE Merge
    BY <1>3, MergeEdits DEF Merge
  <1>4. QED
    BY <1>1, <1>2, <1>3

LEMMA InvStep ==
    ASSUME Inv, [Next]_vars
    PROVE  Inv' /\ (operation' # operation => Stranded' \subseteq Stranded)
  <1>1. CASE Split \/ Move \/ Merge
    BY <1>1, Edits, EditInv DEF Inv
  <1>2. CASE Undo
    <2>1. PICK o \in DOMAIN operation : UndoGroupOperation(o)
      BY <1>2 DEF Undo
    <2>2. QED
      BY <2>1, UndoKeepsTypes, UndoKeepsJournal, UndoStrandsNone DEF Inv
  <1>3. CASE Sync
    <2>1. PICK d \in Downloaders : \E batch \in Batches(d) : \E gone \in SUBSET TasksOf(d) :
                ApplySync(d, batch, gone)
      BY <1>3 DEF Sync
    <2>2. PICK batch \in Batches(d) : \E gone \in SUBSET TasksOf(d) : ApplySync(d, batch, gone)
      BY <2>1
    <2>3. PICK gone \in SUBSET TasksOf(d) : ApplySync(d, batch, gone)
      BY <2>2
    <2>4. operation' = operation
      BY <2>3 DEF ApplySync
    <2>5. QED
      BY <2>3, <2>4, SyncQuiet
  <1>4. CASE Delete
    BY <1>4, DeleteQuiet DEF Delete, DeleteDownloader
  <1>5. CASE Lock
    BY <1>5, LockQuiet DEF Lock, SetGroupLock
  <1>6. CASE Restore
    <2>1. PICK g \in Live : RestoreAutomaticGroup(g)
      BY <1>6 DEF Restore
    <2>2. operation' = operation
      BY <2>1 DEF RestoreAutomaticGroup
    <2>3. QED
      BY <2>1, <2>2, RestoreQuiet
  <1>7. CASE UNCHANGED vars
    <2>1. task' = task /\ group' = group /\ operation' = operation /\ configured' = configured
      BY <1>7 DEF vars
    <2>2. TypeOK' /\ CreatedGroupsPinned'
      BY <2>1 DEF Inv, TypeOK, TaskRows, GroupRows, JournalRow, CreatedGroupsPinned
    <2>3. JournalInv'
      BY <2>1 DEF Inv, JournalInv, VersionsGrow, VersionsDiffer, UndoneIsOver, CreatedAsRecorded,
                  PinnedBefore, SavedInUse, Affected, After
    <2>4. QED
      BY <2>1, <2>2, <2>3 DEF Inv
  <1>8. QED
    BY <1>1, <1>2, <1>3, <1>4, <1>5, <1>6, <1>7 DEF Next

\* The strengthening every theorem below rests on: rows fit together, versions
\* only grow, and no two edits left a group at the same one.
THEOREM JournalIsConsistent == Spec => []Inv
  <1>1. Inv /\ [Next]_vars => Inv'
    BY InvStep
  <1>2. QED
    BY InvInit, <1>1, PTL DEF Spec

\* Tasks, suggestions and journal entries always name groups that have a row.
THEOREM ContentTypes == Spec => []TypeOK
  <1>1. Inv => TypeOK
    BY DEF Inv
  <1>2. QED
    BY JournalIsConsistent, <1>1, PTL

\* What stands in a group made by hand is pinned there, whatever was undone.
THEOREM CreatedGroupsArePinned == Spec => []CreatedGroupsPinned
  <1>1. Inv => CreatedGroupsPinned
    BY DEF Inv
  <1>2. QED
    BY JournalIsConsistent, <1>1, PTL

\* Of the edits of a group only the last can be undone: two that could would both
\* have left it at its present version (UndoGroupOperation, groups.go:1003-1019).
THEOREM OneUndo == Spec => []OneUndoPerGroup
  <1>1. Inv => OneUndoPerGroup
    <2> SUFFICES ASSUME Inv, NEW o \in DOMAIN operation, NEW p \in DOMAIN operation, o # p,
                        Undoable(o), Undoable(p), NEW g \in Affected(o) \cap Affected(p)
                 PROVE  FALSE
      BY DEF OneUndoPerGroup
    <2>1. After(o, g) = group[g].version /\ After(p, g) = group[g].version
      BY DEF Undoable, GroupsAsLeft, After
    <2>2. QED
      BY <2>1 DEF Inv, JournalInv, VersionsDiffer
  <1>2. QED
    BY JournalIsConsistent, <1>1, PTL

\* A group an undo took out of use stays out of use for good.
THEOREM UndoneStays == Spec => []UndoneStaysUndone
  <1>1. Inv => UndoneStaysUndone
    BY DEF Inv, JournalInv, UndoneIsOver, UndoneStaysUndone
  <1>2. QED
    BY JournalIsConsistent, <1>1, PTL

\* No split, move, merge or undo leaves a task in a group that no list shows.
THEOREM EditsListTasks == Spec => EditsKeepTasksListed
  <1>1. Inv /\ [Next]_vars => [operation' # operation => Stranded' \subseteq Stranded]_vars
    BY InvStep
  <1>2. QED
    BY JournalIsConsistent, <1>1, PTL DEF Spec, EditsKeepTasksListed

\* A listed task leaves the lists in two ways only: a sync brings it into a group
\* retired before, or a group is restored that is itself a suggestion for one of its
\* members (ApplySync and RestoreAutomaticGroup; everything else keeps it listed).
THEOREM ListedTasksStay == Spec => TasksStayListed
  <1> DEFINE Kept == \/ Stranded' \subseteq Stranded
                     \/ Sync /\ \A t \in Stranded' \ Stranded : EntersRetired(t)
                     \/ \E g \in Live : RestoreAutomaticGroup(g) /\ SelfSuggested(g)
  <1>1. ASSUME Inv, Next PROVE Kept
    <2>1. CASE Split \/ Move \/ Merge
      BY <1>1, <2>1, Edits, EditInv DEF Inv
    <2>2. CASE Undo
      BY <1>1, <2>2, UndoStrandsNone DEF Undo
    <2>3. CASE Sync
      <3>1. PICK d \in Downloaders : \E batch \in Batches(d) : \E gone \in SUBSET TasksOf(d) :
                  ApplySync(d, batch, gone)
        BY <2>3 DEF Sync
      <3>2. PICK batch \in Batches(d) : \E gone \in SUBSET TasksOf(d) : ApplySync(d, batch, gone)
        BY <3>1
      <3>3. PICK gone \in SUBSET TasksOf(d) : ApplySync(d, batch, gone)
        BY <3>2
      <3>4. \A t \in Stranded' \ Stranded : EntersRetired(t)
        BY <1>1, <3>3, SyncStrands
      <3>5. QED
        BY <2>3, <3>4
    <2>4. CASE Delete
      BY <2>4, DeleteStrandsNone DEF Delete
    <2>5. CASE Lock
      BY <1>1, <2>5, LockStrandsNone DEF Lock
    <2>6. CASE Restore
      BY <1>1, <2>6, RestoreStrands DEF Restore
    <2>7. QED
      BY <1>1, <2>1, <2>2, <2>3, <2>4, <2>5, <2>6 DEF Next
  <1>2. Inv /\ [Next]_vars => [Kept]_vars
    BY <1>1
  <1>3. QED
    BY JournalIsConsistent, <1>2, PTL DEF Spec, TasksStayListed
=============================================================================
