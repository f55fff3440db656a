----------------------- MODULE PlannedDeletionProofs -----------------------
(***************************************************************************)
(* Proofs about PlannedDeletion, for any tasks, downloaders, storages and  *)
(* views: what an accepted plan deletes is unreferenced, proven, and what  *)
(* the preview showed.                                                     *)
(***************************************************************************)
EXTENDS PlannedDeletion, TLAPS, FiniteSetTheorems

\* The saved plan is the plan its ID names.
PlanIsNamed ==
    stage # "none" => plan.id = PlanId(plan.request, plan.taskOnly, plan.dataDeleting)

KnownTasks == DOMAIN task \subseteq Tasks

PlanInv == PlanIsNamed /\ KnownTasks

LEMMA SyncKeepsTasks ==
    ASSUME KnownTasks, NEW d, NEW snapshot \in Snapshots(d), ApplySync(d, snapshot)
    PROVE  KnownTasks'
  <1>1. DOMAIN snapshot.batch \subseteq TasksOf(d)
    BY DEF Snapshots, Batches
  <1>2. DOMAIN task' = DOMAIN task \cup DOMAIN snapshot.batch
    BY DEF ApplySync, UpsertTasks
  <1>3. QED
    BY <1>1, <1>2 DEF KnownTasks, TasksOf

LEMMA PlanInvStep == ASSUME PlanInv, [Next]_vars PROVE PlanInv'
  <1> USE DEF PlanInv, requestVars, mirrorVars
  <1>1. ASSUME NEW d \in DOMAIN downloader, NEW snapshot \in Snapshots(d), Sync(d, snapshot)
        PROVE PlanInv'
    BY <1>1, SyncKeepsTasks DEF Sync, PlanIsNamed
  <1>2. ASSUME NEW d \in todo, NEW snapshot \in Snapshots(d), Refresh(d, snapshot)
        PROVE PlanInv'
    BY <1>2, SyncKeepsTasks DEF Refresh, PlanIsNamed
  <1>3. ASSUME NEW d \in DOMAIN downloader, Watch(d) PROVE PlanInv'
    BY <1>3 DEF Watch, LoseTouch, MarkReachable, PlanIsNamed, KnownTasks
  <1>4. ASSUME NEW d \in Downloaders, Configure(d) PROVE PlanInv'
    BY <1>4 DEF Configure, AddDownloader, PlanIsNamed, KnownTasks
  <1>5. ASSUME NEW t \in DOMAIN task, NEW g \in DOMAIN contentGroup, Move(t, g) PROVE PlanInv'
    BY <1>5 DEF Move, MoveInstance, PlanIsNamed, KnownTasks
  <1>6. ASSUME NEW g \in DOMAIN contentGroup, Lock(g) PROVE PlanInv'
    BY <1>6 DEF Lock, SetGroupLock, PlanIsNamed, KnownTasks
  <1>7. ASSUME NEW select \in SUBSET DOMAIN task, Preview(select) PROVE PlanInv'
    BY <1>7 DEF Preview, PlanDeletion, PlanIsNamed, KnownTasks
  <1>8. ASSUME Begin \/ Accept \/ Refuse PROVE PlanInv'
    BY <1>8 DEF Begin, Accept, Refuse, PlanIsNamed, KnownTasks
  <1>9. ASSUME NEW d \in Downloaders, RefreshFailed(d) PROVE PlanInv'
    BY <1>9 DEF RefreshFailed, LoseTouch, PlanIsNamed, KnownTasks
  <1>10. ASSUME NEW t \in Tasks, IssueTask(t) PROVE PlanInv'
    BY <1>10 DEF IssueTask, PlanIsNamed, KnownTasks
  <1>11. ASSUME NEW step \in plan.dataDeleting, IssueData(step) PROVE PlanInv'
    BY <1>11 DEF IssueData, PlanIsNamed, KnownTasks
  <1>12. CASE UNCHANGED vars
    BY <1>12 DEF vars, PlanIsNamed, KnownTasks
  <1>13. QED
    BY <1>1, <1>2, <1>3, <1>4, <1>5, <1>6, <1>7, <1>8, <1>9, <1>10, <1>11, <1>12
       DEF Next, MirrorStep, RequestStep

\* A saved plan always carries the ID of its own steps.
THEOREM PlanInvariant == Spec => []PlanInv
  <1>1. Init => PlanInv
    BY DEF Init, MirrorInit, PlanInv, PlanIsNamed, KnownTasks
  <1>2. QED
    BY <1>1, PlanInvStep, PTL DEF Spec

-----------------------------------------------------------------------------
(* What revalidation establishes.                                           *)

\* The task that takes the files along is a selected member of the group.
LEMMA OwnerIsSelected ==
    ASSUME KnownTasks, NEW select, NEW k \in SelectedGroups(select)
    PROVE  Owner(select, k) \in ActiveIn(k) \cap select
  <1> DEFINE S == ActiveIn(k) \cap select
  <1>0. PICK t \in Selected(select) : task[t].group = k
    BY DEF SelectedGroups
  <1>1. S \subseteq Tasks /\ t \in S
    BY <1>0 DEF Selected, ActiveIn, Active, KnownTasks
  <1>2. \E u \in S : \A v \in S : Rank[v] <= Rank[u]
    BY <1>1, RankAssumption
  <1>3. QED
    BY <1>2 DEF Owner

\* Every step that the accepted plan keeps is a step of the plan of now.
LEMMA ConfirmedStep ==
    ASSUME PlanInv, Accept, NEW step \in plan.dataDeleting
    PROVE  LET select == plan.request.select IN
           /\ Target(step) \in SelectedGroups(select)
           /\ DeletesData(select, Target(step))
           /\ Owner(select, Target(step)) = step.task
           /\ step.task \in ActiveIn(Target(step)) \cap select
           /\ Manifest(step.task) = step.manifest
           /\ ~Blocked(plan.request)
  <1> DEFINE select == plan.request.select
             current == PlanDeletion(plan.request)
  <1>1. ~Blocked(plan.request) /\ current.id = plan.id
    BY DEF Accept, Confirmed, PlanDeletion
  <1>2. {<<s.task, s.manifest>> : s \in DataSteps(select)} = {<<s.task, s.manifest>> : s \in plan.dataDeleting}
    <2>1. PlanId(plan.request, TaskSteps(select), DataSteps(select)) =
                PlanId(plan.request, plan.taskOnly, plan.dataDeleting)
      BY <1>1 DEF PlanDeletion, PlanInv, PlanIsNamed, Accept
    <2>2. QED
      BY <2>1 DEF PlanId
  <1>3. PICK s \in DataSteps(select) : s.task = step.task /\ s.manifest = step.manifest
    <2>1. <<step.task, step.manifest>> \in {<<s.task, s.manifest>> : s \in DataSteps(select)}
      BY <1>2
    <2>2. PICK s \in DataSteps(select) : <<step.task, step.manifest>> = <<s.task, s.manifest>>
      BY <2>1
    <2>3. QED
      BY <2>2
  <1>4. PICK k \in SelectedGroups(select) :
            DeletesData(select, k) /\ s.task = Owner(select, k) /\ s.manifest = Manifest(Owner(select, k))
    BY DEF DataSteps
  <1>5. step.task \in ActiveIn(k) \cap select
    BY <1>3, <1>4, OwnerIsSelected DEF PlanInv
  <1>6. Target(step) = k
    BY <1>5 DEF Target, ActiveIn
  <1>7. QED
    BY <1>1, <1>3, <1>4, <1>5, <1>6

\* An executable plan deletes data on evidence that every member shares.
LEMMA EvidenceShared ==
    ASSUME NEW request, ~Blocked(request), NEW k \in SelectedGroups(request.select),
           DeletesData(request.select, k), NEW t \in ActiveIn(k)
    PROVE  task[t].view.ev = dataGroup[k].ev /\ dataGroup[k].ev # NoEvidence
  <1>1. ~DataUnsafe(request.select, k) /\ ~EvidenceMismatch(k)
    BY DEF Blocked
  <1>2. dataGroup[k].confidence = "verified"
    BY <1>1 DEF DataUnsafe
  <1>3. QED
    BY <1>1, <1>2 DEF EvidenceMismatch

-----------------------------------------------------------------------------

\* The data of an accepted plan is no file of a task that stays: reference
\* counting and the occupants of PlanDeletion, over the mirror of revalidation.
THEOREM DataIsUnreferenced == Spec => AcceptedDataIsUnreferenced
  <1>1. ASSUME PlanInv, Accept PROVE Unreferenced
    <2> SUFFICES ASSUME NEW step \in plan.dataDeleting, NEW t \in Active
                 PROVE  IF task[t].group = Target(step) THEN t \in plan.request.select
                        ELSE task[t].group.storage = Target(step).storage =>
                             IF ManifestUsable(t) THEN task[t].view.files \cap step.manifest.files = {}
                             ELSE ~Overlap(task[t].view.path, Target(step).path)
      BY DEF Unreferenced
    <2> DEFINE k == Target(step)
               select == plan.request.select
    <2>1. /\ k \in SelectedGroups(select) /\ DeletesData(select, k) /\ Owner(select, k) = step.task
          /\ Manifest(step.task) = step.manifest /\ ~Blocked(plan.request)
      BY <1>1, ConfirmedStep
    <2>2. CASE task[t].group = k
      BY <2>1, <2>2 DEF DeletesData, ActiveIn
    <2>3. CASE task[t].group # k
      <3>1. ~DataUnsafe(select, k)
        BY <2>1 DEF Blocked
      <3>2. ~Occupies(t, k, task[Owner(select, k)].view.files)
        BY <3>1 DEF DataUnsafe, Occupied
      <3>3. task[Owner(select, k)].view.files = step.manifest.files
        BY <2>1 DEF Manifest
      <3>4. QED
        BY <2>3, <3>2, <3>3 DEF Occupies
    <2>4. QED
      BY <2>2, <2>3
  <1>2. PlanInv => [Accept => Unreferenced]_vars
    BY <1>1
  <1>3. QED
    BY <1>2, PlanInvariant, PTL DEF AcceptedDataIsUnreferenced

\* However the confidence of the group was rewritten, every member of a group
\* whose data goes holds the selected files of the manifest.
THEOREM DataIsProven == Spec => AcceptedDataIsProven
  <1> DEFINE Proven == \A step \in plan.dataDeleting : \A t \in ActiveIn(Target(step)) :
                task[t].view.ev = step.manifest.ev /\ task[t].view.ev # NoEvidence
  <1>1. ASSUME PlanInv, Accept PROVE Proven
    <2> SUFFICES ASSUME NEW step \in plan.dataDeleting, NEW t \in ActiveIn(Target(step))
                 PROVE  task[t].view.ev = step.manifest.ev /\ task[t].view.ev # NoEvidence
      OBVIOUS
    <2> DEFINE k == Target(step)
    <2>1. /\ k \in SelectedGroups(plan.request.select) /\ DeletesData(plan.request.select, k)
          /\ step.task \in ActiveIn(k)
          /\ Manifest(step.task) = step.manifest /\ ~Blocked(plan.request)
      BY <1>1, ConfirmedStep
    <2>2. task[t].view.ev = dataGroup[k].ev /\ dataGroup[k].ev # NoEvidence
      BY <2>1, EvidenceShared
    <2>3. task[step.task].view.ev = dataGroup[k].ev
      BY <2>1, EvidenceShared
    <2>4. step.manifest.ev = task[step.task].view.ev
      BY <2>1 DEF Manifest
    <2>5. QED
      BY <2>2, <2>3, <2>4
  <1>2. PlanInv => [Accept => Proven]_vars
    BY <1>1
  <1>3. QED
    BY <1>2, PlanInvariant, PTL DEF AcceptedDataIsProven

\* The manifests are part of the plan ID, so no file is deleted that the preview
\* did not show.
THEOREM DataIsAsPreviewed == Spec => AcceptedAsPreviewed
  <1> DEFINE AsPreviewed == \A step \in plan.dataDeleting :
                step.task \in Active /\ Manifest(step.task) = step.manifest
  <1>1. ASSUME PlanInv, Accept PROVE AsPreviewed
    BY <1>1, ConfirmedStep DEF ActiveIn
  <1>2. PlanInv => [Accept => AsPreviewed]_vars
    BY <1>1
  <1>3. QED
    BY <1>2, PlanInvariant, PTL DEF AcceptedAsPreviewed

-----------------------------------------------------------------------------
(* The refresh barrier.                                                     *)

\* A row has the columns of a row, and its group lies on the storage of its
\* downloader.
RowsOnStorage ==
    \A t \in DOMAIN task :
        /\ DOMAIN task[t] = {"active", "view", "group", "content", "manual"}
        /\ task[t].group.storage = Storage[Home[t]]

StepsOnStorage ==
    stage # "none" =>
        \A step \in plan.dataDeleting : step.group.storage = Storage[Home[step.task]]

Covers(d, step) == d \in Enabled /\ Storage[d] = Storage[Home[step.task]]

\* While a request runs, a downloader of the storage that counts as current without
\* a test was read, or its turn is still to come.
CurrentMeansHeard ==
    stage = "refreshing" =>
        \A step \in plan.dataDeleting : \A d \in DOMAIN downloader \ Tested :
            Covers(d, step) => d \in todo \/ d \in synced \/ downloader[d] = FALSE

BarrierInv == PlanInv /\ RowsOnStorage /\ StepsOnStorage /\ CurrentMeansHeard

LEMMA SyncKeepsRows ==
    ASSUME RowsOnStorage, NEW d, NEW snapshot \in Snapshots(d), ApplySync(d, snapshot)
    PROVE  RowsOnStorage'
  <1> SUFFICES ASSUME NEW t \in DOMAIN task'
               PROVE  /\ DOMAIN task'[t] = {"active", "view", "group", "content", "manual"}
                      /\ task'[t].group.storage = Storage[Home[t]]
    BY DEF RowsOnStorage
  <1>1. CASE t \in DOMAIN snapshot.batch
    <2>1. task'[t] = TaskRow(snapshot.batch, t)
      BY <1>1 DEF ApplySync, UpsertTasks
    <2>2. QED
      BY <2>1 DEF TaskRow, GroupKey
  <1>2. CASE t \notin DOMAIN snapshot.batch
    <2>1. t \in DOMAIN task
      BY <1>2 DEF ApplySync, UpsertTasks
    <2>2. task'[t] = [task[t] EXCEPT !.active = @ /\ ~Vanished(d, snapshot, t)]
      BY <1>2, <2>1 DEF ApplySync, UpsertTasks
    <2>3. DOMAIN task[t] = {"active", "view", "group", "content", "manual"}
      BY <2>1 DEF RowsOnStorage
    <2>4. DOMAIN task'[t] = DOMAIN task[t] /\ task'[t].group = task[t].group
      BY <2>2, <2>3
    <2>5. QED
      BY <2>1, <2>3, <2>4 DEF RowsOnStorage
  <1>3. QED
    BY <1>1, <1>2

LEMMA MoveKeepsRows ==
    ASSUME RowsOnStorage, NEW t \in DOMAIN task, NEW g \in DOMAIN contentGroup, MoveInstance(t, g)
    PROVE  RowsOnStorage'
  <1>1. DOMAIN task' = DOMAIN task
    BY DEF MoveInstance
  <1> SUFFICES ASSUME NEW u \in DOMAIN task
               PROVE  DOMAIN task'[u] = DOMAIN task[u] /\ task'[u].group = task[u].group
    BY <1>1 DEF RowsOnStorage
  <1>2. DOMAIN task[u] = {"active", "view", "group", "content", "manual"}
    BY DEF RowsOnStorage
  <1>3. CASE u = t
    <2>1. task'[u] = [[task[u] EXCEPT !.content = g] EXCEPT !.manual = TRUE]
      BY <1>3 DEF MoveInstance
    <2>2. QED
      BY <2>1, <1>2
  <1>4. CASE u # t
    BY <1>4 DEF MoveInstance
  <1>5. QED
    BY <1>3, <1>4

LEMMA PreviewOnStorage ==
    ASSUME KnownTasks, RowsOnStorage, NEW request, NEW step \in PlanDeletion(request).dataDeleting
    PROVE  step.group.storage = Storage[Home[step.task]]
  <1>1. PICK k \in SelectedGroups(request.select) :
            step.group = k /\ step.task = Owner(request.select, k)
    BY DEF PlanDeletion, DataSteps
  <1>2. step.task \in ActiveIn(k)
    BY <1>1, OwnerIsSelected
  <1>3. QED
    BY <1>1, <1>2 DEF ActiveIn, Active, RowsOnStorage

\* What a synchronisation makes current it also makes heard.
LEMMA SyncIsHeard ==
    ASSUME CurrentMeansHeard, stage = "refreshing", NEW d, NEW snapshot \in Snapshots(d), ApplySync(d, snapshot),
           Heard(d), todo' \cup {d} = todo \cup {d}, UNCHANGED <<plan, stage>>
    PROVE  CurrentMeansHeard'
  <1>1. DOMAIN downloader' = DOMAIN downloader
    BY DEF ApplySync
  <1>2. \A e \in DOMAIN downloader : e # d => downloader'[e] = downloader[e]
    BY DEF ApplySync
  <1>3. synced' = synced \cup {d}
    BY DEF Heard
  <1>4. QED
    BY <1>1, <1>2, <1>3 DEF CurrentMeansHeard, Covers

LEMMA BarrierInvStep == ASSUME BarrierInv, [Next]_vars PROVE BarrierInv'
  <1>0. PlanInv'
    BY PlanInvStep DEF BarrierInv
  <1> USE <1>0 DEF BarrierInv, requestVars, mirrorVars
  <1>1. ASSUME NEW d \in DOMAIN downloader, NEW snapshot \in Snapshots(d), Sync(d, snapshot)
        PROVE BarrierInv'
    <2>1. RowsOnStorage'
      BY <1>1, SyncKeepsRows DEF Sync
    <2>2. StepsOnStorage'
      BY <1>1 DEF Sync, StepsOnStorage
    <2>3. CASE stage = "refreshing"
      <3>1. CurrentMeansHeard'
        BY <1>1, <2>3, SyncIsHeard DEF Sync
      <3>2. QED
        BY <2>1, <2>2, <3>1
    <2>4. CASE stage # "refreshing"
      BY <1>1, <2>1, <2>2, <2>4 DEF Sync, CurrentMeansHeard
    <2>5. QED
      BY <2>3, <2>4
  <1>2. ASSUME NEW d \in todo, NEW snapshot \in Snapshots(d), Refresh(d, snapshot)
        PROVE BarrierInv'
    <2>1. RowsOnStorage'
      BY <1>2, SyncKeepsRows DEF Refresh
    <2>2. StepsOnStorage'
      BY <1>2 DEF Refresh, StepsOnStorage
    <2>3. todo' \cup {d} = todo \cup {d}
      BY <1>2 DEF Refresh
    <2>4. CurrentMeansHeard'
      BY <1>2, <2>3, SyncIsHeard DEF Refresh
    <2>5. QED
      BY <2>1, <2>2, <2>4
  <1>3. ASSUME NEW d \in DOMAIN downloader, Watch(d) PROVE BarrierInv'
    <2>1. /\ DOMAIN downloader' = DOMAIN downloader
          /\ \A e \in DOMAIN downloader : e \notin Tested /\ downloader[e] = FALSE => downloader'[e] = FALSE
          /\ UNCHANGED <<task, plan, stage, todo, synced>>
      BY <1>3 DEF Watch, LoseTouch, MarkReachable
    <2>2. RowsOnStorage' /\ StepsOnStorage'
      BY <2>1 DEF RowsOnStorage, StepsOnStorage
    <2>3. CurrentMeansHeard'
      BY <2>1 DEF CurrentMeansHeard, Covers
    <2>4. QED
      BY <2>2, <2>3
  <1>4. ASSUME NEW d \in Downloaders, Configure(d) PROVE BarrierInv'
    <2>1. /\ DOMAIN downloader' = DOMAIN downloader \cup {d}
          /\ downloader'[d] = FALSE
          /\ \A e \in DOMAIN downloader : downloader[e] = FALSE => downloader'[e] = FALSE
          /\ UNCHANGED <<task, plan, stage, todo, synced>>
      BY <1>4 DEF Configure, AddDownloader
    <2>2. RowsOnStorage' /\ StepsOnStorage'
      BY <2>1 DEF RowsOnStorage, StepsOnStorage
    <2>3. CurrentMeansHeard'
      BY <2>1 DEF CurrentMeansHeard, Covers
    <2>4. QED
      BY <2>2, <2>3
  <1>5. ASSUME NEW t \in DOMAIN task, NEW g \in DOMAIN contentGroup, Move(t, g) PROVE BarrierInv'
    <2>1. RowsOnStorage'
      BY <1>5, MoveKeepsRows DEF Move
    <2>2. QED
      BY <1>5, <2>1 DEF Move, MoveInstance, StepsOnStorage, CurrentMeansHeard, Covers
  <1>6. ASSUME NEW g \in DOMAIN contentGroup, Lock(g) PROVE BarrierInv'
    BY <1>6 DEF Lock, SetGroupLock, RowsOnStorage, StepsOnStorage, CurrentMeansHeard, Covers
  <1>7. ASSUME NEW select \in SUBSET DOMAIN task, Preview(select) PROVE BarrierInv'
    <2>1. /\ plan' = PlanDeletion(Captured(select)) /\ stage' = "previewed" /\ task' = task
      BY <1>7 DEF Preview
    <2>2. StepsOnStorage'
      BY <2>1, PreviewOnStorage DEF StepsOnStorage, PlanInv
    <2>3. QED
      BY <2>1, <2>2 DEF RowsOnStorage, CurrentMeansHeard
  <1>8. ASSUME Begin PROVE BarrierInv'
    <2>1. /\ todo' = Barrier(plan) /\ stage # "none"
          /\ UNCHANGED <<task, downloader, plan>>
      BY <1>8 DEF Begin
    <2>2. StepsOnStorage'
      BY <2>1 DEF StepsOnStorage
    <2>3. \A step \in plan.dataDeleting : \A d \in DOMAIN downloader : Covers(d, step) => d \in Barrier(plan)
      BY <2>1 DEF StepsOnStorage, Barrier, Witnesses, Covers
    <2>4. CurrentMeansHeard'
      BY <2>1, <2>3 DEF CurrentMeansHeard, Covers
    <2>5. QED
      BY <2>1, <2>2, <2>4 DEF RowsOnStorage
  <1>9. ASSUME Accept \/ Refuse PROVE BarrierInv'
    BY <1>9 DEF Accept, Refuse, RowsOnStorage, StepsOnStorage, CurrentMeansHeard
  <1>10. ASSUME NEW d \in Downloaders, RefreshFailed(d) PROVE BarrierInv'
    BY <1>10 DEF RefreshFailed, LoseTouch, RowsOnStorage, StepsOnStorage, CurrentMeansHeard
  <1>11. ASSUME NEW t \in Tasks, IssueTask(t) PROVE BarrierInv'
    BY <1>11 DEF IssueTask, RowsOnStorage, StepsOnStorage, CurrentMeansHeard
  <1>12. ASSUME NEW step \in plan.dataDeleting, IssueData(step) PROVE BarrierInv'
    BY <1>12 DEF IssueData, RowsOnStorage, StepsOnStorage, CurrentMeansHeard
  <1>13. CASE UNCHANGED vars
    BY <1>13 DEF vars, RowsOnStorage, StepsOnStorage, CurrentMeansHeard, Covers
  <1>14. QED
    BY <1>1, <1>2, <1>3, <1>4, <1>5, <1>6, <1>7, <1>8, <1>9, <1>10, <1>11, <1>12, <1>13
       DEF Next, MirrorStep, RequestStep

\* What an acceptance finds unread was tested.
LEMMA AcceptanceReread ==
    ASSUME BarrierInv, Accept, NEW step \in plan.dataDeleting, NEW d \in Witnesses(Target(step)) \ Tested
    PROVE  d \in synced
  <1>1. /\ Target(step) \in SelectedGroups(plan.request.select)
        /\ DeletesData(plan.request.select, Target(step))
        /\ step.task \in ActiveIn(Target(step)) /\ ~Blocked(plan.request)
    BY ConfirmedStep DEF BarrierInv
  <1>2. Target(step).storage = Storage[Home[step.task]]
    BY <1>1 DEF BarrierInv, RowsOnStorage, ActiveIn, Active
  <1>3. d \in DOMAIN downloader \ Tested /\ Covers(d, step)
    BY <1>2 DEF Witnesses, Covers
  <1>4. ~StorageUncertain(Target(step))
    BY <1>1 DEF Blocked, DataUnsafe
  <1>5. downloader[d]
    BY <1>4 DEF StorageUncertain
  <1>6. todo = {} /\ stage = "refreshing"
    BY DEF Accept
  <1>7. QED
    BY <1>3, <1>5, <1>6 DEF BarrierInv, CurrentMeansHeard

LEMMA BarrierHolds == Spec => []BarrierInv
  <1>1. Init => BarrierInv
    BY DEF Init, MirrorInit, BarrierInv, PlanInv, PlanIsNamed, KnownTasks, RowsOnStorage,
           StepsOnStorage, CurrentMeansHeard
  <1>2. QED
    BY <1>1, BarrierInvStep, PTL DEF Spec

\* When files are deleted, every enabled downloader of their storage, old or new, has
\* been read since the request began, but for those whose connection was tested.
THEOREM UnreadWereTested == Spec => UntestedAfterBarrier
  <1> DEFINE Reread == \A step \in plan.dataDeleting : Witnesses(Target(step)) \ Tested \subseteq synced
  <1>1. BarrierInv => [Accept => Reread]_vars
    BY AcceptanceReread
  <1>2. QED
    BY <1>1, BarrierHolds, PTL DEF UntestedAfterBarrier

\* As long as nobody tests a connection, no data is deleted before every enabled
\* downloader of its storage, old or new, has been read since the request began.
THEOREM DataIsReread == ASSUME Tested = {} PROVE Spec => AcceptedAfterBarrier
  <1> DEFINE Reread == \A step \in plan.dataDeleting : Witnesses(Target(step)) \subseteq synced
  <1>1. BarrierInv => [Accept => Reread]_vars
    BY AcceptanceReread
  <1>2. QED
    BY <1>1, BarrierHolds, PTL DEF AcceptedAfterBarrier

-----------------------------------------------------------------------------
(* Edits between preview and acceptance.                                    *)

\* Every row names a listed content group, and versions are numbers.
ContentListed ==
    /\ \A t \in DOMAIN task : task[t].content \in DOMAIN contentGroup
    /\ \A g \in DOMAIN contentGroup : contentGroup[g] \in Nat

\* Nothing lowers the version of a content group, and an edit raises it, so a
\* captured version that an edit has passed never comes back.
EditsRaise ==
    stage \in {"previewed", "refreshing"} =>
        \A g \in DOMAIN plan.request.content :
            /\ g \in DOMAIN contentGroup
            /\ plan.request.content[g] \in Nat
            /\ plan.request.content[g] <= contentGroup[g]
            /\ g \in edited => plan.request.content[g] < contentGroup[g]

EditInv == PlanInv /\ RowsOnStorage /\ ContentListed /\ EditsRaise

LEMMA SyncKeepsContent ==
    ASSUME ContentListed, NEW d, NEW snapshot \in Snapshots(d), ApplySync(d, snapshot), RowsOnStorage
    PROVE  /\ ContentListed'
           /\ \A g \in DOMAIN contentGroup : g \in DOMAIN contentGroup' /\ contentGroup'[g] = contentGroup[g]
  <1> DEFINE batch == snapshot.batch
  <1>1. contentGroup' = [g \in DOMAIN contentGroup \cup GroupKeys(batch) |->
                            IF g \in DOMAIN contentGroup THEN contentGroup[g] ELSE 1]
    BY DEF ApplySync, UpsertContentGroups
  <1>2. \A g \in DOMAIN contentGroup : g \in DOMAIN contentGroup' /\ contentGroup'[g] = contentGroup[g]
    BY <1>1
  <1>3. \A g \in DOMAIN contentGroup' : contentGroup'[g] \in Nat
    BY <1>1 DEF ContentListed
  <1>4. ASSUME NEW t \in DOMAIN task' PROVE task'[t].content \in DOMAIN contentGroup'
    <2>1. CASE t \in DOMAIN batch
      <3>1. task'[t] = TaskRow(batch, t)
        BY <2>1 DEF ApplySync, UpsertTasks
      <3>2. task'[t].content = IF Pinned(t) THEN task[t].content ELSE GroupKey(batch, t)
        BY <3>1 DEF TaskRow
      <3>3. CASE Pinned(t)
        BY <3>2, <3>3, <1>1 DEF Pinned, ContentListed
      <3>4. CASE ~Pinned(t)
        <4>1. GroupKey(batch, t) \in GroupKeys(batch)
          BY <2>1 DEF GroupKeys
        <4>2. QED
          BY <3>2, <3>4, <4>1, <1>1
      <3>5. QED
        BY <3>3, <3>4
    <2>2. CASE t \notin DOMAIN batch
      <3>1. t \in DOMAIN task /\ task'[t] = [task[t] EXCEPT !.active = @ /\ ~Vanished(d, snapshot, t)]
        BY <2>2 DEF ApplySync, UpsertTasks
      <3>2. "content" \in DOMAIN task[t]
        BY <3>1 DEF RowsOnStorage
      <3>3. task'[t].content = task[t].content
        BY <3>1, <3>2
      <3>4. QED
        BY <3>1, <3>3, <1>1 DEF ContentListed
    <2>3. QED
      BY <2>1, <2>2
  <1>5. QED
    BY <1>2, <1>3, <1>4 DEF ContentListed

LEMMA MoveRaises ==
    ASSUME RowsOnStorage, ContentListed, NEW t \in DOMAIN task, NEW g \in DOMAIN contentGroup, MoveInstance(t, g)
    PROVE  /\ ContentListed'
           /\ DOMAIN contentGroup' = DOMAIN contentGroup
           /\ \A h \in DOMAIN contentGroup : contentGroup'[h] >= contentGroup[h]
           /\ \A h \in {g, task[t].content} : contentGroup'[h] = contentGroup[h] + 1
  <1> DEFINE old == task[t].content
  <1>1. old \in DOMAIN contentGroup /\ g # old
    BY DEF MoveInstance, ContentListed
  <1>2. /\ task' = [task EXCEPT ![t].content = g, ![t].manual = TRUE]
        /\ contentGroup' = [contentGroup EXCEPT ![g] = @ + 1, ![old] = @ + 1]
    BY DEF MoveInstance
  <1> HIDE DEF old
  <1>3. DOMAIN contentGroup' = DOMAIN contentGroup
    BY <1>2
  <1>4. contentGroup'[g] = contentGroup[g] + 1 /\ contentGroup'[old] = contentGroup[old] + 1
    BY <1>1, <1>2
  <1>5. \A h \in DOMAIN contentGroup \ {g, old} : contentGroup'[h] = contentGroup[h]
    BY <1>2
  <1>6. \A h \in DOMAIN contentGroup : contentGroup'[h] \in Nat /\ contentGroup'[h] >= contentGroup[h]
    BY <1>1, <1>4, <1>5 DEF ContentListed
  <1>7. ASSUME NEW u \in DOMAIN task' PROVE task'[u].content \in DOMAIN contentGroup
    <2>1. u \in DOMAIN task /\ "content" \in DOMAIN task[u]
      BY <1>2 DEF RowsOnStorage
    <2>2. CASE u = t
      <3>1. task'[u] = [[task[u] EXCEPT !.content = g] EXCEPT !.manual = TRUE]
        BY <1>2, <2>2
      <3>2. QED
        BY <2>1, <3>1
    <2>3. CASE u # t
      BY <1>2, <2>1, <2>3 DEF ContentListed
    <2>4. QED
      BY <2>2, <2>3
  <1>8. QED
    BY <1>3, <1>4, <1>6, <1>7 DEF ContentListed, old

\* The step of an edit: what it edits is raised, and nothing else is lowered.
LEMMA EditKeepsRaised ==
    ASSUME ContentListed, EditsRaise, NEW groups, Edited(groups), UNCHANGED <<plan, stage>>,
           DOMAIN contentGroup' = DOMAIN contentGroup,
           \A g \in DOMAIN contentGroup : contentGroup'[g] \in Nat /\ contentGroup'[g] >= contentGroup[g],
           \A g \in groups : contentGroup'[g] = contentGroup[g] + 1
    PROVE  EditsRaise'
  <1> SUFFICES ASSUME stage \in {"previewed", "refreshing"}, NEW g \in DOMAIN plan.request.content
               PROVE  /\ g \in DOMAIN contentGroup'
                      /\ plan.request.content[g] \in Nat
                      /\ plan.request.content[g] <= contentGroup'[g]
                      /\ g \in edited' => plan.request.content[g] < contentGroup'[g]
    BY DEF EditsRaise
  <1>1. /\ g \in DOMAIN contentGroup /\ plan.request.content[g] \in Nat
        /\ plan.request.content[g] <= contentGroup[g]
        /\ g \in edited => plan.request.content[g] < contentGroup[g]
    BY DEF EditsRaise
  <1>2. contentGroup[g] \in Nat /\ contentGroup'[g] \in Nat /\ contentGroup'[g] >= contentGroup[g]
    BY <1>1 DEF ContentListed
  <1>3. plan.request.content[g] <= contentGroup'[g]
    BY <1>1, <1>2
  <1>4. CASE g \in groups
    <2>1. contentGroup'[g] = contentGroup[g] + 1
      BY <1>4
    <2>2. plan.request.content[g] < contentGroup'[g]
      BY <1>1, <1>2, <2>1
    <2>3. QED
      BY <1>1, <1>3, <2>2
  <1>5. CASE g \notin groups
    <2>1. edited' = edited \cup groups
      BY DEF Edited
    <2>2. g \in edited' => plan.request.content[g] < contentGroup'[g]
      BY <1>1, <1>2, <1>5, <2>1
    <2>3. QED
      BY <1>1, <1>3, <2>2
  <1>6. QED
    BY <1>4, <1>5

\* A synchronisation changes no version, so it hides no edit.
LEMMA SyncKeepsRaised ==
    ASSUME EditsRaise, UNCHANGED <<plan, stage, edited>>,
           \A g \in DOMAIN contentGroup : g \in DOMAIN contentGroup' /\ contentGroup'[g] = contentGroup[g]
    PROVE  EditsRaise'
  BY DEF EditsRaise

LEMMA EditInvStep == ASSUME EditInv, [Next]_vars PROVE EditInv'
  <1>0. PlanInv'
    BY PlanInvStep DEF EditInv
  <1> USE <1>0 DEF EditInv, requestVars, mirrorVars
  <1>1. ASSUME NEW d \in DOMAIN downloader, NEW snapshot \in Snapshots(d), Sync(d, snapshot)
        PROVE EditInv'
    <2>1. RowsOnStorage'
      BY <1>1, SyncKeepsRows DEF Sync
    <2>2. ContentListed' /\ EditsRaise'
      BY <1>1, SyncKeepsContent, SyncKeepsRaised DEF Sync
    <2>3. QED
      BY <2>1, <2>2
  <1>2. ASSUME NEW d \in todo, NEW snapshot \in Snapshots(d), Refresh(d, snapshot)
        PROVE EditInv'
    <2>1. RowsOnStorage'
      BY <1>2, SyncKeepsRows DEF Refresh
    <2>2. ContentListed' /\ EditsRaise'
      BY <1>2, SyncKeepsContent, SyncKeepsRaised DEF Refresh
    <2>3. QED
      BY <2>1, <2>2
  <1>3. ASSUME NEW d \in DOMAIN downloader, Watch(d) PROVE EditInv'
    BY <1>3 DEF Watch, LoseTouch, MarkReachable, RowsOnStorage, ContentListed, EditsRaise
  <1>4. ASSUME NEW d \in Downloaders, Configure(d) PROVE EditInv'
    BY <1>4 DEF Configure, AddDownloader, RowsOnStorage, ContentListed, EditsRaise
  <1>5. ASSUME NEW t \in DOMAIN task, NEW g \in DOMAIN contentGroup, Move(t, g) PROVE EditInv'
    <2>1. MoveInstance(t, g) /\ Edited({g, task[t].content}) /\ UNCHANGED <<plan, stage>>
      BY <1>5 DEF Move
    <2>2. /\ ContentListed' /\ DOMAIN contentGroup' = DOMAIN contentGroup
          /\ \A h \in DOMAIN contentGroup : contentGroup'[h] >= contentGroup[h]
          /\ \A h \in {g, task[t].content} : contentGroup'[h] = contentGroup[h] + 1
      BY <2>1, MoveRaises
    <2>3. \A h \in DOMAIN contentGroup : contentGroup'[h] \in Nat
      BY <2>2 DEF ContentListed
    <2>4. EditsRaise'
      BY <2>1, <2>2, <2>3, EditKeepsRaised
    <2>5. RowsOnStorage'
      BY <2>1, MoveKeepsRows
    <2>6. QED
      BY <2>2, <2>4, <2>5
  <1>6. ASSUME NEW g \in DOMAIN contentGroup, Lock(g) PROVE EditInv'
    <2>1. /\ contentGroup' = [contentGroup EXCEPT ![g] = @ + 1] /\ Edited({g})
          /\ UNCHANGED <<task, plan, stage>>
      BY <1>6 DEF Lock, SetGroupLock
    <2>2. DOMAIN contentGroup' = DOMAIN contentGroup /\ contentGroup'[g] = contentGroup[g] + 1
      BY <2>1
    <2>3. \A h \in DOMAIN contentGroup : contentGroup'[h] \in Nat /\ contentGroup'[h] >= contentGroup[h]
      BY <2>1 DEF ContentListed
    <2>4. ContentListed' /\ RowsOnStorage'
      BY <2>1, <2>2, <2>3 DEF ContentListed, RowsOnStorage
    <2>5. EditsRaise'
      BY <2>1, <2>2, <2>3, EditKeepsRaised
    <2>6. QED
      BY <2>4, <2>5
  <1>7. ASSUME NEW select \in SUBSET DOMAIN task, Preview(select) PROVE EditInv'
    <2>1. /\ plan'.request.content =
                [g \in {task[t].content : t \in select \cap DOMAIN task} |-> contentGroup[g]]
          /\ edited' = {} /\ UNCHANGED <<task, contentGroup>>
      BY <1>7 DEF Preview, PlanDeletion, Captured
    <2> DEFINE captured == plan'.request.content
    <2>2. ASSUME NEW g \in DOMAIN captured
          PROVE  /\ g \in DOMAIN contentGroup'
                 /\ captured[g] \in Nat /\ captured[g] <= contentGroup'[g]
                 /\ g \notin edited'
      <3>1. g \in DOMAIN contentGroup /\ captured[g] = contentGroup[g] /\ contentGroup[g] \in Nat
        BY <2>1, <2>2 DEF ContentListed
      <3>2. contentGroup'[g] = contentGroup[g] /\ DOMAIN contentGroup' = DOMAIN contentGroup /\ g \notin edited'
        BY <2>1
      <3> HIDE DEF captured
      <3>3. captured[g] <= contentGroup'[g]
        BY <3>1, <3>2
      <3>4. QED
        BY <3>1, <3>2, <3>3
    <2>3. EditsRaise'
      BY <2>2 DEF EditsRaise
    <2>4. QED
      BY <2>1, <2>3 DEF RowsOnStorage, ContentListed
  <1>8. ASSUME Begin \/ Accept \/ Refuse PROVE EditInv'
    BY <1>8 DEF Begin, Accept, Refuse, RowsOnStorage, ContentListed, EditsRaise
  <1>9. ASSUME NEW d \in Downloaders, RefreshFailed(d) PROVE EditInv'
    BY <1>9 DEF RefreshFailed, LoseTouch, RowsOnStorage, ContentListed, EditsRaise
  <1>10. ASSUME NEW t \in Tasks, IssueTask(t) PROVE EditInv'
    BY <1>10 DEF IssueTask, RowsOnStorage, ContentListed, EditsRaise
  <1>11. ASSUME NEW step \in plan.dataDeleting, IssueData(step) PROVE EditInv'
    BY <1>11 DEF IssueData, RowsOnStorage, ContentListed, EditsRaise
  <1>12. CASE UNCHANGED vars
    BY <1>12 DEF vars, RowsOnStorage, ContentListed, EditsRaise
  <1>13. QED
    BY <1>1, <1>2, <1>3, <1>4, <1>5, <1>6, <1>7, <1>8, <1>9, <1>10, <1>11, <1>12
       DEF Next, MirrorStep, RequestStep

\* Any edit of a group of the selected tasks withdraws the plan, one that was
\* edited back too: the captured version is behind for good.
THEOREM EditsWithdraw == Spec => AcceptedUnedited
  <1> DEFINE Unedited == \A t \in plan.request.select : task[t].content \notin edited
  <1>1. Init => EditInv
    BY DEF Init, MirrorInit, EditInv, PlanInv, PlanIsNamed, KnownTasks, RowsOnStorage,
           ContentListed, EditsRaise
  <1>2. EditInv /\ [Next]_vars => EditInv'
    BY EditInvStep
  <1>3. ASSUME EditInv, Accept PROVE Unedited
    <2> SUFFICES ASSUME NEW t \in plan.request.select PROVE task[t].content \notin edited
      OBVIOUS
    <2> DEFINE g == task[t].content
    <2>1. ~Blocked(plan.request) /\ stage = "refreshing"
      BY <1>3 DEF Accept, Confirmed, PlanDeletion
    <2>2. t \in Selected(plan.request.select)
      BY <2>1 DEF Blocked, NotSelectable, Selected
    <2>3. g \in DOMAIN plan.request.content /\ plan.request.content[g] = contentGroup[g]
      BY <2>1, <2>2 DEF Blocked, VersionConflict, ContentConflict
    <2>4. plan.request.content[g] \in Nat /\ (g \in edited => plan.request.content[g] < contentGroup[g])
      BY <1>3, <2>1, <2>3 DEF EditInv, EditsRaise
    <2>5. QED
      BY <2>3, <2>4
  <1>4. EditInv => [Accept => Unedited]_vars
    BY <1>3
  <1>5. QED
    BY <1>1, <1>2, <1>4, PTL DEF Spec, AcceptedUnedited

-----------------------------------------------------------------------------
(* Types: every row names rows that exist, and a saved plan names known      *)
(* tasks, groups and downloaders.                                            *)

\* What a downloader shows is of its own tasks, and every group it makes is one
\* that grouping can name.
LEMMA SnapshotKeys ==
    ASSUME NEW d \in Downloaders, NEW snapshot \in Snapshots(d), NEW t \in DOMAIN snapshot.batch
    PROVE  /\ t \in Tasks /\ Home[t] = d
           /\ snapshot.batch[t] \in Views[t] /\ snapshot.batch[t] \in AllViews
           /\ GroupKey(snapshot.batch, t) \in KeyType
           /\ GroupKey(snapshot.batch, t) \in GroupKeys(snapshot.batch)
  <1> DEFINE batch == snapshot.batch
  <1>1. batch \in Batches(d)
    BY DEF Snapshots
  <1>2. PICK S \in SUBSET TasksOf(d) : batch \in [S -> AllViews] /\ \A u \in S : batch[u] \in Views[u]
    BY <1>1 DEF Batches
  <1>3. /\ t \in Tasks /\ Home[t] = d /\ batch[t] \in Views[t]
        /\ \A u \in DOMAIN batch : batch[u] \in AllViews
    BY <1>2 DEF TasksOf
  <1> HIDE DEF batch
  <1> DEFINE Evidence == {v.ev : v \in AllViews} \cup {NoEvidence}
             known == {batch[u].ev : u \in Candidates(batch, t)} \ {NoEvidence}
  <1>4. t \in DOMAIN batch
    BY DEF batch
  <1>5. known \subseteq Evidence /\ batch[t].ev \in Evidence
    BY <1>3, <1>4 DEF Candidates
  <1>6. Cardinality(known) = 1 => (CHOOSE e \in known : TRUE) \in known
    BY FS_EmptySet
  <1>7. Partition(batch, t) \in {batch[t].ev, NoEvidence} \cup known
    BY <1>6 DEF Partition
  <1>8. Partition(batch, t) \in Evidence
    BY <1>5, <1>7
  <1>9. /\ Storage[Home[t]] \in {Storage[e] : e \in Downloaders}
        /\ batch[t].path \in {v.path : v \in AllViews}
        /\ batch[t].bytes \in {v.bytes : v \in AllViews}
    BY <1>3, <1>4
  <1>10. GroupKey(batch, t) \in KeyType
    BY <1>8, <1>9 DEF GroupKey, KeyType
  <1>11. GroupKey(batch, t) \in GroupKeys(batch)
    BY <1>4 DEF GroupKeys
  <1>12. QED
    BY <1>3, <1>4, <1>10, <1>11 DEF batch

\* A synchronisation only adds rows, and each names rows that exist.
LEMMA SyncKeepsTypes ==
    ASSUME MirrorTypeOK, NEW d \in DOMAIN downloader, NEW snapshot \in Snapshots(d), ApplySync(d, snapshot)
    PROVE  /\ MirrorTypeOK'
           /\ DOMAIN task \subseteq DOMAIN task' /\ DOMAIN dataGroup \subseteq DOMAIN dataGroup'
           /\ DOMAIN contentGroup \subseteq DOMAIN contentGroup' /\ DOMAIN downloader' = DOMAIN downloader
  <1> DEFINE batch == snapshot.batch
             keys == GroupKeys(batch)
  <1>0. d \in Downloaders
    BY DEF MirrorTypeOK
  <1>1. /\ DOMAIN task' = DOMAIN task \cup DOMAIN batch
        /\ DOMAIN contentGroup' = DOMAIN contentGroup \cup keys
        /\ downloader' = [downloader EXCEPT ![d] = TRUE]
    BY DEF ApplySync, UpsertTasks, UpsertContentGroups
  <1>2. PICK last \in [keys -> DOMAIN batch] :
            dataGroup' = [k \in DOMAIN dataGroup \cup keys |->
                            IF k \in keys THEN DataRow(batch, k, last[k]) ELSE dataGroup[k]]
    BY DEF ApplySync, UpsertDataGroups
  <1>3. DOMAIN dataGroup' = DOMAIN dataGroup \cup keys
    BY <1>2
  <1>4. \A t \in DOMAIN batch :
            /\ t \in Tasks /\ Home[t] = d /\ batch[t] \in Views[t] /\ batch[t] \in AllViews
            /\ GroupKey(batch, t) \in KeyType /\ GroupKey(batch, t) \in keys
    BY <1>0, SnapshotKeys
  <1>5. keys \subseteq KeyType
    BY <1>4 DEF GroupKeys
  <1>6. ASSUME NEW t \in DOMAIN task'
        PROVE  task'[t] \in [active : BOOLEAN, view : Views[t], group : DOMAIN dataGroup',
                             content : DOMAIN contentGroup', manual : BOOLEAN]
    <2>1. CASE t \in DOMAIN batch
      <3>1. task'[t] = TaskRow(batch, t)
        BY <2>1 DEF ApplySync, UpsertTasks
      <3>2. Pinned(t) \in BOOLEAN
        BY DEF Pinned, MirrorTypeOK
      <3>3. Pinned(t) => task[t].content \in DOMAIN contentGroup
        BY DEF Pinned, MirrorTypeOK
      <3>4. (IF Pinned(t) THEN task[t].content ELSE GroupKey(batch, t)) \in DOMAIN contentGroup'
        BY <1>1, <1>4, <2>1, <3>3
      <3>5. batch[t] \in Views[t] /\ GroupKey(batch, t) \in DOMAIN dataGroup'
        BY <1>3, <1>4, <2>1
      <3>6. QED
        BY <3>1, <3>2, <3>4, <3>5 DEF TaskRow
    <2>2. CASE t \notin DOMAIN batch
      <3>1. t \in DOMAIN task
        BY <1>1, <2>2
      <3>2. task'[t] = [task[t] EXCEPT !.active = @ /\ ~Vanished(d, snapshot, t)]
        BY <2>2, <3>1 DEF ApplySync, UpsertTasks
      <3>3. task[t] \in [active : BOOLEAN, view : Views[t], group : DOMAIN dataGroup,
                         content : DOMAIN contentGroup, manual : BOOLEAN]
        BY <3>1 DEF MirrorTypeOK
      <3>4. (task[t].active /\ ~Vanished(d, snapshot, t)) \in BOOLEAN
        OBVIOUS
      <3> DEFINE stays == task[t].active /\ ~Vanished(d, snapshot, t)
      <3>5. task'[t] = [task[t] EXCEPT !.active = stays] /\ stays \in BOOLEAN
        BY <3>2, <3>4
      <3> HIDE DEF stays
      <3>6. QED
        BY <1>1, <1>3, <3>3, <3>5
    <2>3. QED
      BY <2>1, <2>2
  <1>7. ASSUME NEW k \in DOMAIN dataGroup'
        PROVE  dataGroup'[k] \in [version : Nat \ {0}, confidence : {"verified", "tentative"},
                                  ev : {v.ev : v \in AllViews}]
    <2>1. CASE k \in keys
      <3>1. dataGroup'[k] = DataRow(batch, k, last[k])
        BY <1>2, <2>1
      <3>2. batch[last[k]].ev \in {v.ev : v \in AllViews}
        BY <1>4, <2>1
      <3>3. Confidence(batch, k) \in {"verified", "tentative"}
        BY DEF Confidence
      <3>4. k \in DOMAIN dataGroup => dataGroup[k].version \in Nat \ {0}
        BY DEF MirrorTypeOK
      <3>5. DataRow(batch, k, last[k]).version \in Nat \ {0}
        BY <3>4 DEF DataRow
      <3>6. QED
        BY <3>1, <3>2, <3>3, <3>5 DEF DataRow
    <2>2. CASE k \notin keys
      BY <1>2, <2>2 DEF MirrorTypeOK
    <2>3. QED
      BY <2>1, <2>2
  <1>8. \A g \in DOMAIN contentGroup' : contentGroup'[g] \in Nat \ {0}
    BY DEF ApplySync, UpsertContentGroups, MirrorTypeOK
  <1>9. DOMAIN downloader' = DOMAIN downloader /\ \A e \in DOMAIN downloader : downloader'[e] \in BOOLEAN
    BY <1>1 DEF MirrorTypeOK
  <1>10. DOMAIN task' \subseteq Tasks /\ \A t \in DOMAIN task' : Home[t] \in DOMAIN downloader
    BY <1>1, <1>4 DEF MirrorTypeOK
  <1>11. DOMAIN dataGroup' \subseteq KeyType /\ DOMAIN contentGroup' \subseteq KeyType
    BY <1>1, <1>3, <1>5 DEF MirrorTypeOK
  <1>12. MirrorTypeOK'
    BY <1>6, <1>7, <1>8, <1>9, <1>10, <1>11 DEF MirrorTypeOK
  <1>13. QED
    BY <1>1, <1>3, <1>9, <1>12

\* The edits of the user.
LEMMA EditsKeepTypes ==
    ASSUME MirrorTypeOK, NEW g \in DOMAIN contentGroup,
           SetGroupLock(g) \/ \E t \in DOMAIN task : MoveInstance(t, g)
    PROVE  MirrorTypeOK' /\ DOMAIN contentGroup' = DOMAIN contentGroup /\ DOMAIN task' = DOMAIN task
           /\ UNCHANGED <<dataGroup, downloader>>
  <1>1. CASE SetGroupLock(g)
    <2>1. contentGroup' = [contentGroup EXCEPT ![g] = @ + 1] /\ UNCHANGED <<task, dataGroup, downloader>>
      BY <1>1 DEF SetGroupLock
    <2>2. \A h \in DOMAIN contentGroup : contentGroup'[h] \in Nat \ {0}
      BY <2>1 DEF MirrorTypeOK
    <2>3. QED
      BY <2>1, <2>2 DEF MirrorTypeOK
  <1>2. ASSUME NEW t \in DOMAIN task, MoveInstance(t, g)
        PROVE  MirrorTypeOK' /\ DOMAIN contentGroup' = DOMAIN contentGroup /\ DOMAIN task' = DOMAIN task
               /\ UNCHANGED <<dataGroup, downloader>>
    <2> DEFINE old == task[t].content
    <2>1. /\ task' = [task EXCEPT ![t].content = g, ![t].manual = TRUE]
          /\ contentGroup' = [contentGroup EXCEPT ![g] = @ + 1, ![old] = @ + 1]
          /\ UNCHANGED <<dataGroup, downloader>> /\ g # old
      BY <1>2 DEF MoveInstance
    <2>2. old \in DOMAIN contentGroup
      BY DEF MirrorTypeOK
    <2> HIDE DEF old
    <2>3. DOMAIN contentGroup' = DOMAIN contentGroup /\ DOMAIN task' = DOMAIN task
      BY <2>1
    <2>4. \A h \in DOMAIN contentGroup : contentGroup[h] \in Nat \ {0}
      BY DEF MirrorTypeOK
    <2>5. contentGroup'[g] = contentGroup[g] + 1 /\ contentGroup'[old] = contentGroup[old] + 1
          /\ \A h \in DOMAIN contentGroup \ {g, old} : contentGroup'[h] = contentGroup[h]
      BY <2>1, <2>2
    <2>6. \A h \in DOMAIN contentGroup : contentGroup'[h] \in Nat \ {0}
      BY <2>2, <2>4, <2>5
    <2>7. ASSUME NEW u \in DOMAIN task
          PROVE  task'[u] \in [active : BOOLEAN, view : Views[u], group : DOMAIN dataGroup,
                               content : DOMAIN contentGroup, manual : BOOLEAN]
      <3>1. task[u] \in [active : BOOLEAN, view : Views[u], group : DOMAIN dataGroup,
                         content : DOMAIN contentGroup, manual : BOOLEAN]
        BY DEF MirrorTypeOK
      <3>2. CASE u = t
        <4>1. task'[u] = [[task[u] EXCEPT !.content = g] EXCEPT !.manual = TRUE]
          BY <2>1, <3>2
        <4>2. QED
          BY <3>1, <4>1
      <3>3. CASE u # t
        BY <2>1, <3>1, <3>3
      <3>4. QED
        BY <3>2, <3>3
    <2>8. QED
      BY <2>1, <2>3, <2>6, <2>7 DEF MirrorTypeOK
  <1>3. QED
    BY <1>1, <1>2

\* Losing, regaining and adding a downloader.
LEMMA DownloadersKeepTypes ==
    ASSUME MirrorTypeOK, NEW d \in Downloaders,
           LoseTouch(d) \/ (d \in DOMAIN downloader /\ MarkReachable(d)) \/ AddDownloader(d)
    PROVE  MirrorTypeOK' /\ DOMAIN downloader \subseteq DOMAIN downloader'
           /\ UNCHANGED <<task, dataGroup, contentGroup>>
  <1>1. CASE LoseTouch(d) \/ (d \in DOMAIN downloader /\ MarkReachable(d))
    <2>1. /\ DOMAIN downloader' = DOMAIN downloader
          /\ \A e \in DOMAIN downloader : downloader'[e] \in BOOLEAN
          /\ UNCHANGED <<task, dataGroup, contentGroup>>
      BY <1>1 DEF LoseTouch, MarkReachable, MirrorTypeOK
    <2>2. QED
      BY <2>1 DEF MirrorTypeOK
  <1>2. CASE AddDownloader(d)
    <2>1. /\ DOMAIN downloader' = DOMAIN downloader \cup {d}
          /\ \A e \in DOMAIN downloader' : downloader'[e] \in BOOLEAN
          /\ UNCHANGED <<task, dataGroup, contentGroup>>
      BY <1>2 DEF AddDownloader
    <2>2. QED
      BY <2>1 DEF MirrorTypeOK
  <1>3. QED
    BY <1>1, <1>2

\* The refresh list is empty unless a request is refreshing.
TypeInv == TypeOK /\ (stage # "refreshing" => todo = {})

\* The part of TypeOK about the request.
PlanNamesRows ==
    stage # "none" =>
        /\ plan.request.select \subseteq DOMAIN task
        /\ plan.taskOnly \subseteq plan.request.select
        /\ \A step \in plan.dataDeleting :
                step.task \in plan.request.select /\ step.group \in DOMAIN dataGroup
        /\ todo \subseteq Barrier(plan)

\* A refresh list names configured downloaders: owners of known tasks and witnesses.
LEMMA BarrierConfigured ==
    ASSUME MirrorTypeOK, PlanNamesRows, stage # "none"
    PROVE  Barrier(plan) \subseteq DOMAIN downloader
  <1>1. \A t \in plan.request.select : Home[t] \in DOMAIN downloader
    BY DEF MirrorTypeOK, PlanNamesRows
  <1>2. SelectedDownloaders(plan) \subseteq DOMAIN downloader
    BY <1>1 DEF SelectedDownloaders, PlanNamesRows
  <1>3. QED
    BY <1>2 DEF Barrier, Witnesses

\* Rows are only added, so what a saved plan names stays known and its barrier
\* only grows.
LEMMA PlanStaysNamed ==
    ASSUME PlanNamesRows, UNCHANGED <<plan, stage>>, todo' \subseteq todo,
           DOMAIN task \subseteq DOMAIN task', DOMAIN dataGroup \subseteq DOMAIN dataGroup',
           DOMAIN downloader \subseteq DOMAIN downloader'
    PROVE  PlanNamesRows'
  <1>1. SelectedDownloaders(plan)' = SelectedDownloaders(plan)
    BY DEF SelectedDownloaders
  <1>2. \A step \in plan.dataDeleting : Witnesses(step.group) \subseteq Witnesses(step.group)'
    BY DEF Witnesses
  <1>3. Barrier(plan) \subseteq Barrier(plan)'
    BY <1>1, <1>2 DEF Barrier
  <1>4. QED
    BY <1>3 DEF PlanNamesRows

\* A preview plans for rows of now.
LEMMA PreviewNamesRows ==
    ASSUME MirrorTypeOK, NEW select \in SUBSET DOMAIN task, Preview(select), todo = {}
    PROVE  PlanNamesRows'
  <1>1. plan' = PlanDeletion(Captured(select)) /\ todo' = {} /\ UNCHANGED <<task, dataGroup>>
    BY DEF Preview, mirrorVars
  <1>2. /\ plan'.request.select = select
        /\ plan'.taskOnly = TaskSteps(select)
        /\ plan'.dataDeleting = DataSteps(select)
    BY <1>1 DEF PlanDeletion, Captured
  <1>3. plan'.taskOnly \subseteq select
    BY <1>2 DEF TaskSteps, Selected
  <1>4. ASSUME NEW step \in DataSteps(select) PROVE step.task \in select /\ step.group \in DOMAIN dataGroup
    <2>1. PICK k \in SelectedGroups(select) : step.group = k /\ step.task = Owner(select, k)
      BY DEF DataSteps
    <2>2. step.task \in select
      BY <2>1, OwnerIsSelected DEF KnownTasks, MirrorTypeOK
    <2>3. k \in DOMAIN dataGroup
      BY DEF SelectedGroups, Selected, Active, MirrorTypeOK
    <2>4. QED
      BY <2>1, <2>2, <2>3
  <1>5. QED
    BY <1>1, <1>2, <1>3, <1>4 DEF PlanNamesRows

LEMMA TypeInvStep == ASSUME TypeInv, [Next]_vars PROVE TypeInv'
  <1>0. /\ MirrorTypeOK /\ PlanNamesRows /\ stage \in Stages
        /\ todo \subseteq Downloaders /\ synced \subseteq Downloaders
        /\ issued \subseteq Tasks /\ edited \subseteq DOMAIN contentGroup
        /\ stage # "refreshing" => todo = {}
    BY DEF TypeInv, TypeOK, PlanNamesRows
  <1>a. ASSUME MirrorTypeOK', PlanNamesRows', stage' \in Stages,
               todo' \subseteq Downloaders, synced' \subseteq Downloaders, issued' \subseteq Tasks,
               edited' \subseteq DOMAIN contentGroup', stage' # "refreshing" => todo' = {}
        PROVE  TypeInv'
    BY <1>a DEF TypeInv, TypeOK, PlanNamesRows
  <1>b. ASSUME NEW d \in DOMAIN downloader, NEW snapshot \in Snapshots(d), ApplySync(d, snapshot),
               Heard(d), todo' \subseteq todo, stage = "refreshing" \/ todo' = todo,
               UNCHANGED <<plan, stage, issued, edited>>
        PROVE  TypeInv'
    <2>1. /\ MirrorTypeOK' /\ DOMAIN task \subseteq DOMAIN task' /\ DOMAIN dataGroup \subseteq DOMAIN dataGroup'
          /\ DOMAIN contentGroup \subseteq DOMAIN contentGroup' /\ DOMAIN downloader' = DOMAIN downloader
      BY <1>0, <1>b, SyncKeepsTypes
    <2>2. PlanNamesRows'
      BY <1>0, <1>b, <2>1, PlanStaysNamed
    <2>3. synced' \subseteq Downloaders
      BY <1>0, <1>b DEF Heard, MirrorTypeOK
    <2>4. QED
      BY <1>0, <1>a, <1>b, <2>1, <2>2, <2>3
  <1>c. ASSUME NEW d \in Downloaders,
               LoseTouch(d) \/ (d \in DOMAIN downloader /\ MarkReachable(d)) \/ AddDownloader(d),
               UNCHANGED <<requestVars, synced, edited>>
        PROVE  TypeInv'
    <2>1. /\ MirrorTypeOK' /\ DOMAIN downloader \subseteq DOMAIN downloader'
          /\ UNCHANGED <<task, dataGroup, contentGroup>>
      BY <1>0, <1>c, DownloadersKeepTypes
    <2>2. UNCHANGED <<plan, stage, todo, issued, synced, edited>>
      BY <1>c DEF requestVars
    <2>3. PlanNamesRows'
      BY <1>0, <2>1, <2>2, PlanStaysNamed
    <2>4. QED
      BY <1>0, <1>a, <2>1, <2>2, <2>3
  <1>d. ASSUME NEW g \in DOMAIN contentGroup, NEW groups \in SUBSET DOMAIN contentGroup,
               SetGroupLock(g) \/ \E t \in DOMAIN task : MoveInstance(t, g),
               Edited(groups), UNCHANGED <<requestVars, synced>>
        PROVE  TypeInv'
    <2>1. /\ MirrorTypeOK' /\ DOMAIN contentGroup' = DOMAIN contentGroup /\ DOMAIN task' = DOMAIN task
          /\ UNCHANGED <<dataGroup, downloader>>
      BY <1>0, <1>d, EditsKeepTypes
    <2>2. UNCHANGED <<plan, stage, todo, issued, synced>>
      BY <1>d DEF requestVars
    <2>3. PlanNamesRows'
      BY <1>0, <2>1, <2>2, PlanStaysNamed
    <2>4. edited' \subseteq DOMAIN contentGroup'
      BY <1>0, <1>d, <2>1 DEF Edited
    <2>5. QED
      BY <1>0, <1>a, <2>1, <2>2, <2>3, <2>4
  <1>1. ASSUME NEW d \in DOMAIN downloader, NEW snapshot \in Snapshots(d), Sync(d, snapshot) PROVE TypeInv'
    BY <1>1, <1>b DEF Sync, requestVars
  <1>2. ASSUME NEW d \in todo, NEW snapshot \in Snapshots(d), Refresh(d, snapshot) PROVE TypeInv'
    <2>1. d \in DOMAIN downloader
      BY <1>0, <1>2, BarrierConfigured DEF Refresh, PlanNamesRows
    <2>2. QED
      BY <1>2, <1>b, <2>1 DEF Refresh
  <1>3. ASSUME NEW d \in DOMAIN downloader, Watch(d) PROVE TypeInv'
    BY <1>0, <1>3, <1>c DEF Watch, MirrorTypeOK
  <1>4. ASSUME NEW d \in Downloaders, Configure(d) PROVE TypeInv'
    BY <1>4, <1>c DEF Configure
  <1>5. ASSUME NEW t \in DOMAIN task, NEW g \in DOMAIN contentGroup, Move(t, g) PROVE TypeInv'
    <2>1. task[t].content \in DOMAIN contentGroup
      BY <1>0 DEF MirrorTypeOK
    <2>2. {g, task[t].content} \in SUBSET DOMAIN contentGroup
      BY <2>1
    <2>3. QED
      BY <1>5, <1>d, <2>2 DEF Move
  <1>6. ASSUME NEW g \in DOMAIN contentGroup, Lock(g) PROVE TypeInv'
    <2>1. {g} \in SUBSET DOMAIN contentGroup
      OBVIOUS
    <2>2. QED
      BY <1>6, <1>d, <2>1 DEF Lock
  <1>7. ASSUME NEW select \in SUBSET DOMAIN task, Preview(select) PROVE TypeInv'
    <2>1. /\ stage' = "previewed" /\ edited' = {} /\ todo = {}
          /\ UNCHANGED <<task, dataGroup, contentGroup, downloader, todo, issued, synced>>
      BY <1>0, <1>7 DEF Preview, mirrorVars
    <2>2. MirrorTypeOK'
      BY <1>0, <2>1 DEF MirrorTypeOK
    <2>3. PlanNamesRows'
      BY <1>0, <1>7, <2>1, PreviewNamesRows
    <2>4. QED
      BY <1>0, <1>a, <2>1, <2>2, <2>3 DEF Stages
  <1>8. ASSUME Begin PROVE TypeInv'
    <2>1. /\ stage = "previewed" /\ stage' = "refreshing" /\ todo' = Barrier(plan)
          /\ UNCHANGED <<task, dataGroup, contentGroup, downloader, plan, issued, synced, edited>>
      BY <1>8 DEF Begin, mirrorVars
    <2>2. MirrorTypeOK'
      BY <1>0, <2>1 DEF MirrorTypeOK
    <2>3. todo' \subseteq Downloaders
      BY <1>0, <2>1, BarrierConfigured DEF MirrorTypeOK
    <2>4. Barrier(plan)' = Barrier(plan)
      BY <2>1 DEF Barrier, SelectedDownloaders, Witnesses
    <2>5. PlanNamesRows'
      BY <1>0, <2>1, <2>4 DEF PlanNamesRows
    <2>6. QED
      BY <1>0, <1>a, <2>1, <2>2, <2>3, <2>5 DEF Stages
  <1>9. ASSUME Accept \/ Refuse PROVE TypeInv'
    <2>1. /\ stage # "none" /\ stage' \in {"previewed", "accepted"} /\ todo' = {}
          /\ synced' = {} /\ edited' \subseteq edited
          /\ UNCHANGED <<task, dataGroup, contentGroup, downloader, plan, issued>>
      BY <1>9 DEF Accept, Refuse, mirrorVars
    <2>2. MirrorTypeOK' /\ PlanNamesRows'
      BY <1>0, <2>1 DEF MirrorTypeOK, PlanNamesRows
    <2>3. QED
      BY <1>0, <1>a, <2>1, <2>2 DEF Stages
  <1>10. ASSUME NEW d \in Downloaders, RefreshFailed(d) PROVE TypeInv'
    <2>1. /\ stage # "none" /\ stage' = "previewed" /\ todo' = {} /\ synced' = {}
          /\ UNCHANGED <<plan, issued, edited>>
          /\ LoseTouch(d) \/ UNCHANGED mirrorVars
      BY <1>10 DEF RefreshFailed
    <2>2. MirrorTypeOK' /\ UNCHANGED <<task, dataGroup, contentGroup>>
      BY <1>0, <2>1, DownloadersKeepTypes DEF mirrorVars, MirrorTypeOK
    <2>3. PlanNamesRows'
      BY <1>0, <2>1, <2>2 DEF PlanNamesRows
    <2>4. QED
      BY <1>0, <1>a, <2>1, <2>2, <2>3 DEF Stages
  <1>11. ASSUME NEW t \in Tasks, stage # "none", issued' = issued \cup {t},
                UNCHANGED <<task, dataGroup, contentGroup, downloader, plan, stage, todo, synced, edited>>
         PROVE  TypeInv'
    <2>1. MirrorTypeOK' /\ PlanNamesRows'
      BY <1>0, <1>11 DEF MirrorTypeOK, PlanNamesRows, Barrier, SelectedDownloaders, Witnesses
    <2>2. QED
      BY <1>0, <1>a, <1>11, <2>1
  <1>12. ASSUME NEW t \in Tasks, IssueTask(t) PROVE TypeInv'
    BY <1>11, <1>12 DEF IssueTask, mirrorVars
  <1>13. ASSUME NEW step \in plan.dataDeleting, IssueData(step) PROVE TypeInv'
    <2>1. step.task \in Tasks
      BY <1>0, <1>13 DEF IssueData, PlanNamesRows, MirrorTypeOK
    <2>2. QED
      BY <1>11, <1>13, <2>1 DEF IssueData, mirrorVars
  <1>14. CASE UNCHANGED vars
    BY <1>0, <1>a, <1>14 DEF vars, mirrorVars, requestVars, MirrorTypeOK, PlanNamesRows, Barrier,
                             SelectedDownloaders, Witnesses
  <1>15. QED
    BY <1>1, <1>2, <1>3, <1>4, <1>5, <1>6, <1>7, <1>8, <1>9, <1>10, <1>12, <1>13, <1>14
       DEF Next, MirrorStep, RequestStep

\* No join of the planner comes up empty: a task row always names a listed data
\* group, content group and downloader, and a saved plan names rows that are still
\* there, whatever was synchronised, edited or configured since the preview.
THEOREM RowsAreJoined == Spec => []TypeOK
  <1>1. Init => TypeInv
    BY DEF Init, MirrorInit, TypeInv, TypeOK, MirrorTypeOK, Stages
  <1>2. TypeInv /\ [Next]_vars => TypeInv'
    BY TypeInvStep
  <1>3. TypeInv => TypeOK
    BY DEF TypeInv
  <1>4. QED
    BY <1>1, <1>2, <1>3, PTL DEF Spec
=============================================================================
