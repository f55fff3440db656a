--------------------------- MODULE DeletePlanner ---------------------------
(***************************************************************************)
(* The deletion planner (PlanDeletion, internal/domain/deletion.go) over   *)
(* the mirror of one read transaction.  A request names the selected tasks *)
(* and the group versions captured by the preview; the plan says which     *)
(* tasks are only removed, which one per data group takes the files along, *)
(* and whether anything forbids it.                                        *)
(*                                                                         *)
(* Blockers are predicates: the texts, codes and subjects of the reported  *)
(* ones are left out, and so is their part in the plan ID, since a plan    *)
(* with a blocker is refused whatever its ID.  The order of steps inside   *)
(* the ID is left out too: task-only steps precede data-deleting ones.     *)
(***************************************************************************)
EXTENDS Mirror

CONSTANTS
    Rank,           \* the order of the task IDs, which are hashes
    Nested          \* pairs <<p, q>> of paths where directory p contains q

ASSUME RankAssumption ==
    /\ Rank \in [Tasks -> Nat]
    /\ \A t, u \in Tasks : Rank[t] = Rank[u] => t = u
    /\ \A S \in (SUBSET Tasks) \ {{}} : \E t \in S : \A u \in S : Rank[u] <= Rank[t]

Selected(select) == {t \in select : t \in Active}

ActiveIn(k) == {t \in Active : task[t].group = k}

SelectedGroups(select) == {task[t].group : t \in Selected(select)}

\* Mutant: the references that count are those of the content group.
LogicalReferences(select, k) ==
    {t \in Active : task[t].content \in {task[u].content : u \in select \cap ActiveIn(k)}} \subseteq select

\* Every active reference of the data group is selected.
DeletesData(select, k) == ActiveIn(k) \subseteq select

\* The selected member with the greatest ID takes the files along.
Owner(select, k) ==
    CHOOSE t \in ActiveIn(k) \cap select :
        \A u \in ActiveIn(k) \cap select : Rank[u] <= Rank[t]

ManifestUsable(t) == task[t].view.ev # NoEvidence /\ task[t].view.files # {}

\* fileManifestFingerprint: the files with their sizes and selection.
Manifest(t) == [files |-> task[t].view.files, ev |-> task[t].view.ev]

-----------------------------------------------------------------------------
(* Optimistic locking of the groups.                                        *)

\* PrepareDeletePlan captures the versions of the groups of the selected rows.
Captured(select) ==
    LET rows == select \cap DOMAIN task
    IN  [select |-> select,
         content |-> [g \in {task[t].content : t \in rows} |-> contentGroup[g]],
         data |-> [k \in {task[t].group : t \in rows} |-> dataGroup[k].version]]

ContentConflict(request) ==
    \E t \in Selected(request.select) : LET g == task[t].content IN
        g \notin DOMAIN request.content \/ request.content[g] # contentGroup[g]

DataConflict(request) ==
    \E k \in SelectedGroups(request.select) :
        k \notin DOMAIN request.data \/ request.data[k] # dataGroup[k].version

\* Mutant: a version that was not captured, or moved on, is let through.
Unlocked(request) == FALSE

VersionConflict(request) == ContentConflict(request) \/ DataConflict(request)

-----------------------------------------------------------------------------
(* Blockers.                                                                *)

NotSelectable(select) == select = {} \/ \E t \in select : t \notin Active

DownloaderUncertain(select) ==
    \E t \in Selected(select) : ~downloader[Home[t]]

\* Mutant: the confidence of the row is taken at its word.
EvidenceTrusted(k) == FALSE

\* A verified group whose row or member disagrees with the evidence: another
\* batch raised the confidence of a group that also holds unproven members.
EvidenceMismatch(k) ==
    /\ dataGroup[k].confidence = "verified"
    /\ dataGroup[k].ev = NoEvidence \/ \E t \in ActiveIn(k) : task[t].view.ev # dataGroup[k].ev

Overlap(p, q) == p = q \/ <<p, q>> \in Nested \/ <<q, p>> \in Nested

\* A task of another data group holds a file of the manifest; without a usable
\* manifest of its own, a path that overlaps is enough.
Occupies(t, k, files) ==
    /\ task[t].group # k /\ task[t].group.storage = k.storage
    /\ IF ManifestUsable(t) THEN task[t].view.files \cap files # {}
       ELSE Overlap(task[t].view.path, k.path)

\* Mutant: a task without a usable manifest is no occupant.
OccupiedByFiles(select, k) ==
    \E t \in Active : ManifestUsable(t) /\ Occupies(t, k, task[Owner(select, k)].view.files)

Occupied(select, k) == \E t \in Active : Occupies(t, k, task[Owner(select, k)].view.files)

\* The configured downloaders that are enabled and write to the storage.
Witnesses(k) == {d \in DOMAIN downloader \cap Enabled : Storage[d] = k.storage}

StorageUncertain(k) ==
    \/ Witnesses(k) = {}
    \/ \E d \in Witnesses(k) : ~downloader[d]

DataUnsafe(select, k) ==
    \/ dataGroup[k].confidence # "verified"
    \/ ~ManifestUsable(Owner(select, k))
    \/ Occupied(select, k)
    \/ StorageUncertain(k)

Blocked(request) ==
    \/ NotSelectable(request.select)
    \/ DownloaderUncertain(request.select)
    \/ VersionConflict(request)
    \/ \E k \in SelectedGroups(request.select) :
            EvidenceMismatch(k) \/ (DeletesData(request.select, k) /\ DataUnsafe(request.select, k))

-----------------------------------------------------------------------------
(* The plan.                                                                *)

DataSteps(select) ==
    {[task |-> Owner(select, k), group |-> k, manifest |-> Manifest(Owner(select, k))] :
        k \in {g \in SelectedGroups(select) : DeletesData(select, g)}}

TaskSteps(select) == Selected(select) \ {step.task : step \in DataSteps(select)}

\* Mutant: the manifests are not part of the identity.
PlanIdOfTasks(request, tasks, steps) == <<request, tasks, {step.task : step \in steps}>>

\* deletionPlanID hashes the selection, the steps with their manifests and the
\* captured versions.
PlanId(request, tasks, steps) ==
    <<request, tasks, {<<step.task, step.manifest>> : step \in steps}>>

PlanDeletion(request) ==
    LET tasks == TaskSteps(request.select)
        steps == DataSteps(request.select)
    IN  [request |-> request, executable |-> ~Blocked(request), taskOnly |-> tasks,
         dataDeleting |-> steps, id |-> PlanId(request, tasks, steps)]

\* DeletePlanDownloaderIDs: the owners of the selected tasks and, for data, every
\* enabled downloader of the storage.
SelectedDownloaders(plan) ==
    {Home[t] : t \in plan.taskOnly} \cup {Home[step.task] : step \in plan.dataDeleting}

\* Mutant: the other downloaders of the storage are not asked.
BarrierOfOwners(plan) == SelectedDownloaders(plan)

Barrier(plan) == SelectedDownloaders(plan) \cup UNION {Witnesses(step.group) : step \in plan.dataDeleting}
=============================================================================
