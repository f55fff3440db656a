-------------------------- MODULE PlannedDeletion --------------------------
(***************************************************************************)
(* The two phases of a deletion over a mirror that keeps changing: preview *)
(* (PrepareDeletePlan), the refresh barrier and the revalidation of        *)
(* CreateJob, and the calls of execute, while the scheduler applies other  *)
(* snapshots and the user edits content groups.                            *)
(*                                                                         *)
(* One plan is followed from its preview to its calls; how several         *)
(* requests and jobs share the database is the subject of DeleteJobs.      *)
(***************************************************************************)
EXTENDS DeletePlanner

CONSTANTS
    NoPlan,
    Tested      \* the downloaders whose connection the user tests

VARIABLES
    plan,       \* the saved delete plan
    stage,      \* none, previewed, refreshing or accepted
    todo,       \* the downloaders SyncNow has yet to refresh
    issued,     \* the tasks whose deletion was sent
    synced,     \* history: the downloaders read since the request began
    edited      \* history: the content groups edited since the preview

requestVars == <<plan, stage, todo, issued>>
vars == <<mirrorVars, requestVars, synced, edited>>

Stages == {"none", "previewed", "refreshing", "accepted"}

Heard(d) == synced' = IF stage = "refreshing" THEN synced \cup {d} ELSE {}

Edited(groups) ==
    edited' = IF stage \in {"previewed", "refreshing"} THEN edited \cup groups ELSE {}

-----------------------------------------------------------------------------
(* The request.                                                             *)

Preview(select) ==
    /\ stage \in {"none", "previewed"}
    /\ plan' = PlanDeletion(Captured(select))
    /\ stage' = "previewed"
    /\ edited' = {}
    /\ UNCHANGED <<mirrorVars, todo, issued, synced>>

\* CreateJob loads the plan; a blocked one is refused at once.
Begin ==
    /\ stage = "previewed"
    /\ plan.executable
    /\ todo' = Barrier(plan)
    /\ stage' = "refreshing"
    /\ UNCHANGED <<mirrorVars, plan, issued, synced, edited>>

\* SyncNow of the next downloader of the barrier, applied.
Refresh(d, snapshot) ==
    /\ stage = "refreshing" /\ d \in todo
    /\ ApplySync(d, snapshot)
    /\ VersionsBounded'
    /\ todo' = todo \ {d}
    /\ Heard(d)
    /\ UNCHANGED <<plan, stage, issued, edited>>

\* An error, or a downloader that is already synchronising, ends the request; the
\* plan stays, for another one.
RefreshFailed(d) ==
    /\ stage = "refreshing" /\ d \in todo
    /\ stage' = "previewed"
    /\ todo' = {} /\ synced' = {}
    /\ LoseTouch(d) \/ UNCHANGED mirrorVars
    /\ UNCHANGED <<plan, issued, edited>>

\* RevalidateDeletePlan plans the saved request again.
Confirmed ==
    LET current == PlanDeletion(plan.request)
    IN  current.executable /\ current.id = plan.id

Accept ==
    /\ stage = "refreshing" /\ todo = {}
    /\ Confirmed
    /\ stage' = "accepted"
    /\ synced' = {} /\ edited' = {}
    /\ UNCHANGED <<mirrorVars, plan, todo, issued>>

Refuse ==
    /\ stage = "refreshing" /\ todo = {}
    /\ ~Confirmed
    /\ stage' = "previewed"
    /\ synced' = {}
    /\ UNCHANGED <<mirrorVars, plan, todo, issued, edited>>

\* execute sends the task-only deletions first, then those that take the files.
IssueTask(t) ==
    /\ stage = "accepted"
    /\ t \in plan.taskOnly \ issued
    /\ issued' = issued \cup {t}
    /\ UNCHANGED <<mirrorVars, plan, stage, todo, synced, edited>>

IssueData(step) ==
    /\ stage = "accepted"
    /\ plan.taskOnly \subseteq issued
    /\ step \in plan.dataDeleting /\ step.task \notin issued
    /\ issued' = issued \cup {step.task}
    /\ UNCHANGED <<mirrorVars, plan, stage, todo, synced, edited>>

-----------------------------------------------------------------------------
(* The rest of the program.                                                 *)

\* A scheduled or manual sync, or the refresh of another request.
Sync(d, snapshot) ==
    /\ ApplySync(d, snapshot)
    /\ VersionsBounded'
    /\ Heard(d)
    /\ UNCHANGED <<requestVars, edited>>

Watch(d) ==
    /\ LoseTouch(d) \/ (d \in Tested /\ MarkReachable(d))
    /\ UNCHANGED <<requestVars, synced, edited>>

Configure(d) ==
    /\ AddDownloader(d)
    /\ UNCHANGED <<requestVars, synced, edited>>

Move(t, g) ==
    /\ MoveInstance(t, g)
    /\ VersionsBounded'
    /\ Edited({g, task[t].content})
    /\ UNCHANGED <<requestVars, synced>>

Lock(g) ==
    /\ SetGroupLock(g)
    /\ VersionsBounded'
    /\ Edited({g})
    /\ UNCHANGED <<requestVars, synced>>

Init ==
    /\ MirrorInit
    /\ plan = NoPlan
    /\ stage = "none"
    /\ todo = {} /\ issued = {} /\ synced = {} /\ edited = {}

MirrorStep ==
    \/ \E d \in DOMAIN downloader : \E snapshot \in Snapshots(d) : Sync(d, snapshot)
    \/ \E d \in todo : \E snapshot \in Snapshots(d) : Refresh(d, snapshot)
    \/ \E d \in DOMAIN downloader : Watch(d)
    \/ \E d \in Downloaders : Configure(d)
    \/ \E t \in DOMAIN task, g \in DOMAIN contentGroup : Move(t, g)
    \/ \E g \in DOMAIN contentGroup : Lock(g)

RequestStep ==
    \/ \E select \in SUBSET DOMAIN task : Preview(select)
    \/ Begin \/ Accept \/ Refuse
    \/ \E d \in Downloaders : RefreshFailed(d)
    \/ \E t \in Tasks : IssueTask(t)
    \/ stage = "accepted" /\ \E step \in plan.dataDeleting : IssueData(step)

Next == MirrorStep \/ RequestStep

Spec == Init /\ [][Next]_vars

-----------------------------------------------------------------------------
(* Properties.                                                              *)

TypeOK ==
    /\ MirrorTypeOK
    /\ stage \in Stages
    /\ todo \subseteq Downloaders /\ synced \subseteq Downloaders
    /\ issued \subseteq Tasks
    /\ edited \subseteq DOMAIN contentGroup
    /\ stage # "none" =>
            /\ plan.request.select \subseteq DOMAIN task
            /\ plan.taskOnly \subseteq plan.request.select
            /\ \A step \in plan.dataDeleting :
                    step.task \in plan.request.select /\ step.group \in DOMAIN dataGroup
            /\ todo \subseteq Barrier(plan)

\* The data group, in the mirror of now, of what a step deletes.
Target(step) == task[step.task].group

\* What an accepted plan removes from disk is, in the mirror it was accepted
\* over, not a file of any task that stays: the members of the group are all
\* selected, and a task grouped elsewhere shares no file with it or, while its
\* files are unknown, no path.
Unreferenced ==
    \A step \in plan.dataDeleting : \A t \in Active :
        IF task[t].group = Target(step) THEN t \in plan.request.select
        ELSE task[t].group.storage = Target(step).storage =>
                IF ManifestUsable(t) THEN task[t].view.files \cap step.manifest.files = {}
                ELSE ~Overlap(task[t].view.path, Target(step).path)

AcceptedDataIsUnreferenced == [][Accept => Unreferenced]_vars

\* "Tentative groups must never authorize file deletion" (domain/model.go:31),
\* however often another batch has rewritten the confidence of the group: each
\* member of a group whose data goes is proven to hold the same selected files.
AcceptedDataIsProven ==
    [][Accept => \A step \in plan.dataDeleting : \A t \in ActiveIn(Target(step)) :
            task[t].view.ev = step.manifest.ev /\ task[t].view.ev # NoEvidence]_vars

\* What is deleted is what was previewed: the plan that is executed was saved
\* before the refresh, and its tasks still hold the very files it showed.
AcceptedAsPreviewed ==
    [][Accept => \A step \in plan.dataDeleting :
            step.task \in Active /\ Manifest(step.task) = step.manifest]_vars

\* An edit of a content group after the preview withdraws the plan.
AcceptedUnedited ==
    [][Accept => \A t \in plan.request.select : task[t].content \notin edited]_vars

\* "every enabled downloader that observes the same storage is included so a
\* recent conflicting reference cannot be missed" (store/deletions.go:408): each
\* of them, one configured while the request runs too, has been read since it
\* began.
AcceptedAfterBarrier ==
    [][Accept => \A step \in plan.dataDeleting : Witnesses(Target(step)) \subseteq synced]_vars

\* What remains of that claim when connections are tested (TestAndMarkDownloader,
\* which makes a downloader current without reading it): no other witness is unread.
UntestedAfterBarrier ==
    [][Accept => \A step \in plan.dataDeleting : Witnesses(Target(step)) \ Tested \subseteq synced]_vars
=============================================================================
