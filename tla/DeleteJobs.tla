----------------------------- MODULE DeleteJobs -----------------------------
(***************************************************************************)
(* The deletion service: POST /delete-jobs handlers, the rows of           *)
(* delete_plans, delete_jobs and delete_job_steps, and the goroutine that  *)
(* executes an accepted job step by step (internal/deletion/service.go and *)
(* internal/store/deletions.go).                                           *)
(*                                                                         *)
(* What the planner decides is a constant here: a plan ID is a hash of its *)
(* selection, steps, blockers and expected versions, so the number of its  *)
(* steps and whether it is blocked never change for one ID.  What the      *)
(* synchroniser and the downloaders answer is the environment's choice.    *)
(***************************************************************************)
EXTENDS Naturals

CONSTANTS
    Requests,       \* activations of the POST /delete-jobs handler
    Keys,           \* Idempotency-Key header values
    Plans,          \* delete plan IDs
    JobIds,         \* the UUIDs the store may draw for a job
    Size,           \* Size[p]: the number of steps of plan p
    MaxSize,        \* the largest of them
    Blocked,        \* the plans that carry a blocker (not Executable)
    NoKey, NoPlan, NoJob,
    ClientsCancel,  \* whether a client may drop its connection
    DbFaults        \* whether a database operation may fail on its own

Steps == 1..MaxSize

ASSUME MaxSizeAssumption == MaxSize \in Nat \ {0}
ASSUME SizeAssumption == Size \in [Plans -> Steps]
ASSUME NullAssumption == NoKey \notin Keys /\ NoPlan \notin Plans /\ NoJob \notin JobIds
ASSUME FlagAssumption == ClientsCancel \in BOOLEAN /\ DbFaults \in BOOLEAN

VARIABLES
    \* SQLite: survives a crash
    planRow,        \* delete_plans: absent, fresh (expires_at ahead) or expired
    jobStatus,      \* delete_jobs.status, "absent" where there is no row
    jobPlan,        \* delete_jobs.plan_id
    jobKey,         \* delete_jobs.idempotency_key
    stepStatus,     \* delete_job_steps.status by job and position
    \* the downloaders, as seen from outside
    calls,          \* how often DeleteRemote reached the wire, by job and position
    \* the process: lost in a crash
    phase,          \* up, stopping (root context cancelled), exited or crashed
    pc,             \* where each handler stands in CreateJob
    reqPlan, reqKey,\* its request
    copyFresh,      \* expires_at of the SavedDeletePlan it loaded is still ahead
    created,        \* its CreateDeleteJob inserted the row
    reqJob,         \* the job it holds
    outcome,        \* what it answered
    wpc,            \* where the goroutine it spawned stands in execute
    wstep,          \* the step that goroutine works on
    verdict         \* the status its fail() writes

dbVars      == <<planRow, jobStatus, jobPlan, jobKey, stepStatus>>
requestVars == <<pc, reqPlan, reqKey, copyFresh, created, reqJob, outcome>>
workerVars  == <<wpc, wstep, verdict>>
vars        == <<dbVars, calls, phase, requestVars, workerVars>>

JobStatuses  == {"absent", "pending", "executing", "verifying", "completed", "failed", "uncertain"}
Unsettled    == {"pending", "executing", "verifying"}
Settled      == {"completed", "failed", "uncertain"}
StepStatuses == {"pending", "executing", "completed", "failed", "uncertain"}
HandlerPcs   == {"idle", "lookup", "load", "refresh", "revalidate", "precheck", "insert", "reload", "done"}
WorkerPcs    == {"none", "claim", "load", "mark", "ref", "issue", "inflight", "ack",
                 "refFailed", "doubt", "verify", "sync", "check", "finish", "fail", "done"}

StepsOf(j) == 1..Size[jobPlan[j]]

-----------------------------------------------------------------------------
(* A database call made with the root context fails once the context is     *)
(* cancelled; any database call fails on a fault.                           *)

RootAlive    == phase = "up"
RootOpFails  == phase = "stopping" \/ DbFaults
Running      == phase \in {"up", "stopping"}

-----------------------------------------------------------------------------
(* Plans.  A preview upserts its row; time runs on.                         *)

CreatePlan(p) ==
    /\ RootAlive
    /\ planRow' = [planRow EXCEPT ![p] = "fresh"]
    /\ UNCHANGED <<jobStatus, jobPlan, jobKey, stepStatus, calls, phase, requestVars, workerVars>>

ExpirePlan(p) ==
    /\ planRow[p] = "fresh"
    /\ planRow' = [planRow EXCEPT ![p] = "expired"]
    /\ copyFresh' = [h \in Requests |-> copyFresh[h] /\ reqPlan[h] # p]
    /\ UNCHANGED <<jobStatus, jobPlan, jobKey, stepStatus, calls, phase, pc, reqPlan, reqKey,
                   created, reqJob, outcome, workerVars>>

-----------------------------------------------------------------------------
(* CreateJob, one action per database or synchroniser call.                 *)

HasKey(j, k) == jobStatus[j] # "absent" /\ jobKey[j] = k

\* Leave the handler with an error; nothing is rolled back.
Reject(h) ==
    /\ pc' = [pc EXCEPT ![h] = "done"]
    /\ outcome' = [outcome EXCEPT ![h] = "rejected"]

\* A job already exists for the key: it is the answer, unless another plan made it.
AnswerExisting(h, j) ==
    /\ pc' = [pc EXCEPT ![h] = "done"]
    /\ IF jobPlan[j] = reqPlan[h]
       THEN /\ outcome' = [outcome EXCEPT ![h] = "accepted"]
            /\ reqJob' = [reqJob EXCEPT ![h] = j]
       ELSE /\ outcome' = [outcome EXCEPT ![h] = "rejected"]
            /\ UNCHANGED reqJob

Advance(h, from, to) ==
    /\ pc[h] = from
    /\ pc' = [pc EXCEPT ![h] = to]

Submit(h, p, k) ==
    /\ RootAlive
    /\ Advance(h, "idle", "lookup")
    /\ reqPlan' = [reqPlan EXCEPT ![h] = p]
    /\ reqKey' = [reqKey EXCEPT ![h] = k]
    /\ UNCHANGED <<dbVars, calls, phase, copyFresh, created, reqJob, outcome, workerVars>>

LookupHit(h) ==
    /\ pc[h] = "lookup"
    /\ \E j \in JobIds : HasKey(j, reqKey[h]) /\ AnswerExisting(h, j)
    /\ UNCHANGED <<dbVars, calls, phase, reqPlan, reqKey, copyFresh, created, workerVars>>

LookupMiss(h) ==
    /\ Advance(h, "lookup", "load")
    /\ \A j \in JobIds : ~HasKey(j, reqKey[h])
    /\ UNCHANGED <<dbVars, calls, phase, reqPlan, reqKey, copyFresh, created, reqJob, outcome, workerVars>>

LoadPlan(h) ==
    /\ Advance(h, "load", "refresh")
    /\ planRow[reqPlan[h]] = "fresh"
    /\ reqPlan[h] \notin Blocked
    /\ copyFresh' = [copyFresh EXCEPT ![h] = TRUE]
    /\ UNCHANGED <<dbVars, calls, phase, reqPlan, reqKey, created, reqJob, outcome, workerVars>>

LoadPlanRefused(h) ==
    /\ pc[h] = "load"
    /\ planRow[reqPlan[h]] # "fresh" \/ reqPlan[h] \in Blocked
    /\ Reject(h)
    /\ UNCHANGED <<dbVars, calls, phase, reqPlan, reqKey, copyFresh, created, reqJob, workerVars>>

\* SyncNow for every downloader of the plan: all succeed, or the first error
\* (a downloader that is offline or already syncing) ends the request.
Refresh(h) ==
    /\ Advance(h, "refresh", "revalidate")
    /\ UNCHANGED <<dbVars, calls, phase, reqPlan, reqKey, copyFresh, created, reqJob, outcome, workerVars>>

RefreshFailed(h) ==
    /\ pc[h] = "refresh"
    /\ Reject(h)
    /\ UNCHANGED <<dbVars, calls, phase, reqPlan, reqKey, copyFresh, created, reqJob, workerVars>>

Revalidate(h) ==
    /\ Advance(h, "revalidate", "precheck")
    /\ UNCHANGED <<dbVars, calls, phase, reqPlan, reqKey, copyFresh, created, reqJob, outcome, workerVars>>

PlanChanged(h) ==
    /\ pc[h] = "revalidate"
    /\ Reject(h)
    /\ UNCHANGED <<dbVars, calls, phase, reqPlan, reqKey, copyFresh, created, reqJob, workerVars>>

\* The checks CreateDeleteJob makes before it takes the write transaction.
PrecheckHit(h) ==
    /\ pc[h] = "precheck"
    /\ \E j \in JobIds : HasKey(j, reqKey[h]) /\ AnswerExisting(h, j)
    /\ UNCHANGED <<dbVars, calls, phase, reqPlan, reqKey, copyFresh, created, workerVars>>

PrecheckPass(h) ==
    /\ copyFresh[h]
    /\ \A j \in JobIds : ~HasKey(j, reqKey[h])
    /\ Advance(h, "precheck", "insert")
    /\ UNCHANGED <<dbVars, calls, phase, reqPlan, reqKey, copyFresh, created, reqJob, outcome, workerVars>>

PrecheckExpired(h) ==
    /\ pc[h] = "precheck"
    /\ ~copyFresh[h]
    /\ \A j \in JobIds : ~HasKey(j, reqKey[h])
    /\ Reject(h)
    /\ UNCHANGED <<dbVars, calls, phase, reqPlan, reqKey, copyFresh, created, reqJob, workerVars>>

\* The write transaction looks the key up again: it found a row ...
InsertHit(h) ==
    /\ pc[h] = "insert"
    /\ \E j \in JobIds : HasKey(j, reqKey[h]) /\ AnswerExisting(h, j)
    /\ UNCHANGED <<dbVars, calls, phase, reqPlan, reqKey, copyFresh, created, workerVars>>

\* ... or it inserts the job and its steps.
InsertRow(h) ==
    /\ Advance(h, "insert", "reload")
    /\ \E j \in JobIds :
        /\ jobStatus[j] = "absent"
        /\ jobStatus' = [jobStatus EXCEPT ![j] = "pending"]
        /\ jobPlan' = [jobPlan EXCEPT ![j] = reqPlan[h]]
        /\ jobKey' = [jobKey EXCEPT ![j] = reqKey[h]]
        /\ reqJob' = [reqJob EXCEPT ![h] = j]
    /\ created' = [created EXCEPT ![h] = TRUE]
    /\ UNCHANGED <<planRow, stepStatus, calls, phase, reqPlan, reqKey, copyFresh, outcome, workerVars>>

\* Mutant: the insert trusts the lookup made before the write transaction.
InsertUnchecked(h) == InsertRow(h)

InsertJob(h) == InsertRow(h) /\ \A j \in JobIds : ~HasKey(j, reqKey[h])

\* GetDeleteJob after the commit, then the goroutine and the 202 answer.
Spawn(h) ==
    /\ Advance(h, "reload", "done")
    /\ outcome' = [outcome EXCEPT ![h] = "accepted"]
    /\ wpc' = [wpc EXCEPT ![h] = "claim"]
    /\ UNCHANGED <<dbVars, calls, phase, reqPlan, reqKey, copyFresh, created, reqJob, wstep, verdict>>

\* The request context ends (the client is gone, or server.Close has cut the
\* connection ten seconds into a shutdown) or a database call fails: CreateJob
\* returns the error wherever it stands, the row it may have committed stays.
RequestAborted(h) ==
    /\ ClientsCancel \/ DbFaults \/ phase = "stopping"
    /\ pc[h] \notin {"idle", "done"}
    /\ Reject(h)
    /\ UNCHANGED <<dbVars, calls, phase, reqPlan, reqKey, copyFresh, created, reqJob, workerVars>>

HandlerStep(h) ==
    \/ LookupHit(h) \/ LookupMiss(h) \/ LoadPlan(h) \/ LoadPlanRefused(h)
    \/ Refresh(h) \/ RefreshFailed(h) \/ Revalidate(h) \/ PlanChanged(h)
    \/ PrecheckHit(h) \/ PrecheckPass(h) \/ PrecheckExpired(h)
    \/ InsertHit(h) \/ InsertJob(h) \/ Spawn(h)

-----------------------------------------------------------------------------
(* execute: the goroutine of handler h works on job reqJob[h].              *)

WorkerAt(h, at) == Running /\ wpc[h] = at

Goto(h, to) == wpc' = [wpc EXCEPT ![h] = to]

\* fail(status, err): the status is written by FailJob.
Fail(h, status) ==
    /\ Goto(h, "fail")
    /\ verdict' = [verdict EXCEPT ![h] = status]

SetJob(h, status) == jobStatus' = [jobStatus EXCEPT ![reqJob[h]] = status]

SetStep(h, status) == stepStatus' = [stepStatus EXCEPT ![reqJob[h]][wstep[h]] = status]

Claim(h) ==
    /\ WorkerAt(h, "claim")
    /\ RootAlive
    /\ IF jobStatus[reqJob[h]] = "pending"
       THEN SetJob(h, "executing") /\ Goto(h, "load")
       ELSE UNCHANGED jobStatus /\ Goto(h, "done")
    /\ UNCHANGED <<planRow, jobPlan, jobKey, stepStatus, calls, phase, requestVars, wstep, verdict>>

\* GetDeleteJob and validatePersistedJob: the steps were inserted from this plan.
LoadJob(h) ==
    /\ WorkerAt(h, "load")
    /\ RootAlive
    /\ Goto(h, "mark")
    /\ wstep' = [wstep EXCEPT ![h] = 1]
    /\ UNCHANGED <<dbVars, calls, phase, requestVars, verdict>>

\* Step to executing.
MarkStep(h) ==
    /\ WorkerAt(h, "mark")
    /\ RootAlive
    /\ SetStep(h, "executing")
    /\ Goto(h, "ref")
    /\ UNCHANGED <<planRow, jobStatus, jobPlan, jobKey, calls, phase, requestVars, wstep, verdict>>

\* Claim, load and mark end the job as failed.
PrepareFailed(h) ==
    /\ wpc[h] \in {"claim", "load", "mark"}
    /\ Running
    /\ RootOpFails
    /\ Fail(h, "failed")
    /\ UNCHANGED <<dbVars, calls, phase, requestVars, wstep>>

\* TorrentRef, then the downloader comparison: an instance never changes its
\* downloader, so only the query can fail.
ResolveRef(h) ==
    /\ WorkerAt(h, "ref")
    /\ RootAlive
    /\ Goto(h, "issue")
    /\ UNCHANGED <<dbVars, calls, phase, requestVars, wstep, verdict>>

ResolveRefFailed(h) ==
    /\ WorkerAt(h, "ref")
    /\ RootOpFails
    /\ Goto(h, "refFailed")
    /\ UNCHANGED <<dbVars, calls, phase, requestVars, wstep, verdict>>

\* DeleteRemote reaches the downloader; what it does there is not known yet.
IssueDelete(h) ==
    /\ WorkerAt(h, "issue")
    /\ RootAlive
    /\ calls' = [calls EXCEPT ![reqJob[h]][wstep[h]] = @ + 1]
    /\ Goto(h, "inflight")
    /\ UNCHANGED <<dbVars, phase, requestVars, wstep, verdict>>

DeleteAnswered(h) ==
    /\ WorkerAt(h, "inflight")
    /\ Goto(h, "ack")
    /\ UNCHANGED <<dbVars, calls, phase, requestVars, wstep, verdict>>

\* Mutant: a lost answer is answered by calling again.
DeleteRetried(h) ==
    /\ Running
    /\ wpc[h] \in {"issue", "inflight"}
    /\ Goto(h, "issue")
    /\ UNCHANGED <<dbVars, calls, phase, requestVars, wstep, verdict>>

\* An error before the call, or an error answer, a lost answer or the 30 s timeout.
DeleteFailed(h) ==
    /\ Running
    /\ wpc[h] \in {"issue", "inflight"}
    /\ Goto(h, "doubt")
    /\ UNCHANGED <<dbVars, calls, phase, requestVars, wstep, verdict>>

\* The status of the step is written with a background context, its error dropped.
StepStopped(h, at, stepState, jobState) ==
    /\ WorkerAt(h, at)
    /\ SetStep(h, stepState) \/ (DbFaults /\ UNCHANGED stepStatus)
    /\ Fail(h, jobState)
    /\ UNCHANGED <<planRow, jobStatus, jobPlan, jobKey, calls, phase, requestVars, wstep>>

RefStopped(h) == StepStopped(h, "refFailed", "failed", "failed")

\* Mutant: an unknown result is taken for a failure.
DeleteDismissed(h) == StepStopped(h, "doubt", "uncertain", "failed")

DeleteDoubted(h) == StepStopped(h, "doubt", "uncertain", "uncertain")

\* Step to completed; the loop goes on to the next step or leaves.
NextOrLeave(h, more) ==
    /\ WorkerAt(h, "ack")
    /\ RootAlive
    /\ IF more
       THEN Goto(h, "mark") /\ wstep' = [wstep EXCEPT ![h] = @ + 1]
       ELSE Goto(h, "verify") /\ UNCHANGED wstep
    /\ UNCHANGED <<planRow, jobStatus, jobPlan, jobKey, calls, phase, requestVars, verdict>>

LastStep(h) == Size[jobPlan[reqJob[h]]]

\* Mutants: the error of writing the acknowledgement is ignored; the loop
\* leaves one step early; it runs one step too far.
AckUnwritten(h) == NextOrLeave(h, wstep[h] < LastStep(h)) /\ UNCHANGED stepStatus
AckShort(h) == NextOrLeave(h, wstep[h] + 1 < LastStep(h)) /\ SetStep(h, "completed")
AckLong(h) == NextOrLeave(h, wstep[h] <= LastStep(h)) /\ SetStep(h, "completed")

AckStep(h) == NextOrLeave(h, wstep[h] < LastStep(h)) /\ SetStep(h, "completed")

StartVerify(h) ==
    /\ WorkerAt(h, "verify")
    /\ RootAlive
    /\ SetJob(h, "verifying")
    /\ Goto(h, "sync")
    /\ UNCHANGED <<planRow, jobPlan, jobKey, stepStatus, calls, phase, requestVars, wstep, verdict>>

\* A full SyncNow of every downloader of the plan.
VerifySync(h) ==
    /\ WorkerAt(h, "sync")
    /\ RootAlive
    /\ Goto(h, "check")
    /\ UNCHANGED <<dbVars, calls, phase, requestVars, wstep, verdict>>

\* InstancesDeleted says that every selected task is gone.
CheckDeleted(h) ==
    /\ WorkerAt(h, "check")
    /\ RootAlive
    /\ Goto(h, "finish")
    /\ UNCHANGED <<dbVars, calls, phase, requestVars, wstep, verdict>>

FinishJob(h) ==
    /\ WorkerAt(h, "finish")
    /\ RootAlive
    /\ SetJob(h, "completed")
    /\ Goto(h, "done")
    /\ UNCHANGED <<planRow, jobPlan, jobKey, stepStatus, calls, phase, requestVars, wstep, verdict>>

\* After the last call every error ends the job as uncertain; a sync may be
\* refused and a task may still be present without any fault.
ConfirmFailed(h) ==
    /\ Running
    /\ \/ wpc[h] \in {"ack", "verify", "finish"} /\ RootOpFails
       \/ wpc[h] \in {"sync", "check"}
    /\ Fail(h, "uncertain")
    /\ UNCHANGED <<dbVars, calls, phase, requestVars, wstep>>

\* fail() writes the job status with a background context and drops the error.
FailJob(h) ==
    /\ WorkerAt(h, "fail")
    /\ SetJob(h, verdict[h]) \/ (DbFaults /\ UNCHANGED jobStatus)
    /\ Goto(h, "done")
    /\ UNCHANGED <<planRow, jobPlan, jobKey, stepStatus, calls, phase, requestVars, wstep, verdict>>

WorkerStep(h) ==
    \/ Claim(h) \/ LoadJob(h) \/ MarkStep(h) \/ PrepareFailed(h)
    \/ ResolveRef(h) \/ ResolveRefFailed(h) \/ RefStopped(h)
    \/ IssueDelete(h) \/ DeleteAnswered(h) \/ DeleteFailed(h) \/ DeleteDoubted(h)
    \/ AckStep(h) \/ StartVerify(h) \/ VerifySync(h) \/ CheckDeleted(h) \/ FinishJob(h)
    \/ ConfirmFailed(h) \/ FailJob(h)

-----------------------------------------------------------------------------
(* The process.                                                             *)

\* SIGTERM: the root context is cancelled, the listener closes.
Stop ==
    /\ phase = "up"
    /\ phase' = "stopping"
    /\ UNCHANGED <<dbVars, calls, requestVars, workerVars>>

\* Handlers and goroutines vanish with the process; their clients see an error.
LoseVolatile ==
    /\ pc' = [h \in Requests |-> IF pc[h] = "idle" THEN "idle" ELSE "done"]
    /\ outcome' = [h \in Requests |-> IF pc[h] \in {"idle", "done"} THEN outcome[h] ELSE "rejected"]
    /\ wpc' = [h \in Requests |-> IF wpc[h] = "none" THEN "none" ELSE "done"]
    /\ UNCHANGED <<dbVars, calls, reqPlan, reqKey, copyFresh, created, reqJob, wstep, verdict>>

\* main returns after deleteService.Wait; server.Close has cut off the handlers
\* that outlived the ten seconds of Shutdown.
Exit ==
    /\ phase = "stopping"
    /\ \A h \in Requests : wpc[h] \in {"none", "done"}
    /\ phase' = "exited"
    /\ LoseVolatile

Crash ==
    /\ Running
    /\ phase' = "crashed"
    /\ LoseVolatile

\* ReconcileInterruptedDeleteJobs, one write transaction.
Settle(interrupted, unstarted) ==
    /\ stepStatus' = [j \in JobIds |-> [i \in Steps |->
            IF jobStatus[j] \in interrupted /\ stepStatus[j][i] = "executing"
            THEN "uncertain" ELSE stepStatus[j][i]]]
    /\ jobStatus' = [j \in JobIds |->
            IF jobStatus[j] \in interrupted THEN "uncertain"
            ELSE IF jobStatus[j] \in unstarted THEN "failed"
            ELSE jobStatus[j]]

\* Mutants: the filter on the status is missing, or one status in it; an
\* interrupted job is queued again.
SettleAll == Settle(JobStatuses \ {"absent", "pending"}, {"pending"})
SettleExecuting == Settle({"executing"}, {"pending"})
SettleStarted == Settle({"executing", "verifying"}, {})
RequeueStarted ==
    /\ UNCHANGED stepStatus
    /\ jobStatus' = [j \in JobIds |->
            IF jobStatus[j] \in {"executing", "verifying"} THEN "pending" ELSE jobStatus[j]]

Reconcile == Settle({"executing", "verifying"}, {"pending"})

\* Start reconciles before the server listens; an error is only logged.
Start ==
    /\ phase \in {"exited", "crashed"}
    /\ phase' = "up"
    /\ Reconcile \/ (DbFaults /\ UNCHANGED <<jobStatus, stepStatus>>)
    /\ UNCHANGED <<planRow, jobPlan, jobKey, calls, requestVars, workerVars>>

-----------------------------------------------------------------------------

Init ==
    /\ planRow = [p \in Plans |-> "absent"]
    /\ jobStatus = [j \in JobIds |-> "absent"]
    /\ jobPlan = [j \in JobIds |-> NoPlan]
    /\ jobKey = [j \in JobIds |-> NoKey]
    /\ stepStatus = [j \in JobIds |-> [i \in Steps |-> "pending"]]
    /\ calls = [j \in JobIds |-> [i \in Steps |-> 0]]
    /\ phase = "up"
    /\ pc = [h \in Requests |-> "idle"]
    /\ reqPlan = [h \in Requests |-> NoPlan]
    /\ reqKey = [h \in Requests |-> NoKey]
    /\ copyFresh = [h \in Requests |-> FALSE]
    /\ created = [h \in Requests |-> FALSE]
    /\ reqJob = [h \in Requests |-> NoJob]
    /\ outcome = [h \in Requests |-> "none"]
    /\ wpc = [h \in Requests |-> "none"]
    /\ wstep = [h \in Requests |-> 1]
    /\ verdict = [h \in Requests |-> "none"]

Next ==
    \/ \E p \in Plans : CreatePlan(p) \/ ExpirePlan(p)
    \/ \E h \in Requests, p \in Plans, k \in Keys : Submit(h, p, k)
    \/ \E h \in Requests : HandlerStep(h) \/ RequestAborted(h) \/ WorkerStep(h)
    \/ Stop \/ Exit \/ Crash \/ Start

Spec == Init /\ [][Next]_vars

\* Handlers and goroutines are scheduled, every outgoing call has a timeout
\* (30 s per HTTP request), main returns once it has joined its services, and a
\* supervisor restarts the process.  Nothing forces a shutdown, a crash, an
\* abort or a submission.
Fairness ==
    /\ \A h \in Requests : WF_vars(HandlerStep(h)) /\ WF_vars(WorkerStep(h))
    /\ WF_vars(Exit) /\ WF_vars(Start)

FairSpec == Spec /\ Fairness

-----------------------------------------------------------------------------
(* Properties.                                                              *)

TypeOK ==
    /\ planRow \in [Plans -> {"absent", "fresh", "expired"}]
    /\ jobStatus \in [JobIds -> JobStatuses]
    /\ jobPlan \in [JobIds -> Plans \cup {NoPlan}]
    /\ jobKey \in [JobIds -> Keys \cup {NoKey}]
    /\ stepStatus \in [JobIds -> [Steps -> StepStatuses]]
    /\ calls \in [JobIds -> [Steps -> Nat]]
    /\ phase \in {"up", "stopping", "exited", "crashed"}
    /\ pc \in [Requests -> HandlerPcs]
    /\ reqPlan \in [Requests -> Plans \cup {NoPlan}]
    /\ reqKey \in [Requests -> Keys \cup {NoKey}]
    /\ copyFresh \in [Requests -> BOOLEAN]
    /\ created \in [Requests -> BOOLEAN]
    /\ reqJob \in [Requests -> JobIds \cup {NoJob}]
    /\ outcome \in [Requests -> {"none", "accepted", "rejected"}]
    /\ wpc \in [Requests -> WorkerPcs]
    /\ wstep \in [Requests -> Steps]
    /\ verdict \in [Requests -> {"none", "failed", "uncertain"}]

\* A remote deletion is never replayed: whatever the interleaving of retried
\* requests, failures and restarts, a step reaches the downloader at most once.
AtMostOneCall ==
    \A j \in JobIds, i \in Steps : calls[j][i] <= 1

\* A step reaches a downloader only after the database has recorded that the
\* downloader acknowledged every earlier step, so a step that deletes data
\* follows the task-only steps of the plan.
OrderedCalls ==
    \A j \in JobIds, i \in Steps : calls[j][i] > 0 =>
        /\ i \in StepsOf(j)
        /\ \A k \in 1..(i - 1) : stepStatus[j][k] = "completed"

\* A deletion whose result is unknown is never reported as completed, failed or
\* not started, also across a crash and a failed status write.
DoubtNeverHidden ==
    \A j \in JobIds, i \in Steps :
        calls[j][i] > 0 /\ stepStatus[j][i] # "completed" => jobStatus[j] \in {"executing", "uncertain"}

\* A job is completed only when each of its steps was sent and acknowledged.
CompletedMeansDone ==
    \A j \in JobIds : jobStatus[j] = "completed" =>
        \A i \in StepsOf(j) : stepStatus[j][i] = "completed" /\ calls[j][i] = 1

\* Requests that carry one key are answered with one job, and with the job of
\* the plan they name.
OneJobPerKey ==
    /\ \A h \in Requests : outcome[h] = "accepted" =>
            /\ reqJob[h] \in JobIds
            /\ jobPlan[reqJob[h]] = reqPlan[h]
            /\ jobKey[reqJob[h]] = reqKey[h]
    /\ \A j1, j2 \in JobIds :
            jobStatus[j1] # "absent" /\ jobStatus[j2] # "absent" /\ jobKey[j1] = jobKey[j2] => j1 = j2

\* A settled job stays as it is: neither a late goroutine, a retried request nor
\* a restart rewrites an outcome the user may have acted on.
SettledForever ==
    [][\A j \in JobIds : jobStatus[j] \in Settled => jobStatus'[j] = jobStatus[j]]_vars

\* Once a job has begun to execute it is eventually settled, by its goroutine or
\* by the reconciliation of a later start.
StartedJobsSettle ==
    \A j \in JobIds : jobStatus[j] \in {"executing", "verifying"} ~> jobStatus[j] \in Settled

\* A pending job does not stay so: its goroutine settles it, or a later start, unless
\* the request that made it was refused meanwhile; and every stop is followed by a
\* start that settles it in any case.
AcceptedJobsSettle ==
    \A j \in JobIds :
        /\ jobStatus[j] = "pending" ~>
                \/ jobStatus[j] \in Settled
                \/ \E h \in Requests : created[h] /\ reqJob[h] = j /\ outcome[h] = "rejected"
        /\ jobStatus[j] = "pending" /\ phase # "up" ~> jobStatus[j] \in Settled

\* Somebody is at work on job j: the handler that inserted it is about to start
\* its goroutine, or that goroutine runs.
Attended(j) ==
    \E g \in Requests :
        created[g] /\ reqJob[g] = j /\ (pc[g] = "reload" \/ wpc[g] \notin {"none", "done"})

\* The request that inserted job j was cut off by its client before the job started.
Abandoned(j) ==
    /\ ClientsCancel
    /\ jobStatus[j] = "pending"
    /\ \E g \in Requests : created[g] /\ reqJob[g] = j /\ outcome[g] = "rejected"

\* While the process serves requests and its database works, no job is left
\* half-way: every job that is not settled has its goroutine, or about to get it,
\* but for a pending job whose client went away (CreateJob, execute and
\* ReconcileInterruptedDeleteJobs).
JobsAreAttended ==
    phase = "up" => \A j \in JobIds : jobStatus[j] \in Unsettled => Attended(j) \/ Abandoned(j)

\* "persists an idempotent job, and starts ordered execution" (service.go:69), and
\* the frontend keeps the key "for a safe retry" (DeleteTasksModal.tsx:39): a job
\* that a request was given as its answer is settled or somebody executes it.
AnsweredJobsRun ==
    phase = "up" => \A h \in Requests : outcome[h] = "accepted" =>
        jobStatus[reqJob[h]] \in Settled \/ Attended(reqJob[h])

-----------------------------------------------------------------------------
(* The inductive invariant behind the safety properties: what each control  *)
(* point of a goroutine implies about the rows and calls of its job.        *)

Live(h) == wpc[h] \notin {"none", "done"}

\* A handler that inserted a row owns it; its goroutine exists only after it.
Ownership ==
    /\ \A h \in Requests : created[h] =>
            /\ reqJob[h] \in JobIds
            /\ jobStatus[reqJob[h]] # "absent"
            /\ jobPlan[reqJob[h]] = reqPlan[h]
            /\ jobKey[reqJob[h]] = reqKey[h]
    /\ \A g, h \in Requests : created[g] /\ created[h] /\ reqJob[g] = reqJob[h] => g = h
    /\ \A h \in Requests :
            /\ wpc[h] # "none" => created[h] /\ pc[h] = "done"
            /\ pc[h] = "reload" => created[h] /\ jobStatus[reqJob[h]] = "pending"
            /\ pc[h] \notin {"reload", "done"} => ~created[h]
            /\ pc[h] # "idle" => reqPlan[h] \in Plans /\ reqKey[h] \in Keys
            /\ outcome[h] = "accepted" =>
                    pc[h] = "done" /\ reqJob[h] \in JobIds /\ jobStatus[reqJob[h]] # "absent"
    /\ ~Running => \A h \in Requests : ~Live(h) /\ pc[h] \in {"idle", "done"}

\* What the rows and calls of a job say, whoever works on it.
Rows ==
    \A j \in JobIds :
        /\ jobStatus[j] # "absent" => jobPlan[j] \in Plans /\ jobKey[j] \in Keys
        /\ jobStatus[j] \in {"absent", "pending"} => \A i \in Steps : calls[j][i] = 0
        /\ jobStatus[j] \in {"verifying", "completed"} =>
                \A i \in StepsOf(j) : stepStatus[j][i] = "completed" /\ calls[j][i] = 1

\* Steps below i are acknowledged; the calls from i on have not been made.
DoneBelow(j, i) == \A k \in Steps : k < i => stepStatus[j][k] = "completed" /\ calls[j][k] = 1
NoCallFrom(j, i) == \A k \in Steps : k >= i => calls[j][k] = 0

Clean(j) == \A i \in Steps : calls[j][i] > 0 => stepStatus[j][i] = "completed"

\* What the control point of the goroutine of h says about its job.
WorkerInv(h) ==
    LET j == reqJob[h]
        i == wstep[h]
    IN  /\ wpc[h] = "claim" => jobStatus[j] = "pending"
        /\ wpc[h] = "load" => jobStatus[j] = "executing" /\ NoCallFrom(j, 1)
        /\ wpc[h] \in {"mark", "ref", "issue", "refFailed"} =>
                jobStatus[j] = "executing" /\ DoneBelow(j, i) /\ NoCallFrom(j, i) /\ i \in StepsOf(j)
        /\ wpc[h] \in {"inflight", "ack"} =>
                /\ jobStatus[j] = "executing" /\ DoneBelow(j, i) /\ NoCallFrom(j, i + 1)
                /\ i \in StepsOf(j) /\ calls[j][i] = 1
        /\ wpc[h] = "doubt" =>
                /\ jobStatus[j] = "executing" /\ DoneBelow(j, i) /\ NoCallFrom(j, i + 1)
                /\ i \in StepsOf(j)
        /\ wpc[h] \in {"verify", "sync", "check", "finish"} =>
                /\ jobStatus[j] = (IF wpc[h] = "verify" THEN "executing" ELSE "verifying")
                /\ \A k \in StepsOf(j) : stepStatus[j][k] = "completed" /\ calls[j][k] = 1
        /\ wpc[h] = "fail" =>
                /\ jobStatus[j] \in Unsettled
                /\ verdict[h] \in {"failed", "uncertain"}
                /\ verdict[h] = "failed" => Clean(j)

Inductive ==
    /\ TypeOK
    /\ Ownership
    /\ Rows
    /\ \A h \in Requests : WorkerInv(h)
    /\ AtMostOneCall
    /\ OrderedCalls
    /\ DoubtNeverHidden
    /\ OneJobPerKey
=============================================================================
