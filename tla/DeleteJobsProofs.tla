-------------------------- MODULE DeleteJobsProofs --------------------------
(***************************************************************************)
(* Proofs about DeleteJobs, for any number of requests, keys, plans, jobs  *)
(* and steps, with cancellations, database faults, crashes and restarts.   *)
(***************************************************************************)
EXTENDS DeleteJobs, TLAPS

\* Every size is a number of steps.
LEMMA StepFacts ==
    /\ Steps \subseteq Nat
    /\ 1 \in Steps
    /\ \A p \in Plans : Size[p] \in Steps /\ 1..Size[p] \subseteq Steps
  <1>1. MaxSize \in Nat /\ MaxSize >= 1
    BY MaxSizeAssumption
  <1>2. \A p \in Plans : Size[p] \in Nat /\ Size[p] >= 1 /\ Size[p] <= MaxSize
    BY <1>1, SizeAssumption DEF Steps
  <1>3. QED
    BY <1>1, <1>2 DEF Steps

LEMMA InitInductive == Init => Inductive
  <1> SUFFICES ASSUME Init PROVE Inductive
    OBVIOUS
  <1>1. TypeOK
    BY StepFacts, NullAssumption DEF Init, TypeOK, JobStatuses, StepStatuses, HandlerPcs, WorkerPcs
  <1>2. Ownership
    BY DEF Init, Ownership, Running, Live
  <1>3. Rows
    BY DEF Init, Rows
  <1>4. \A h \in Requests : WorkerInv(h)
    BY DEF Init, WorkerInv
  <1>5. AtMostOneCall /\ OrderedCalls /\ DoubtNeverHidden /\ OneJobPerKey
    BY DEF Init, AtMostOneCall, OrderedCalls, DoubtNeverHidden, OneJobPerKey
  <1>6. QED
    BY <1>1, <1>2, <1>3, <1>4, <1>5 DEF Inductive

\* A goroutine works on a job of its own, with a plan and a size.
LEMMA WorkerJob ==
    ASSUME Inductive, NEW h \in Requests, wpc[h] # "none"
    PROVE  /\ created[h] /\ pc[h] = "done"
           /\ reqJob[h] \in JobIds
           /\ jobStatus[reqJob[h]] # "absent"
           /\ jobPlan[reqJob[h]] \in Plans
           /\ Size[jobPlan[reqJob[h]]] \in Steps
           /\ StepsOf(reqJob[h]) \subseteq Steps
  <1>1. created[h] /\ pc[h] = "done"
    BY DEF Inductive, Ownership
  <1>2. reqJob[h] \in JobIds /\ jobStatus[reqJob[h]] # "absent"
    BY <1>1 DEF Inductive, Ownership
  <1>3. jobPlan[reqJob[h]] \in Plans
    BY <1>2 DEF Inductive, Rows
  <1>4. QED
    BY <1>1, <1>2, <1>3, StepFacts DEF StepsOf

LEMMA TypeStep == ASSUME Inductive, Next PROVE TypeOK'
  <1> USE DEF dbVars, requestVars, workerVars, JobStatuses, StepStatuses, HandlerPcs, WorkerPcs
  <1>0. TypeOK
    BY DEF Inductive
  <1>1. ASSUME NEW p \in Plans, CreatePlan(p) PROVE TypeOK'
    BY <1>0, <1>1 DEF TypeOK, CreatePlan
  <1>2. ASSUME NEW p \in Plans, ExpirePlan(p) PROVE TypeOK'
    BY <1>0, <1>2 DEF TypeOK, ExpirePlan
  <1>3. ASSUME NEW h \in Requests, NEW p \in Plans, NEW k \in Keys, Submit(h, p, k) PROVE TypeOK'
    BY <1>0, <1>3 DEF TypeOK, Submit, Advance
  <1>4. ASSUME NEW h \in Requests, HandlerStep(h) PROVE TypeOK'
    <2>0. ASSUME NEW j \in JobIds, AnswerExisting(h, j)
          PROVE  /\ pc' \in [Requests -> HandlerPcs]
                 /\ outcome' \in [Requests -> {"none", "accepted", "rejected"}]
                 /\ reqJob' \in [Requests -> JobIds \cup {NoJob}]
      <3>1. CASE jobPlan[j] = reqPlan[h]
        <4>1. /\ pc' = [pc EXCEPT ![h] = "done"]
              /\ outcome' = [outcome EXCEPT ![h] = "accepted"]
              /\ reqJob' = [reqJob EXCEPT ![h] = j]
          BY <2>0, <3>1 DEF AnswerExisting
        <4>2. QED
          BY <1>0, <4>1 DEF TypeOK
      <3>2. CASE jobPlan[j] # reqPlan[h]
        BY <1>0, <2>0, <3>2 DEF TypeOK, AnswerExisting
      <3>3. QED
        BY <3>1, <3>2
    <2>1. CASE LookupHit(h)
      BY <1>0, <2>0, <2>1 DEF TypeOK, LookupHit
    <2>2. CASE PrecheckHit(h)
      BY <1>0, <2>0, <2>2 DEF TypeOK, PrecheckHit
    <2>3. CASE InsertHit(h)
      BY <1>0, <2>0, <2>3 DEF TypeOK, InsertHit
    <2>4. CASE LookupMiss(h)
      BY <1>0, <2>4 DEF TypeOK, LookupMiss, Advance
    <2>5. CASE LoadPlan(h)
      BY <1>0, <2>5 DEF TypeOK, LoadPlan, Advance
    <2>6. CASE LoadPlanRefused(h)
      BY <1>0, <2>6 DEF TypeOK, LoadPlanRefused, Reject
    <2>7. CASE Refresh(h)
      BY <1>0, <2>7 DEF TypeOK, Refresh, Advance
    <2>8. CASE RefreshFailed(h)
      BY <1>0, <2>8 DEF TypeOK, RefreshFailed, Reject
    <2>9. CASE Revalidate(h)
      BY <1>0, <2>9 DEF TypeOK, Revalidate, Advance
    <2>10. CASE PlanChanged(h)
      BY <1>0, <2>10 DEF TypeOK, PlanChanged, Reject
    <2>11. CASE PrecheckPass(h)
      BY <1>0, <2>11 DEF TypeOK, PrecheckPass, Advance
    <2>12. CASE PrecheckExpired(h)
      BY <1>0, <2>12 DEF TypeOK, PrecheckExpired, Reject
    <2>13. CASE InsertJob(h)
      BY <1>0, <2>13 DEF TypeOK, InsertJob, InsertRow, Advance
    <2>14. CASE Spawn(h)
      BY <1>0, <2>14 DEF TypeOK, Spawn, Advance
    <2>15. QED
      BY <1>4, <2>1, <2>2, <2>3, <2>4, <2>5, <2>6, <2>7, <2>8, <2>9, <2>10, <2>11, <2>12, <2>13, <2>14 DEF HandlerStep
  <1>5. ASSUME NEW h \in Requests, RequestAborted(h) PROVE TypeOK'
    BY <1>0, <1>5 DEF TypeOK, RequestAborted, Reject
  <1>6. ASSUME NEW h \in Requests, WorkerStep(h) PROVE TypeOK'
    <2>1. CASE Claim(h)
      <3>1. CASE jobStatus[reqJob[h]] = "pending"
        <4>1. /\ jobStatus' = [jobStatus EXCEPT ![reqJob[h]] = "executing"]
              /\ wpc' = [wpc EXCEPT ![h] = "load"]
              /\ UNCHANGED <<planRow, jobPlan, jobKey, stepStatus, calls, phase, requestVars, wstep, verdict>>
          BY <2>1, <3>1 DEF Claim, SetJob, Goto
        <4>2. QED
          BY <1>0, <4>1 DEF TypeOK
      <3>2. CASE jobStatus[reqJob[h]] # "pending"
        BY <1>0, <2>1, <3>2 DEF TypeOK, Claim, Goto
      <3>3. QED
        BY <3>1, <3>2
    <2>2. CASE LoadJob(h)
      BY <1>0, <2>2, StepFacts DEF TypeOK, LoadJob, Goto
    <2>3. CASE MarkStep(h)
      BY <1>0, <2>3 DEF TypeOK, MarkStep, SetStep, Goto
    <2>4. CASE PrepareFailed(h)
      BY <1>0, <2>4 DEF TypeOK, PrepareFailed, Fail, Goto
    <2>5. CASE ResolveRef(h)
      BY <1>0, <2>5 DEF TypeOK, ResolveRef, Goto
    <2>6. CASE ResolveRefFailed(h)
      BY <1>0, <2>6 DEF TypeOK, ResolveRefFailed, Goto
    <2>7. CASE RefStopped(h)
      <3>1. stepStatus' \in [JobIds -> [Steps -> StepStatuses]]
        <4>1. CASE UNCHANGED stepStatus
          BY <1>0, <4>1 DEF TypeOK
        <4>2. CASE SetStep(h, "failed")
          BY <1>0, <4>2 DEF TypeOK, SetStep
        <4>3. QED
          BY <2>7, <4>1, <4>2 DEF RefStopped, StepStopped
      <3>2. QED
        BY <1>0, <2>7, <3>1 DEF TypeOK, RefStopped, StepStopped, Fail, Goto
    <2>8. CASE IssueDelete(h)
      <3>1. reqJob[h] \in JobIds /\ wstep[h] \in Steps /\ calls[reqJob[h]][wstep[h]] \in Nat
        BY <1>0, <2>8, WorkerJob DEF TypeOK, IssueDelete, WorkerAt
      <3>2. calls' \in [JobIds -> [Steps -> Nat]]
        BY <1>0, <2>8, <3>1 DEF TypeOK, IssueDelete
      <3>3. QED
        BY <1>0, <2>8, <3>2 DEF TypeOK, IssueDelete, Goto
    <2>9. CASE DeleteAnswered(h)
      BY <1>0, <2>9 DEF TypeOK, DeleteAnswered, Goto
    <2>10. CASE DeleteFailed(h)
      BY <1>0, <2>10 DEF TypeOK, DeleteFailed, Goto
    <2>11. CASE DeleteDoubted(h)
      <3>1. stepStatus' \in [JobIds -> [Steps -> StepStatuses]]
        <4>1. CASE UNCHANGED stepStatus
          BY <1>0, <4>1 DEF TypeOK
        <4>2. CASE SetStep(h, "uncertain")
          BY <1>0, <4>2 DEF TypeOK, SetStep
        <4>3. QED
          BY <2>11, <4>1, <4>2 DEF DeleteDoubted, StepStopped
      <3>2. QED
        BY <1>0, <2>11, <3>1 DEF TypeOK, DeleteDoubted, StepStopped, Fail, Goto
    <2>12. CASE AckStep(h)
      <3>1. stepStatus' \in [JobIds -> [Steps -> StepStatuses]]
        BY <1>0, <2>12 DEF TypeOK, AckStep, NextOrLeave, LastStep, SetStep
      <3>2. wpc' \in [Requests -> WorkerPcs] /\ wstep' \in [Requests -> Steps]
        <4>1. wstep[h] \in Nat /\ Size[jobPlan[reqJob[h]]] \in 1..MaxSize
          BY <1>0, <2>12, WorkerJob, StepFacts DEF TypeOK, AckStep, NextOrLeave, LastStep, WorkerAt, Steps
        <4>2. CASE wstep[h] < Size[jobPlan[reqJob[h]]]
          <5>1. wstep[h] + 1 \in Steps
            BY <1>0, <4>1, <4>2, MaxSizeAssumption DEF Steps, TypeOK
          <5>2. QED
            BY <1>0, <2>12, <4>2, <5>1 DEF TypeOK, AckStep, NextOrLeave, LastStep, Goto
        <4>3. CASE ~(wstep[h] < Size[jobPlan[reqJob[h]]])
          BY <1>0, <2>12, <4>3 DEF TypeOK, AckStep, NextOrLeave, LastStep, Goto
        <4>4. QED
          BY <4>2, <4>3
      <3>3. QED
        BY <1>0, <2>12, <3>1, <3>2 DEF TypeOK, AckStep, NextOrLeave, LastStep
    <2>13. CASE StartVerify(h)
      BY <1>0, <2>13 DEF TypeOK, StartVerify, SetJob, Goto
    <2>14. CASE VerifySync(h)
      BY <1>0, <2>14 DEF TypeOK, VerifySync, Goto
    <2>15. CASE CheckDeleted(h)
      BY <1>0, <2>15 DEF TypeOK, CheckDeleted, Goto
    <2>16. CASE FinishJob(h)
      BY <1>0, <2>16 DEF TypeOK, FinishJob, SetJob, Goto
    <2>17. CASE ConfirmFailed(h)
      BY <1>0, <2>17 DEF TypeOK, ConfirmFailed, Fail, Goto
    <2>18. CASE FailJob(h)
      <3>1. verdict[h] \in {"failed", "uncertain"}
        BY <2>18 DEF Inductive, WorkerInv, FailJob, WorkerAt
      <3>2. jobStatus' \in [JobIds -> JobStatuses]
        <4>1. CASE UNCHANGED jobStatus
          BY <1>0, <4>1 DEF TypeOK
        <4>2. CASE SetJob(h, verdict[h])
          BY <1>0, <3>1, <4>2 DEF TypeOK, SetJob
        <4>3. QED
          BY <2>18, <4>1, <4>2 DEF FailJob
      <3>3. QED
        BY <1>0, <2>18, <3>2 DEF TypeOK, FailJob, Goto
    <2>19. QED
      BY <1>6, <2>1, <2>2, <2>3, <2>4, <2>5, <2>6, <2>7, <2>8, <2>9, <2>10, <2>11, <2>12, <2>13, <2>14, <2>15, <2>16, <2>17, <2>18 DEF WorkerStep
  <1>7. CASE Stop
    BY <1>0, <1>7 DEF TypeOK, Stop
  <1>8. CASE Exit
    BY <1>0, <1>8 DEF TypeOK, Exit, LoseVolatile
  <1>9. CASE Crash
    BY <1>0, <1>9 DEF TypeOK, Crash, LoseVolatile
  <1>10. CASE Start
    BY <1>0, <1>10 DEF TypeOK, Start, Reconcile, Settle
  <1>11. QED
    BY <1>1, <1>2, <1>3, <1>4, <1>5, <1>6, <1>7, <1>8, <1>9, <1>10 DEF Next

-----------------------------------------------------------------------------
(* Footprints.  The row and calls of one job, and what one goroutine says   *)
(* about them, are the unit of the proof: a step that leaves them alone     *)
(* keeps what is known about them.                                          *)

RowInv(j) ==
    /\ jobStatus[j] # "absent" => jobPlan[j] \in Plans /\ jobKey[j] \in Keys
    /\ jobStatus[j] \in {"absent", "pending"} => \A i \in Steps : calls[j][i] = 0
    /\ jobStatus[j] \in {"verifying", "completed"} =>
            \A i \in StepsOf(j) : stepStatus[j][i] = "completed" /\ calls[j][i] = 1
    /\ \A i \in Steps : calls[j][i] <= 1
    /\ \A i \in Steps : calls[j][i] > 0 =>
            /\ i \in StepsOf(j)
            /\ \A k \in 1..(i - 1) : stepStatus[j][k] = "completed"
    /\ \A i \in Steps :
            calls[j][i] > 0 /\ stepStatus[j][i] # "completed" => jobStatus[j] \in {"executing", "uncertain"}

LEMMA RowByRow ==
    (Rows /\ AtMostOneCall /\ OrderedCalls /\ DoubtNeverHidden) <=> \A j \in JobIds : RowInv(j)
  BY DEF Rows, AtMostOneCall, OrderedCalls, DoubtNeverHidden, RowInv

SameRow(j) ==
    /\ jobStatus'[j] = jobStatus[j]
    /\ jobPlan'[j] = jobPlan[j]
    /\ jobKey'[j] = jobKey[j]
    /\ stepStatus'[j] = stepStatus[j]
    /\ calls'[j] = calls[j]

SameWorker(h) ==
    /\ wpc'[h] = wpc[h]
    /\ wstep'[h] = wstep[h]
    /\ verdict'[h] = verdict[h]
    /\ reqJob'[h] = reqJob[h]

LEMMA RowFrame ==
    ASSUME NEW j \in JobIds, RowInv(j), SameRow(j) PROVE RowInv(j)'
  BY DEF RowInv, SameRow, StepsOf

LEMMA WorkerFrame ==
    ASSUME NEW h \in Requests, WorkerInv(h), SameWorker(h), SameRow(reqJob[h]) PROVE WorkerInv(h)'
  BY DEF WorkerInv, SameWorker, SameRow, StepsOf, DoneBelow, NoCallFrom, Clean

\* A step of one goroutine touches its own job only and never erases its row.
LEMMA WorkerFootprint ==
    ASSUME Inductive, NEW h \in Requests, WorkerStep(h)
    PROVE  /\ Live(h) /\ Running /\ wpc'[h] # "none"
           /\ UNCHANGED <<planRow, jobPlan, jobKey, phase, pc, reqPlan, reqKey, copyFresh, created, reqJob, outcome>>
           /\ \A g \in Requests : g # h => SameWorker(g)
           /\ \A j \in JobIds : j # reqJob[h] => SameRow(j)
           /\ jobStatus'[reqJob[h]] # "absent"
  <1> USE DEF dbVars, requestVars, workerVars
  <1>0. TypeOK
    BY DEF Inductive
  <1>a. Live(h) /\ Running
    BY DEF WorkerStep, Live, WorkerAt, StepStopped, Claim, LoadJob, MarkStep, PrepareFailed, ResolveRef, ResolveRefFailed, RefStopped, IssueDelete, DeleteAnswered, DeleteFailed, DeleteDoubted, AckStep, NextOrLeave, LastStep, StartVerify, VerifySync, CheckDeleted, FinishJob, ConfirmFailed, FailJob
  <1>b. reqJob[h] \in JobIds /\ jobStatus[reqJob[h]] # "absent"
    BY <1>a, WorkerJob DEF Live
  <1>1. CASE Claim(h)
    BY <1>0, <1>a, <1>b, <1>1 DEF TypeOK, Claim, SameWorker, SameRow, SetJob, Goto
  <1>2. CASE LoadJob(h)
    BY <1>0, <1>a, <1>b, <1>2 DEF TypeOK, LoadJob, SameWorker, SameRow, Goto
  <1>3. CASE MarkStep(h)
    BY <1>0, <1>a, <1>b, <1>3 DEF TypeOK, MarkStep, SameWorker, SameRow, SetStep, Goto
  <1>4. CASE PrepareFailed(h)
    BY <1>0, <1>a, <1>b, <1>4 DEF TypeOK, PrepareFailed, SameWorker, SameRow, Fail, Goto
  <1>5. CASE ResolveRef(h)
    BY <1>0, <1>a, <1>b, <1>5 DEF TypeOK, ResolveRef, SameWorker, SameRow, Goto
  <1>6. CASE ResolveRefFailed(h)
    BY <1>0, <1>a, <1>b, <1>6 DEF TypeOK, ResolveRefFailed, SameWorker, SameRow, Goto
  <1>7. CASE RefStopped(h)
    BY <1>0, <1>a, <1>b, <1>7 DEF TypeOK, RefStopped, SameWorker, SameRow, StepStopped, SetStep, Fail, Goto
  <1>8. CASE IssueDelete(h)
    BY <1>0, <1>a, <1>b, <1>8 DEF TypeOK, IssueDelete, SameWorker, SameRow, Goto
  <1>9. CASE DeleteAnswered(h)
    BY <1>0, <1>a, <1>b, <1>9 DEF TypeOK, DeleteAnswered, SameWorker, SameRow, Goto
  <1>10. CASE DeleteFailed(h)
    BY <1>0, <1>a, <1>b, <1>10 DEF TypeOK, DeleteFailed, SameWorker, SameRow, Goto
  <1>11. CASE DeleteDoubted(h)
    BY <1>0, <1>a, <1>b, <1>11 DEF TypeOK, DeleteDoubted, SameWorker, SameRow, StepStopped, SetStep, Fail, Goto
  <1>12. CASE AckStep(h)
    BY <1>0, <1>a, <1>b, <1>12 DEF TypeOK, AckStep, NextOrLeave, LastStep, SameWorker, SameRow, SetStep, Goto
  <1>13. CASE StartVerify(h)
    BY <1>0, <1>a, <1>b, <1>13 DEF TypeOK, StartVerify, SameWorker, SameRow, SetJob, Goto
  <1>14. CASE VerifySync(h)
    BY <1>0, <1>a, <1>b, <1>14 DEF TypeOK, VerifySync, SameWorker, SameRow, Goto
  <1>15. CASE CheckDeleted(h)
    BY <1>0, <1>a, <1>b, <1>15 DEF TypeOK, CheckDeleted, SameWorker, SameRow, Goto
  <1>16. CASE FinishJob(h)
    BY <1>0, <1>a, <1>b, <1>16 DEF TypeOK, FinishJob, SameWorker, SameRow, SetJob, Goto
  <1>17. CASE ConfirmFailed(h)
    BY <1>0, <1>a, <1>b, <1>17 DEF TypeOK, ConfirmFailed, SameWorker, SameRow, Fail, Goto
  <1>18. CASE FailJob(h)
    BY <1>0, <1>a, <1>b, <1>18 DEF TypeOK, FailJob, SameWorker, SameRow, SetJob, Goto
  <1>19. QED
    BY <1>1, <1>2, <1>3, <1>4, <1>5, <1>6, <1>7, <1>8, <1>9, <1>10, <1>11, <1>12, <1>13, <1>14, <1>15, <1>16, <1>17, <1>18 DEF WorkerStep

\* What a step of a goroutine leaves behind in its own job, and what its new
\* control point says about it.
LEMMA WorkerOwn ==
    ASSUME Inductive, NEW h \in Requests, WorkerStep(h)
    PROVE  RowInv(reqJob[h])' /\ WorkerInv(h)'
  <1> USE DEF dbVars, requestVars, workerVars, WorkerAt, Goto
  <1> DEFINE j == reqJob[h]
  <1>0. TypeOK /\ RowInv(j) /\ WorkerInv(h) /\ Live(h) /\ j \in JobIds /\ jobStatus[j] # "absent"
    BY RowByRow, WorkerFootprint, WorkerJob DEF Inductive, Live
  <1>a. jobPlan[j] \in Plans /\ Size[jobPlan[j]] \in Steps /\ StepsOf(j) \subseteq Steps
    BY WorkerFootprint, WorkerJob DEF Live
  <1>b. wstep[h] \in Steps /\ Steps \subseteq Nat /\ 1 \in Steps /\ StepsOf(j) \subseteq Nat
    BY <1>0, <1>a, StepFacts DEF TypeOK
  <1>c. /\ Size[jobPlan[j]] \in Nat /\ Size[jobPlan[j]] >= 1 /\ 1 \in StepsOf(j)
        /\ \A k \in Steps : k \in Nat /\ k >= 1
    BY <1>a, <1>b, MaxSizeAssumption DEF Steps, StepsOf
  <1>d. \A n \in Steps : \A k \in 1..(n - 1) : k \in Steps /\ k < n
    BY MaxSizeAssumption DEF Steps
  <1>e. wstep[h] \in Nat
    BY <1>b
  <1>f. \A k \in Steps :
            /\ k < wstep[h] => k # wstep[h]
            /\ k < wstep[h] + 1 => k < wstep[h] \/ k = wstep[h]
            /\ k >= wstep[h] + 1 => k >= wstep[h] /\ k # wstep[h]
    BY <1>c, <1>e
  <1>1. CASE Claim(h)
    BY <1>0, <1>a, <1>b, <1>1 DEF Claim, SetJob, TypeOK, RowInv, WorkerInv, StepsOf, DoneBelow, NoCallFrom, Clean, Live, Unsettled
  <1>2. CASE LoadJob(h)
    <2>1. /\ UNCHANGED <<jobStatus, jobPlan, jobKey, stepStatus, calls, reqJob>>
          /\ wpc'[h] = "mark" /\ wstep'[h] = 1
          /\ jobStatus[j] = "executing" /\ NoCallFrom(j, 1)
      BY <1>0, <1>2 DEF LoadJob, TypeOK, WorkerInv
    <2>2. DoneBelow(j, 1)
      BY <1>c DEF DoneBelow
    <2>3. RowInv(j)'
      BY <1>0, <2>1 DEF RowInv, StepsOf
    <2>4. WorkerInv(h)'
      BY <1>c, <2>1, <2>2 DEF WorkerInv, StepsOf, DoneBelow, NoCallFrom
    <2>5. QED
      BY <2>3, <2>4
  <1>3. CASE MarkStep(h)
    BY <1>0, <1>a, <1>b, <1>3 DEF MarkStep, SetStep, TypeOK, RowInv, WorkerInv, StepsOf, DoneBelow, NoCallFrom, Clean, Live, Unsettled
  <1>4. CASE PrepareFailed(h)
    BY <1>0, <1>a, <1>b, <1>4 DEF PrepareFailed, Fail, TypeOK, RowInv, WorkerInv, StepsOf, DoneBelow, NoCallFrom, Clean, Live, Unsettled
  <1>5. CASE ResolveRef(h)
    BY <1>0, <1>a, <1>b, <1>5 DEF ResolveRef, TypeOK, RowInv, WorkerInv, StepsOf, DoneBelow, NoCallFrom, Clean, Live, Unsettled
  <1>6. CASE ResolveRefFailed(h)
    BY <1>0, <1>a, <1>b, <1>6 DEF ResolveRefFailed, TypeOK, RowInv, WorkerInv, StepsOf, DoneBelow, NoCallFrom, Clean, Live, Unsettled
  <1>7. CASE RefStopped(h)
    <2>1. /\ UNCHANGED <<jobStatus, jobPlan, jobKey, calls, reqJob>>
          /\ wpc'[h] = "fail" /\ verdict'[h] = "failed"
          /\ jobStatus[j] = "executing" /\ DoneBelow(j, wstep[h]) /\ wstep[h] \in StepsOf(j)
          /\ NoCallFrom(j, wstep[h])
      BY <1>0, <1>7 DEF RefStopped, StepStopped, Fail, TypeOK, WorkerInv
    <2>2. /\ stepStatus'[j] \in [Steps -> StepStatuses]
          /\ \A k \in Steps : k # wstep[h] => stepStatus'[j][k] = stepStatus[j][k]
          /\ stepStatus'[j][wstep[h]] \in {"failed", stepStatus[j][wstep[h]]}
      BY <1>0, <1>b, <1>7 DEF RefStopped, StepStopped, SetStep, TypeOK, StepStatuses
    <2>3. \A k \in Steps : calls[j][k] > 0 => k \in StepsOf(j) /\ k <= wstep[h]
      BY <1>0, <1>b, <1>c, <2>1 DEF RowInv, TypeOK, NoCallFrom
    <2>4. RowInv(j)'
      BY <1>0, <1>b, <1>c, <1>e, <1>d, <2>1, <2>2, <2>3 DEF RowInv, StepsOf
    <2>5. WorkerInv(h)'
      BY <1>0, <1>b, <1>c, <2>1, <2>2, <2>3 DEF WorkerInv, Unsettled, Clean, DoneBelow, NoCallFrom, TypeOK
    <2>6. QED
      BY <2>4, <2>5
  <1>8. CASE IssueDelete(h)
    <2>1. /\ UNCHANGED <<jobStatus, jobPlan, jobKey, stepStatus, reqJob, wstep>>
          /\ wpc'[h] = "inflight"
          /\ jobStatus[j] = "executing" /\ DoneBelow(j, wstep[h]) /\ NoCallFrom(j, wstep[h])
          /\ wstep[h] \in StepsOf(j)
      BY <1>0, <1>8 DEF IssueDelete, TypeOK, WorkerInv
    <2>2. calls[j][wstep[h]] = 0
      BY <1>b, <1>c, <2>1 DEF NoCallFrom
    <2>3. /\ calls'[j] \in [Steps -> Nat]
          /\ \A k \in Steps : k # wstep[h] => calls'[j][k] = calls[j][k]
          /\ calls'[j][wstep[h]] = 1
      BY <1>0, <1>b, <1>8, <2>2 DEF IssueDelete, TypeOK
    <2>4. /\ \A k \in Steps : k < wstep[h] => stepStatus[j][k] = "completed" /\ calls'[j][k] = 1
          /\ \A k \in Steps : k >= wstep[h] + 1 => calls'[j][k] = 0
      BY <1>b, <1>f, <2>1, <2>3 DEF DoneBelow, NoCallFrom
    <2>5. RowInv(j)'
      BY <1>0, <1>b, <1>c, <1>d, <2>1, <2>3, <2>4 DEF RowInv, StepsOf
    <2>6. WorkerInv(h)'
      BY <2>1, <2>3, <2>4 DEF WorkerInv, StepsOf, DoneBelow, NoCallFrom
    <2>7. QED
      BY <2>5, <2>6
  <1>9. CASE DeleteAnswered(h)
    BY <1>0, <1>a, <1>b, <1>9 DEF DeleteAnswered, TypeOK, RowInv, WorkerInv, StepsOf, DoneBelow, NoCallFrom, Clean, Live, Unsettled
  <1>10. CASE DeleteFailed(h)
    BY <1>0, <1>a, <1>b, <1>10 DEF DeleteFailed, TypeOK, RowInv, WorkerInv, StepsOf, DoneBelow, NoCallFrom, Clean, Live, Unsettled
  <1>11. CASE DeleteDoubted(h)
    <2>1. /\ UNCHANGED <<jobStatus, jobPlan, jobKey, calls, reqJob>>
          /\ wpc'[h] = "fail" /\ verdict'[h] = "uncertain"
          /\ jobStatus[j] = "executing" /\ DoneBelow(j, wstep[h]) /\ wstep[h] \in StepsOf(j)
          /\ NoCallFrom(j, wstep[h] + 1)
      BY <1>0, <1>11 DEF DeleteDoubted, StepStopped, Fail, TypeOK, WorkerInv
    <2>2. /\ stepStatus'[j] \in [Steps -> StepStatuses]
          /\ \A k \in Steps : k # wstep[h] => stepStatus'[j][k] = stepStatus[j][k]
          /\ stepStatus'[j][wstep[h]] \in {"uncertain", stepStatus[j][wstep[h]]}
      BY <1>0, <1>b, <1>11 DEF DeleteDoubted, StepStopped, SetStep, TypeOK, StepStatuses
    <2>3. \A k \in Steps : calls[j][k] > 0 => k \in StepsOf(j) /\ k <= wstep[h]
      BY <1>0, <1>b, <1>c, <2>1 DEF RowInv, TypeOK, NoCallFrom
    <2>4. RowInv(j)'
      BY <1>0, <1>b, <1>c, <1>e, <1>d, <2>1, <2>2, <2>3 DEF RowInv, StepsOf
    <2>5. WorkerInv(h)'
      BY <1>0, <1>b, <1>c, <2>1, <2>2, <2>3 DEF WorkerInv, Unsettled, Clean, DoneBelow, NoCallFrom, TypeOK
    <2>6. QED
      BY <2>4, <2>5
  <1>12. CASE AckStep(h)
    <2>1. /\ UNCHANGED <<jobStatus, jobPlan, jobKey, calls, reqJob>>
          /\ jobStatus[j] = "executing" /\ DoneBelow(j, wstep[h]) /\ NoCallFrom(j, wstep[h] + 1)
          /\ wstep[h] \in StepsOf(j) /\ calls[j][wstep[h]] = 1
      BY <1>0, <1>12 DEF AckStep, NextOrLeave, LastStep, TypeOK, WorkerInv
    <2>2. /\ stepStatus'[j] \in [Steps -> StepStatuses]
          /\ \A k \in Steps : k # wstep[h] => stepStatus'[j][k] = stepStatus[j][k]
          /\ stepStatus'[j][wstep[h]] = "completed"
      BY <1>0, <1>b, <1>12 DEF AckStep, NextOrLeave, LastStep, SetStep, TypeOK, StepStatuses
    <2>3. \A k \in Steps : k < wstep[h] + 1 => stepStatus'[j][k] = "completed" /\ calls[j][k] = 1
      BY <1>b, <1>f, <2>1, <2>2 DEF DoneBelow
    <2>4. RowInv(j)'
      BY <1>0, <1>b, <1>c, <1>d, <2>1, <2>2 DEF RowInv, StepsOf
    <2>5. WorkerInv(h)'
      <3>1. CASE wstep[h] < Size[jobPlan[j]]
        <4>1. wstep[h] + 1 \in StepsOf(j)
          BY <1>b, <1>c, <1>e, <3>1 DEF StepsOf
        <4>2. wpc'[h] = "mark" /\ wstep'[h] = wstep[h] + 1
          BY <1>0, <1>12, <3>1 DEF AckStep, NextOrLeave, LastStep, TypeOK
        <4>3. QED
          BY <2>1, <2>3, <4>1, <4>2 DEF WorkerInv, StepsOf, DoneBelow, NoCallFrom
      <3>2. CASE ~(wstep[h] < Size[jobPlan[j]])
        <4>1. wpc'[h] = "verify"
          BY <1>0, <1>12, <3>2 DEF AckStep, NextOrLeave, LastStep, TypeOK
        <4>2. \A k \in StepsOf(j) : k \in Steps /\ k < wstep[h] + 1
          BY <1>a, <1>b, <1>c, <3>2 DEF StepsOf
        <4>3. QED
          BY <1>a, <2>1, <2>3, <4>1, <4>2 DEF WorkerInv, StepsOf
      <3>3. QED
        BY <3>1, <3>2
    <2>6. QED
      BY <2>4, <2>5
  <1>13. CASE StartVerify(h)
    BY <1>0, <1>a, <1>b, <1>13 DEF StartVerify, SetJob, TypeOK, RowInv, WorkerInv, StepsOf, DoneBelow, NoCallFrom, Clean, Live, Unsettled
  <1>14. CASE VerifySync(h)
    BY <1>0, <1>a, <1>b, <1>14 DEF VerifySync, TypeOK, RowInv, WorkerInv, StepsOf, DoneBelow, NoCallFrom, Clean, Live, Unsettled
  <1>15. CASE CheckDeleted(h)
    BY <1>0, <1>a, <1>b, <1>15 DEF CheckDeleted, TypeOK, RowInv, WorkerInv, StepsOf, DoneBelow, NoCallFrom, Clean, Live, Unsettled
  <1>16. CASE FinishJob(h)
    BY <1>0, <1>a, <1>b, <1>16 DEF FinishJob, SetJob, TypeOK, RowInv, WorkerInv, StepsOf, DoneBelow, NoCallFrom, Clean, Live, Unsettled
  <1>17. CASE ConfirmFailed(h)
    BY <1>0, <1>a, <1>b, <1>17 DEF ConfirmFailed, Fail, TypeOK, RowInv, WorkerInv, StepsOf, DoneBelow, NoCallFrom, Clean, Live, Unsettled
  <1>18. CASE FailJob(h)
    BY <1>0, <1>a, <1>b, <1>18 DEF FailJob, SetJob, TypeOK, RowInv, WorkerInv, StepsOf, DoneBelow, NoCallFrom, Clean, Live, Unsettled
  <1>19. QED
    BY <1>1, <1>2, <1>3, <1>4, <1>5, <1>6, <1>7, <1>8, <1>9, <1>10, <1>11, <1>12, <1>13, <1>14, <1>15, <1>16, <1>17, <1>18 DEF WorkerStep

\* A step of a goroutine keeps the invariant: its own job by WorkerOwn, every
\* other row and goroutine because it is not touched.
LEMMA WorkerStepInductive ==
    ASSUME Inductive, NEW h \in Requests, WorkerStep(h), TypeOK' PROVE Inductive'
  <1>0. /\ Inductive /\ TypeOK /\ Ownership /\ OneJobPerKey
        /\ \A j \in JobIds : RowInv(j)
        /\ \A g \in Requests : WorkerInv(g)
    BY RowByRow DEF Inductive
  <1>1. created[h] /\ reqJob[h] \in JobIds /\ jobStatus[reqJob[h]] # "absent"
    BY WorkerFootprint, WorkerJob DEF Live
  <1>2. \A j \in JobIds : RowInv(j)'
    <2> SUFFICES ASSUME NEW j \in JobIds PROVE RowInv(j)'
      OBVIOUS
    <2>1. CASE j = reqJob[h]
      <3>1. reqJob'[h] = j
        BY <2>1, WorkerFootprint
      <3>2. QED
        BY <2>1, <3>1, WorkerOwn DEF RowInv, StepsOf
    <2>2. CASE j # reqJob[h]
      BY <1>0, <2>2, WorkerFootprint, RowFrame
    <2>3. QED
      BY <2>1, <2>2
  <1>3. \A g \in Requests : created[g] /\ g # h => reqJob[g] \in JobIds /\ reqJob[g] # reqJob[h]
    BY <1>0, <1>1 DEF Ownership
  <1>4. \A g \in Requests : WorkerInv(g)'
    <2> SUFFICES ASSUME NEW g \in Requests, g # h PROVE WorkerInv(g)'
      BY WorkerOwn
    <2>1. CASE wpc[g] = "none"
      BY <2>1, WorkerFootprint DEF WorkerInv, SameWorker
    <2>2. CASE wpc[g] # "none"
      <3>1. created[g]
        BY <2>2, WorkerJob
      <3>2. SameWorker(g) /\ SameRow(reqJob[g])
        BY <1>3, <3>1, WorkerFootprint
      <3>3. QED
        BY <1>0, <3>2, WorkerFrame
    <2>3. QED
      BY <2>1, <2>2
  <1>5. Ownership'
    <2>1. UNCHANGED <<jobPlan, jobKey, phase, pc, reqPlan, reqKey, created, reqJob, outcome>>
      BY WorkerFootprint
    <2>2. \A j \in JobIds : jobStatus[j] # "absent" => jobStatus'[j] # "absent"
      BY WorkerFootprint DEF SameRow
    <2>3. \A g \in Requests : pc[g] = "reload" => created[g] /\ jobStatus'[reqJob[g]] = "pending"
      <3> SUFFICES ASSUME NEW g \in Requests, pc[g] = "reload"
                   PROVE created[g] /\ jobStatus'[reqJob[g]] = "pending"
        OBVIOUS
      <3>1. created[g] /\ jobStatus[reqJob[g]] = "pending"
        BY <1>0 DEF Ownership
      <3>2. g # h
        BY WorkerFootprint, WorkerJob DEF Live
      <3>3. SameRow(reqJob[g])
        BY <1>3, <3>1, <3>2, WorkerFootprint
      <3>4. QED
        BY <3>1, <3>3 DEF SameRow
    <2>4. \A g \in Requests : wpc'[g] # "none" => created[g] /\ pc[g] = "done"
      <3> SUFFICES ASSUME NEW g \in Requests, wpc'[g] # "none" PROVE created[g] /\ pc[g] = "done"
        OBVIOUS
      <3>1. wpc[g] # "none"
        BY WorkerFootprint DEF SameWorker, Live
      <3>2. QED
        BY <3>1, WorkerJob
    <2>5. Running
      BY WorkerFootprint
    <2>6. QED
      BY <1>0, <2>1, <2>2, <2>3, <2>4, <2>5 DEF Ownership, Running
  <1>6. OneJobPerKey'
    <2>1. UNCHANGED <<jobPlan, jobKey, reqPlan, reqKey, reqJob, outcome>>
      BY WorkerFootprint
    <2>2. \A j \in JobIds : jobStatus'[j] # "absent" => jobStatus[j] # "absent"
      BY <1>1, WorkerFootprint DEF SameRow
    <2>3. QED
      BY <1>0, <2>1, <2>2 DEF OneJobPerKey
  <1>7. (Rows /\ AtMostOneCall /\ OrderedCalls /\ DoubtNeverHidden)'
    BY <1>2, RowByRow DEF Rows, AtMostOneCall, OrderedCalls, DoubtNeverHidden, RowInv, StepsOf
  <1>8. QED
    BY <1>4, <1>5, <1>6, <1>7 DEF Inductive

-----------------------------------------------------------------------------
(* Handlers and the process.                                                *)

\* A step that changes no row and no call, and lets every goroutine be or ends
\* it, keeps what the rows and goroutines say.
LEMMA QuietStep ==
    ASSUME Inductive, UNCHANGED <<jobStatus, jobPlan, jobKey, stepStatus, calls>>,
           \A g \in Requests : SameWorker(g) \/ wpc'[g] \in {"none", "done"}
    PROVE  /\ (Rows /\ AtMostOneCall /\ OrderedCalls /\ DoubtNeverHidden)'
           /\ \A g \in Requests : WorkerInv(g)'
  <1>1. (Rows /\ AtMostOneCall /\ OrderedCalls /\ DoubtNeverHidden)'
    BY DEF Inductive, Rows, AtMostOneCall, OrderedCalls, DoubtNeverHidden, StepsOf
  <1>2. ASSUME NEW g \in Requests PROVE WorkerInv(g)'
    <2>1. CASE SameWorker(g)
      BY <2>1, WorkerFrame DEF Inductive, SameRow
    <2>2. CASE wpc'[g] \in {"none", "done"}
      BY <2>2 DEF WorkerInv
    <2>3. QED
      BY <2>1, <2>2
  <1>3. QED
    BY <1>1, <1>2

\* What the steps of CreateJob that change no row have in common: only handler
\* h moves, and an accepted answer is an existing job of its plan and key.
HandlerMove(h) ==
    /\ UNCHANGED <<jobStatus, jobPlan, jobKey, stepStatus, calls, phase, created, wpc, wstep, verdict>>
    /\ Running
    /\ \A g \in Requests : g # h =>
            /\ pc'[g] = pc[g] /\ reqPlan'[g] = reqPlan[g] /\ reqKey'[g] = reqKey[g]
            /\ reqJob'[g] = reqJob[g] /\ outcome'[g] = outcome[g]
    /\ pc[h] # "done" /\ pc'[h] \notin {"idle", "reload"}
    /\ pc'[h] = "done" \/ ~created[h]
    /\ created[h] => reqPlan'[h] = reqPlan[h] /\ reqKey'[h] = reqKey[h] /\ reqJob'[h] = reqJob[h]
    /\ reqPlan'[h] \in Plans /\ reqKey'[h] \in Keys
    /\ outcome'[h] = "accepted" =>
            /\ pc'[h] = "done" /\ reqJob'[h] \in JobIds /\ jobStatus[reqJob'[h]] # "absent"
            /\ jobPlan[reqJob'[h]] = reqPlan'[h] /\ jobKey[reqJob'[h]] = reqKey'[h]

LEMMA HandlerMoveInductive ==
    ASSUME Inductive, TypeOK', NEW h \in Requests, HandlerMove(h) PROVE Inductive'
  <1>0. Ownership /\ OneJobPerKey
    BY DEF Inductive
  <1>1. wpc[h] = "none"
    BY <1>0 DEF HandlerMove, Ownership
  <1>2. \A g \in Requests : SameWorker(g) \/ wpc'[g] \in {"none", "done"}
    BY <1>1 DEF HandlerMove, SameWorker
  <1>3. (Rows /\ AtMostOneCall /\ OrderedCalls /\ DoubtNeverHidden)' /\ \A g \in Requests : WorkerInv(g)'
    BY <1>2, QuietStep DEF HandlerMove
  <1>4. OneJobPerKey'
    BY <1>0 DEF HandlerMove, OneJobPerKey
  <1>5. Ownership'
    <2>1. \A g \in Requests : created'[g] =>
            /\ reqJob'[g] = reqJob[g] /\ reqPlan'[g] = reqPlan[g] /\ reqKey'[g] = reqKey[g]
      BY DEF HandlerMove
    <2>2. \A g \in Requests : created'[g] =>
            /\ reqJob'[g] \in JobIds
            /\ jobStatus'[reqJob'[g]] # "absent"
            /\ jobPlan'[reqJob'[g]] = reqPlan'[g]
            /\ jobKey'[reqJob'[g]] = reqKey'[g]
      BY <1>0, <2>1 DEF HandlerMove, Ownership
    <2>3. \A f, g \in Requests : created'[f] /\ created'[g] /\ reqJob'[f] = reqJob'[g] => f = g
      BY <1>0, <2>1 DEF HandlerMove, Ownership
    <2>4. ASSUME NEW g \in Requests
          PROVE  /\ wpc'[g] # "none" => created'[g] /\ pc'[g] = "done"
                 /\ pc'[g] = "reload" => created'[g] /\ jobStatus'[reqJob'[g]] = "pending"
                 /\ pc'[g] \notin {"reload", "done"} => ~created'[g]
                 /\ pc'[g] # "idle" => reqPlan'[g] \in Plans /\ reqKey'[g] \in Keys
                 /\ outcome'[g] = "accepted" =>
                        pc'[g] = "done" /\ reqJob'[g] \in JobIds /\ jobStatus'[reqJob'[g]] # "absent"
      <3>1. CASE g = h
        BY <1>1, <3>1 DEF HandlerMove
      <3>2. CASE g # h
        BY <1>0, <3>2 DEF HandlerMove, Ownership
      <3>3. QED
        BY <3>1, <3>2
    <2>5. Running'
      BY DEF HandlerMove, Running
    <2>6. QED
      BY <2>2, <2>3, <2>4, <2>5 DEF Ownership
  <1>6. QED
    BY <1>3, <1>4, <1>5 DEF Inductive

\* Every step of a handler but InsertJob and Spawn is such a move.
LEMMA HandlerMoves ==
    ASSUME Inductive, NEW h \in Requests, HandlerStep(h) \/ RequestAborted(h),
           ~InsertJob(h), ~Spawn(h)
    PROVE  HandlerMove(h)
  <1> USE DEF dbVars, requestVars, workerVars, Advance
  <1>0. TypeOK /\ Ownership
    BY DEF Inductive
  <1>a. pc[h] \notin {"idle", "done"}
    BY DEF HandlerStep, RequestAborted, LookupHit, LookupMiss, LoadPlan, LoadPlanRefused, Refresh,
           RefreshFailed, Revalidate, PlanChanged, PrecheckHit, PrecheckPass, PrecheckExpired, InsertHit
  <1>b. Running /\ reqPlan[h] \in Plans /\ reqKey[h] \in Keys /\ outcome[h] # "accepted"
    BY <1>0, <1>a DEF Ownership
  <1>c. pc[h] # "reload" => ~created[h]
    BY <1>0, <1>a DEF Ownership
  <1>d. ASSUME NEW j \in JobIds, HasKey(j, reqKey[h]), AnswerExisting(h, j), pc[h] # "reload",
               UNCHANGED <<dbVars, calls, phase, reqPlan, reqKey, copyFresh, created, workerVars>>
        PROVE  HandlerMove(h)
    <2>1. CASE jobPlan[j] = reqPlan[h]
      <3>1. /\ pc' = [pc EXCEPT ![h] = "done"]
            /\ outcome' = [outcome EXCEPT ![h] = "accepted"]
            /\ reqJob' = [reqJob EXCEPT ![h] = j]
        BY <1>d, <2>1 DEF AnswerExisting
      <3>2. QED
        BY <1>0, <1>a, <1>b, <1>c, <1>d, <2>1, <3>1 DEF TypeOK, HandlerMove, HasKey
    <2>2. CASE jobPlan[j] # reqPlan[h]
      BY <1>0, <1>a, <1>b, <1>c, <1>d, <2>2 DEF TypeOK, HandlerMove, AnswerExisting
    <2>3. QED
      BY <2>1, <2>2
  <1>1. CASE LookupHit(h)
    BY <1>d, <1>1 DEF LookupHit
  <1>2. CASE PrecheckHit(h)
    BY <1>d, <1>2 DEF PrecheckHit
  <1>3. CASE InsertHit(h)
    BY <1>d, <1>3 DEF InsertHit
  <1>4. CASE LookupMiss(h)
    BY <1>0, <1>a, <1>b, <1>c, <1>4 DEF TypeOK, HandlerMove, LookupMiss, Reject
  <1>5. CASE LoadPlan(h)
    BY <1>0, <1>a, <1>b, <1>c, <1>5 DEF TypeOK, HandlerMove, LoadPlan, Reject
  <1>6. CASE LoadPlanRefused(h)
    BY <1>0, <1>a, <1>b, <1>c, <1>6 DEF TypeOK, HandlerMove, LoadPlanRefused, Reject
  <1>7. CASE Refresh(h)
    BY <1>0, <1>a, <1>b, <1>c, <1>7 DEF TypeOK, HandlerMove, Refresh, Reject
  <1>8. CASE RefreshFailed(h)
    BY <1>0, <1>a, <1>b, <1>c, <1>8 DEF TypeOK, HandlerMove, RefreshFailed, Reject
  <1>9. CASE Revalidate(h)
    BY <1>0, <1>a, <1>b, <1>c, <1>9 DEF TypeOK, HandlerMove, Revalidate, Reject
  <1>10. CASE PlanChanged(h)
    BY <1>0, <1>a, <1>b, <1>c, <1>10 DEF TypeOK, HandlerMove, PlanChanged, Reject
  <1>11. CASE PrecheckPass(h)
    BY <1>0, <1>a, <1>b, <1>c, <1>11 DEF TypeOK, HandlerMove, PrecheckPass, Reject
  <1>12. CASE PrecheckExpired(h)
    BY <1>0, <1>a, <1>b, <1>c, <1>12 DEF TypeOK, HandlerMove, PrecheckExpired, Reject
  <1>13. CASE RequestAborted(h)
    BY <1>0, <1>a, <1>b, <1>c, <1>13 DEF TypeOK, HandlerMove, RequestAborted, Reject
  <1>14. QED
    BY <1>1, <1>2, <1>3, <1>4, <1>5, <1>6, <1>7, <1>8, <1>9, <1>10, <1>11, <1>12, <1>13 DEF HandlerStep

\* A submission is such a move of an idle handler.
LEMMA SubmitMoves ==
    ASSUME Inductive, NEW h \in Requests, NEW p \in Plans, NEW k \in Keys, Submit(h, p, k)
    PROVE  HandlerMove(h)
  <1>0. TypeOK /\ Ownership
    BY DEF Inductive
  <1>1. pc[h] = "idle" /\ ~created[h] /\ outcome[h] # "accepted" /\ Running
    BY <1>0 DEF Ownership, Submit, Advance, RootAlive, Running
  <1>2. QED
    BY <1>0, <1>1 DEF TypeOK, HandlerMove, Submit, Advance, dbVars, workerVars

\* The inserted job is a new row without calls, under a key no row has.
LEMMA InsertJobInductive ==
    ASSUME Inductive, TypeOK', NEW h \in Requests, InsertJob(h) PROVE Inductive'
  <1>0. /\ TypeOK /\ Ownership /\ OneJobPerKey
        /\ \A j \in JobIds : RowInv(j)
        /\ \A g \in Requests : WorkerInv(g)
    BY RowByRow DEF Inductive
  <1>1. PICK j \in JobIds :
            /\ jobStatus[j] = "absent"
            /\ jobStatus' = [jobStatus EXCEPT ![j] = "pending"]
            /\ jobPlan' = [jobPlan EXCEPT ![j] = reqPlan[h]]
            /\ jobKey' = [jobKey EXCEPT ![j] = reqKey[h]]
            /\ reqJob' = [reqJob EXCEPT ![h] = j]
    BY DEF InsertJob, InsertRow
  <1>2. /\ pc[h] = "insert" /\ pc' = [pc EXCEPT ![h] = "reload"]
        /\ created' = [created EXCEPT ![h] = TRUE]
        /\ \A i \in JobIds : ~HasKey(i, reqKey[h])
        /\ UNCHANGED <<stepStatus, calls, phase, reqPlan, reqKey, outcome, wpc, wstep, verdict>>
    BY DEF InsertJob, InsertRow, Advance, workerVars
  <1>3. /\ wpc[h] = "none" /\ ~created[h] /\ outcome[h] # "accepted" /\ Running
        /\ reqPlan[h] \in Plans /\ reqKey[h] \in Keys
    BY <1>0, <1>2 DEF Ownership
  <1>4. \A i \in JobIds : i # j => SameRow(i)
    BY <1>0, <1>1, <1>2 DEF TypeOK, SameRow
  <1>5. \A i \in JobIds : RowInv(i)'
    <2>1. RowInv(j)'
      <3>1. jobStatus'[j] = "pending" /\ jobPlan'[j] = reqPlan[h] /\ jobKey'[j] = reqKey[h]
        BY <1>0, <1>1 DEF TypeOK
      <3>2. \A i \in Steps : calls'[j][i] = 0
        BY <1>0, <1>1, <1>2 DEF RowInv
      <3>3. QED
        BY <1>3, <3>1, <3>2 DEF RowInv
    <2>2. QED
      BY <1>0, <1>4, <2>1, RowFrame
  <1>6. \A g \in Requests : WorkerInv(g)'
    <2> SUFFICES ASSUME NEW g \in Requests, wpc[g] # "none" PROVE WorkerInv(g)'
      BY <1>2 DEF WorkerInv
    <2>1. reqJob[g] \in JobIds /\ reqJob[g] # j /\ g # h
      BY <1>1, <1>3, WorkerJob
    <2>2. SameWorker(g) /\ SameRow(reqJob[g])
      BY <1>0, <1>1, <1>2, <1>4, <2>1 DEF SameWorker, TypeOK
    <2>3. QED
      BY <1>0, <2>2, WorkerFrame
  <1>7. Ownership'
    <2>1. /\ created'[h] /\ reqJob'[h] = j /\ pc'[h] = "reload"
          /\ jobStatus'[j] = "pending" /\ jobPlan'[j] = reqPlan[h] /\ jobKey'[j] = reqKey[h]
      BY <1>0, <1>1, <1>2 DEF TypeOK
    <2>2. \A g \in Requests : g # h =>
            created'[g] = created[g] /\ reqJob'[g] = reqJob[g] /\ pc'[g] = pc[g]
      BY <1>0, <1>1, <1>2 DEF TypeOK
    <2>3. \A g \in Requests : g # h /\ created[g] => reqJob[g] \in JobIds /\ reqJob[g] # j
      BY <1>0, <1>1 DEF Ownership
    <2>4. \A g \in Requests : created'[g] =>
            /\ reqJob'[g] \in JobIds
            /\ jobStatus'[reqJob'[g]] # "absent"
            /\ jobPlan'[reqJob'[g]] = reqPlan'[g]
            /\ jobKey'[reqJob'[g]] = reqKey'[g]
      BY <1>0, <1>2, <1>4, <2>1, <2>2, <2>3 DEF Ownership, SameRow
    <2>5. \A f, g \in Requests : created'[f] /\ created'[g] /\ reqJob'[f] = reqJob'[g] => f = g
      BY <1>0, <2>1, <2>2, <2>3 DEF Ownership
    <2>6. ASSUME NEW g \in Requests
          PROVE  /\ wpc'[g] # "none" => created'[g] /\ pc'[g] = "done"
                 /\ pc'[g] = "reload" => created'[g] /\ jobStatus'[reqJob'[g]] = "pending"
                 /\ pc'[g] \notin {"reload", "done"} => ~created'[g]
                 /\ pc'[g] # "idle" => reqPlan'[g] \in Plans /\ reqKey'[g] \in Keys
                 /\ outcome'[g] = "accepted" =>
                        pc'[g] = "done" /\ reqJob'[g] \in JobIds /\ jobStatus'[reqJob'[g]] # "absent"
      <3>1. CASE g = h
        BY <1>2, <1>3, <2>1, <3>1
      <3>2. CASE g # h
        <4>1. pc[g] = "reload" => created[g] /\ jobStatus'[reqJob[g]] = "pending"
          BY <1>0, <1>4, <2>3, <3>2 DEF Ownership, SameRow
        <4>2. outcome[g] = "accepted" =>
                pc[g] = "done" /\ reqJob[g] \in JobIds /\ jobStatus'[reqJob[g]] # "absent"
          BY <1>0, <1>1, <1>4 DEF Ownership, SameRow
        <4>3. QED
          BY <1>0, <1>2, <2>2, <3>2, <4>1, <4>2 DEF Ownership
      <3>3. QED
        BY <3>1, <3>2
    <2>7. Running'
      BY <1>2, <1>3 DEF Running
    <2>8. QED
      BY <2>4, <2>5, <2>6, <2>7 DEF Ownership
  <1>8. OneJobPerKey'
    <2>1. \A g \in Requests : outcome'[g] = "accepted" =>
            /\ reqJob'[g] \in JobIds
            /\ jobPlan'[reqJob'[g]] = reqPlan'[g]
            /\ jobKey'[reqJob'[g]] = reqKey'[g]
      <3> SUFFICES ASSUME NEW g \in Requests, outcome[g] = "accepted"
                   PROVE  /\ reqJob'[g] \in JobIds
                          /\ jobPlan'[reqJob'[g]] = reqPlan[g]
                          /\ jobKey'[reqJob'[g]] = reqKey[g]
        BY <1>2
      <3>1. g # h /\ reqJob'[g] = reqJob[g] /\ reqJob[g] \in JobIds /\ reqJob[g] # j
        BY <1>0, <1>1, <1>3 DEF TypeOK, Ownership
      <3>2. QED
        BY <1>0, <1>4, <3>1 DEF OneJobPerKey, SameRow
    <2>2. /\ jobKey'[j] = reqKey[h]
          /\ \A i \in JobIds : i # j /\ jobStatus'[i] # "absent" =>
                jobStatus[i] # "absent" /\ jobKey'[i] = jobKey[i] /\ jobKey[i] # reqKey[h]
      BY <1>0, <1>1, <1>2, <1>4 DEF TypeOK, SameRow, HasKey
    <2>3. \A j1, j2 \in JobIds :
            jobStatus'[j1] # "absent" /\ jobStatus'[j2] # "absent" /\ jobKey'[j1] = jobKey'[j2] => j1 = j2
      BY <1>0, <2>2 DEF OneJobPerKey
    <2>4. QED
      BY <2>1, <2>3 DEF OneJobPerKey
  <1>9. (Rows /\ AtMostOneCall /\ OrderedCalls /\ DoubtNeverHidden)'
    BY <1>5 DEF Rows, AtMostOneCall, OrderedCalls, DoubtNeverHidden, RowInv, StepsOf
  <1>10. QED
    BY <1>6, <1>7, <1>8, <1>9 DEF Inductive

\* The goroutine starts on a pending job that only its handler created.
LEMMA SpawnInductive ==
    ASSUME Inductive, TypeOK', NEW h \in Requests, Spawn(h) PROVE Inductive'
  <1>0. TypeOK /\ Ownership /\ OneJobPerKey /\ \A g \in Requests : WorkerInv(g)
    BY DEF Inductive
  <1>1. /\ pc[h] = "reload" /\ pc' = [pc EXCEPT ![h] = "done"]
        /\ outcome' = [outcome EXCEPT ![h] = "accepted"]
        /\ wpc' = [wpc EXCEPT ![h] = "claim"]
        /\ UNCHANGED <<jobStatus, jobPlan, jobKey, stepStatus, calls, phase, reqPlan, reqKey,
                       created, reqJob, wstep, verdict>>
    BY DEF Spawn, Advance, dbVars
  <1>2. /\ created[h] /\ reqJob[h] \in JobIds /\ jobStatus[reqJob[h]] = "pending" /\ Running
        /\ jobPlan[reqJob[h]] = reqPlan[h] /\ jobKey[reqJob[h]] = reqKey[h]
    BY <1>0, <1>1 DEF Ownership
  <1>3. /\ pc'[h] = "done" /\ outcome'[h] = "accepted" /\ wpc'[h] = "claim"
        /\ \A g \in Requests : g # h =>
                pc'[g] = pc[g] /\ outcome'[g] = outcome[g] /\ SameWorker(g)
    BY <1>0, <1>1 DEF TypeOK, SameWorker
  <1>4. \A g \in Requests : WorkerInv(g)'
    <2>1. WorkerInv(h)'
      BY <1>1, <1>2, <1>3 DEF WorkerInv
    <2>2. \A g \in Requests : g # h => WorkerInv(g)'
      BY <1>0, <1>1, <1>3, WorkerFrame DEF SameRow
    <2>3. QED
      BY <2>1, <2>2
  <1>5. Ownership'
    BY <1>0, <1>1, <1>2, <1>3 DEF Ownership, Running, SameWorker
  <1>6. OneJobPerKey'
    BY <1>0, <1>1, <1>2, <1>3 DEF OneJobPerKey
  <1>7. (Rows /\ AtMostOneCall /\ OrderedCalls /\ DoubtNeverHidden)'
    BY <1>1 DEF Inductive, Rows, AtMostOneCall, OrderedCalls, DoubtNeverHidden, StepsOf
  <1>8. QED
    BY <1>4, <1>5, <1>6, <1>7 DEF Inductive

\* A preview, the passing of time and a shutdown request.
LEMMA CalmStepInductive ==
    ASSUME Inductive, TypeOK',
           (\E p \in Plans : CreatePlan(p) \/ ExpirePlan(p)) \/ Stop
    PROVE  Inductive'
  <1>1. UNCHANGED <<jobStatus, jobPlan, jobKey, stepStatus, calls, pc, reqPlan, reqKey,
                    created, reqJob, outcome, wpc, wstep, verdict>>
    BY DEF CreatePlan, ExpirePlan, Stop, dbVars, requestVars, workerVars
  <1>2. Running' \/ phase' = phase
    BY DEF CreatePlan, ExpirePlan, Stop, Running
  <1>3. (Rows /\ AtMostOneCall /\ OrderedCalls /\ DoubtNeverHidden)' /\ \A g \in Requests : WorkerInv(g)'
    BY <1>1, QuietStep DEF SameWorker
  <1>4. Ownership' /\ OneJobPerKey'
    BY <1>1, <1>2 DEF Inductive, Ownership, OneJobPerKey, Running, Live
  <1>5. QED
    BY <1>3, <1>4 DEF Inductive

\* The end of the process, orderly or not.
LEMMA ProcessEndInductive ==
    ASSUME Inductive, TypeOK', Exit \/ Crash PROVE Inductive'
  <1>0. TypeOK /\ Ownership /\ OneJobPerKey
    BY DEF Inductive
  <1>1. LoseVolatile /\ Running
    BY DEF Exit, Crash, Running
  <1>2. /\ UNCHANGED <<jobStatus, jobPlan, jobKey, stepStatus, calls, reqPlan, reqKey, created, reqJob>>
        /\ \A g \in Requests :
                /\ pc'[g] = (IF pc[g] = "idle" THEN "idle" ELSE "done")
                /\ wpc'[g] = (IF wpc[g] = "none" THEN "none" ELSE "done")
                /\ outcome'[g] = "accepted" => outcome[g] = "accepted"
    BY <1>1 DEF LoseVolatile, dbVars
  <1>3. (Rows /\ AtMostOneCall /\ OrderedCalls /\ DoubtNeverHidden)' /\ \A g \in Requests : WorkerInv(g)'
    BY <1>2, QuietStep
  <1>4. Ownership'
    BY <1>0, <1>1, <1>2 DEF Ownership, Running, Live
  <1>5. OneJobPerKey'
    BY <1>0, <1>2 DEF OneJobPerKey
  <1>6. QED
    BY <1>3, <1>4, <1>5 DEF Inductive

\* Reconciliation settles rows nobody works on, and claims no more than is known.
LEMMA StartInductive ==
    ASSUME Inductive, TypeOK', Start PROVE Inductive'
  <1>0. /\ TypeOK /\ Ownership /\ OneJobPerKey
        /\ \A j \in JobIds : RowInv(j)
        /\ \A g \in Requests : WorkerInv(g)
    BY RowByRow DEF Inductive
  <1>1. /\ UNCHANGED <<jobPlan, jobKey, calls, pc, reqPlan, reqKey, created, reqJob, outcome,
                       wpc, wstep, verdict>>
        /\ phase' = "up" /\ ~Running
    BY DEF Start, requestVars, workerVars, Running
  <1>2. \A g \in Requests : wpc[g] \in {"none", "done"} /\ pc[g] \in {"idle", "done"}
    BY <1>0, <1>1 DEF Ownership, Live
  <1>3. \A j \in JobIds :
            \/ SameRow(j)
            \/ /\ jobStatus[j] \in {"executing", "verifying"} /\ jobStatus'[j] = "uncertain"
               /\ \A i \in Steps : stepStatus[j][i] = "completed" => stepStatus'[j][i] = "completed"
            \/ /\ jobStatus[j] = "pending" /\ jobStatus'[j] = "failed"
               /\ stepStatus'[j] = stepStatus[j]
    <2>1. CASE Reconcile
      <3> SUFFICES ASSUME NEW j \in JobIds
                   PROVE  \/ SameRow(j)
                          \/ /\ jobStatus[j] \in {"executing", "verifying"} /\ jobStatus'[j] = "uncertain"
                             /\ \A i \in Steps : stepStatus[j][i] = "completed" => stepStatus'[j][i] = "completed"
                          \/ /\ jobStatus[j] = "pending" /\ jobStatus'[j] = "failed"
                             /\ stepStatus'[j] = stepStatus[j]
        OBVIOUS
      <3>1. CASE jobStatus[j] \in {"executing", "verifying"}
        BY <2>1, <3>1 DEF Reconcile, Settle
      <3>2. CASE jobStatus[j] \notin {"executing", "verifying"}
        <4>1. stepStatus'[j] = [i \in Steps |-> stepStatus[j][i]]
          BY <2>1, <3>2 DEF Reconcile, Settle
        <4>2. stepStatus[j] = [i \in Steps |-> stepStatus[j][i]]
          BY <1>0 DEF TypeOK
        <4>3. jobStatus'[j] = IF jobStatus[j] = "pending" THEN "failed" ELSE jobStatus[j]
          BY <2>1, <3>2 DEF Reconcile, Settle
        <4>4. QED
          BY <1>1, <4>1, <4>2, <4>3 DEF SameRow
      <3>3. QED
        BY <3>1, <3>2
    <2>2. CASE UNCHANGED <<jobStatus, stepStatus>>
      BY <1>1, <2>2 DEF SameRow
    <2>3. QED
      BY <2>1, <2>2 DEF Start
  <1>4. \A j \in JobIds : RowInv(j)'
    <2> SUFFICES ASSUME NEW j \in JobIds PROVE RowInv(j)'
      OBVIOUS
    <2>1. CASE SameRow(j)
      BY <1>0, <2>1, RowFrame
    <2>2. CASE /\ jobStatus[j] \in {"executing", "verifying"} /\ jobStatus'[j] = "uncertain"
               /\ \A i \in Steps : stepStatus[j][i] = "completed" => stepStatus'[j][i] = "completed"
      <3>1. \A n \in Steps : \A k \in 1..(n - 1) : k \in Steps
        BY MaxSizeAssumption DEF Steps
      <3>2. QED
        BY <1>0, <1>1, <2>2, <3>1 DEF RowInv, StepsOf
    <2>3. CASE /\ jobStatus[j] = "pending" /\ jobStatus'[j] = "failed"
               /\ stepStatus'[j] = stepStatus[j]
      BY <1>0, <1>1, <2>3 DEF RowInv, StepsOf
    <2>4. QED
      BY <1>3, <2>1, <2>2, <2>3
  <1>5. \A g \in Requests : WorkerInv(g)'
    BY <1>1, <1>2 DEF WorkerInv
  <1>6. \A j \in JobIds : jobStatus'[j] # "absent" <=> jobStatus[j] # "absent"
    BY <1>3 DEF SameRow
  <1>7. Ownership' /\ OneJobPerKey'
    BY <1>0, <1>1, <1>2, <1>6 DEF Ownership, OneJobPerKey, Running
  <1>8. (Rows /\ AtMostOneCall /\ OrderedCalls /\ DoubtNeverHidden)'
    BY <1>4 DEF Rows, AtMostOneCall, OrderedCalls, DoubtNeverHidden, RowInv, StepsOf
  <1>9. QED
    BY <1>5, <1>7, <1>8 DEF Inductive

-----------------------------------------------------------------------------
(* The theorems.                                                            *)

LEMMA NextInductive == ASSUME Inductive, [Next]_vars PROVE Inductive'
  <1>1. CASE UNCHANGED vars
    BY <1>1 DEF vars, dbVars, requestVars, workerVars, Inductive, TypeOK, Ownership, Rows, WorkerInv,
                AtMostOneCall, OrderedCalls, DoubtNeverHidden, OneJobPerKey, StepsOf, Running, Live,
                DoneBelow, NoCallFrom, Clean
  <1>2. CASE Next
    <2>0. TypeOK'
      BY <1>2, TypeStep
    <2>1. CASE (\E p \in Plans : CreatePlan(p) \/ ExpirePlan(p)) \/ Stop
      BY <2>0, <2>1, CalmStepInductive
    <2>2. ASSUME NEW h \in Requests, NEW p \in Plans, NEW k \in Keys, Submit(h, p, k) PROVE Inductive'
      BY <2>0, <2>2, SubmitMoves, HandlerMoveInductive
    <2>3. ASSUME NEW h \in Requests, HandlerStep(h) \/ RequestAborted(h) PROVE Inductive'
      <3>1. CASE InsertJob(h)
        BY <2>0, <3>1, InsertJobInductive
      <3>2. CASE Spawn(h)
        BY <2>0, <3>2, SpawnInductive
      <3>3. CASE ~InsertJob(h) /\ ~Spawn(h)
        BY <2>0, <2>3, <3>3, HandlerMoves, HandlerMoveInductive
      <3>4. QED
        BY <3>1, <3>2, <3>3
    <2>4. ASSUME NEW h \in Requests, WorkerStep(h) PROVE Inductive'
      BY <2>0, <2>4, WorkerStepInductive
    <2>5. CASE Exit \/ Crash
      BY <2>0, <2>5, ProcessEndInductive
    <2>6. CASE Start
      BY <2>0, <2>6, StartInductive
    <2>7. QED
      BY <1>2, <2>1, <2>2, <2>3, <2>4, <2>5, <2>6 DEF Next
  <1>3. QED
    BY <1>1, <1>2

\* The rows, the goroutines and the handlers always fit together: every
\* goroutine of execute owns its job, and its control point determines what the
\* rows of the job say and which deletions have been sent.
THEOREM InductiveInvariant == Spec => []Inductive
  <1>1. Init => Inductive
    BY InitInductive
  <1>2. Inductive /\ [Next]_vars => Inductive'
    BY NextInductive
  <1>3. QED
    BY <1>1, <1>2, PTL DEF Spec

\* Every variable keeps its type, whatever handlers, goroutines and restarts do.
THEOREM TypeCorrect == Spec => []TypeOK
  <1>1. Inductive => TypeOK
    BY DEF Inductive
  <1>2. QED
    BY <1>1, InductiveInvariant, PTL

\* However requests are retried and the process is restarted, no step of a job
\* is sent to its downloader twice (the claim in ClaimDeleteJob).
THEOREM CallsAtMostOnce == Spec => []AtMostOneCall
  <1>1. Inductive => AtMostOneCall
    BY DEF Inductive
  <1>2. QED
    BY <1>1, InductiveInvariant, PTL

\* No step is sent before every earlier step of its job is recorded as
\* acknowledged (the loop of execute).
THEOREM CallsInOrder == Spec => []OrderedCalls
  <1>1. Inductive => OrderedCalls
    BY DEF Inductive
  <1>2. QED
    BY <1>1, InductiveInvariant, PTL

\* A job with an unacknowledged deletion is executing or uncertain, also after
\* crashes and failed writes (fail and ReconcileInterruptedDeleteJobs).
THEOREM DoubtIsReported == Spec => []DoubtNeverHidden
  <1>1. Inductive => DoubtNeverHidden
    BY DEF Inductive
  <1>2. QED
    BY <1>1, InductiveInvariant, PTL

\* A completed job has sent each of its deletions once and saw each acknowledged.
THEOREM CompletedJobsAreDone == Spec => []CompletedMeansDone
  <1>1. Inductive => CompletedMeansDone
    BY DEF Inductive, Rows, CompletedMeansDone
  <1>2. QED
    BY <1>1, InductiveInvariant, PTL

\* One key never gets two jobs, and an accepted answer is the job of the plan
\* and key of its request (CreateDeleteJob).
THEOREM KeysAreIdempotent == Spec => []OneJobPerKey
  <1>1. Inductive => OneJobPerKey
    BY DEF Inductive
  <1>2. QED
    BY <1>1, InductiveInvariant, PTL

\* The goroutine of a job writes its status only before the job is settled.
LEMMA SettledRowsStay ==
    ASSUME Inductive, [Next]_vars, NEW j \in JobIds, jobStatus[j] \in Settled
    PROVE  jobStatus'[j] = jobStatus[j]
  <1>0. TypeOK
    BY DEF Inductive
  <1>1. CASE jobStatus' = jobStatus
    BY <1>1
  <1>2. ASSUME NEW h \in Requests, InsertJob(h) PROVE jobStatus'[j] = jobStatus[j]
    <2>1. PICK i \in JobIds : jobStatus[i] = "absent" /\ jobStatus' = [jobStatus EXCEPT ![i] = "pending"]
      BY <1>2 DEF InsertJob, InsertRow
    <2>2. QED
      BY <1>0, <2>1 DEF TypeOK, Settled
  <1>3. ASSUME NEW h \in Requests, WorkerStep(h) PROVE jobStatus'[j] = jobStatus[j]
    <2>1. CASE j # reqJob[h]
      BY <1>3, <2>1, WorkerFootprint DEF SameRow
    <2>2. CASE j = reqJob[h]
      <3>1. WorkerInv(h) /\ Live(h)
        BY <1>3, WorkerFootprint DEF Inductive
      <3>2. wpc[h] \in {"none", "done"}
        BY <1>0, <2>2, <3>1 DEF WorkerInv, Settled, Unsettled, TypeOK, WorkerPcs
      <3>3. QED
        BY <3>1, <3>2 DEF Live
    <2>3. QED
      BY <2>1, <2>2
  <1>4. CASE Start
    BY <1>0, <1>4 DEF Start, Reconcile, Settle, Settled
  <1>5. ASSUME NEW h \in Requests, HandlerStep(h) \/ RequestAborted(h), ~InsertJob(h)
        PROVE jobStatus' = jobStatus
    <2>1. CASE Spawn(h)
      BY <2>1 DEF Spawn, dbVars
    <2>2. CASE ~Spawn(h)
      BY <1>5, <2>2, HandlerMoves DEF HandlerMove
    <2>3. QED
      BY <2>1, <2>2
  <1>6. ASSUME \/ UNCHANGED vars
               \/ \E p \in Plans : CreatePlan(p) \/ ExpirePlan(p)
               \/ \E h \in Requests, p \in Plans, k \in Keys : Submit(h, p, k)
               \/ Stop \/ Exit \/ Crash
        PROVE jobStatus' = jobStatus
    BY <1>6 DEF CreatePlan, ExpirePlan, Submit, Stop, Exit, Crash, LoseVolatile, vars, dbVars
  <1>7. QED
    BY <1>1, <1>2, <1>3, <1>4, <1>5, <1>6 DEF Next

\* No handler, goroutine or restart rewrites the outcome of a settled job.
THEOREM OutcomesAreFinal == Spec => SettledForever
  <1>1. Inductive /\ [Next]_vars =>
            [\A j \in JobIds : jobStatus[j] \in Settled => jobStatus'[j] = jobStatus[j]]_vars
    BY SettledRowsStay
  <1>2. QED
    BY <1>1, InductiveInvariant, PTL DEF Spec, SettledForever

-----------------------------------------------------------------------------
(* Nothing is left half-way while the database works.                       *)

Busy(g) == pc[g] = "reload" \/ wpc[g] \notin {"none", "done"}

\* A job whose row and whose creator go on as before is not left alone: the creator
\* stays busy, or is cut off by its client before the job has started.
LEMMA StaysAttended ==
    ASSUME NEW j \in JobIds, Attended(j) \/ Abandoned(j), jobStatus'[j] = jobStatus[j],
           \A g \in Requests : created[g] /\ reqJob[g] = j =>
                /\ created'[g] /\ reqJob'[g] = j
                /\ Busy(g) => \/ Busy(g)'
                              \/ ClientsCancel /\ jobStatus[j] = "pending" /\ outcome'[g] = "rejected"
                /\ outcome[g] = "rejected" => outcome'[g] = "rejected" \/ Busy(g)'
    PROVE  Attended(j)' \/ Abandoned(j)'
  <1>1. CASE Attended(j)
    <2>1. PICK g \in Requests : created[g] /\ reqJob[g] = j /\ Busy(g)
      BY <1>1 DEF Attended, Busy
    <2>2. QED
      BY <2>1 DEF Attended, Abandoned, Busy
  <1>2. CASE Abandoned(j)
    <2>1. PICK g \in Requests : created[g] /\ reqJob[g] = j /\ outcome[g] = "rejected"
      BY <1>2 DEF Abandoned
    <2>2. QED
      BY <1>2, <2>1 DEF Attended, Abandoned, Busy
  <1>3. QED
    BY <1>1, <1>2

\* A goroutine goes on or has settled its job: without faults fail() reaches the row.
LEMMA WorkerAttends ==
    ASSUME DbFaults = FALSE, Inductive, NEW h \in Requests, WorkerStep(h)
    PROVE  wpc'[h] \notin {"none", "done"} \/ jobStatus'[reqJob[h]] \in Settled
  <1> USE DEF WorkerAt, Goto
  <1>0. TypeOK /\ WorkerInv(h)
    BY DEF Inductive
  <1>1. reqJob[h] \in JobIds
    BY WorkerFootprint, WorkerJob DEF Live
  <1>2. CASE Claim(h)
    BY <1>0, <1>2 DEF TypeOK, WorkerInv, Claim
  <1>3. CASE FinishJob(h)
    BY <1>0, <1>1, <1>3 DEF TypeOK, FinishJob, SetJob, Settled
  <1>4. CASE FailJob(h)
    <2>1. verdict[h] \in {"failed", "uncertain"} /\ SetJob(h, verdict[h])
      BY <1>0, <1>4 DEF WorkerInv, FailJob
    <2>2. QED
      BY <1>0, <1>1, <2>1 DEF TypeOK, SetJob, Settled
  <1>5. CASE ~Claim(h) /\ ~FinishJob(h) /\ ~FailJob(h)
    <2>1. CASE RefStopped(h) \/ DeleteDoubted(h)
      BY <1>0, <2>1 DEF TypeOK, RefStopped, DeleteDoubted, StepStopped, Fail
    <2>2. CASE AckStep(h)
      BY <1>0, <2>2 DEF TypeOK, AckStep, NextOrLeave
    <2>3. CASE PrepareFailed(h) \/ ConfirmFailed(h)
      BY <1>0, <2>3 DEF TypeOK, PrepareFailed, ConfirmFailed, Fail
    <2>4. CASE LoadJob(h) \/ MarkStep(h) \/ ResolveRef(h) \/ ResolveRefFailed(h)
      BY <1>0, <2>4 DEF TypeOK, LoadJob, MarkStep, ResolveRef, ResolveRefFailed
    <2>5. CASE IssueDelete(h) \/ DeleteAnswered(h) \/ DeleteFailed(h)
      BY <1>0, <2>5 DEF TypeOK, IssueDelete, DeleteAnswered, DeleteFailed
    <2>6. CASE StartVerify(h) \/ VerifySync(h) \/ CheckDeleted(h)
      BY <1>0, <2>6 DEF TypeOK, StartVerify, VerifySync, CheckDeleted
    <2>7. QED
      BY <1>5, <2>1, <2>2, <2>3, <2>4, <2>5, <2>6 DEF WorkerStep
  <1>6. QED
    BY <1>2, <1>3, <1>4, <1>5

LEMMA WorkerStepAttends ==
    ASSUME DbFaults = FALSE, Inductive, JobsAreAttended, NEW h \in Requests, WorkerStep(h)
    PROVE  JobsAreAttended'
  <1> SUFFICES ASSUME phase' = "up", NEW j \in JobIds, jobStatus'[j] \in Unsettled
               PROVE  Attended(j)' \/ Abandoned(j)'
    BY DEF JobsAreAttended
  <1>1. /\ UNCHANGED <<phase, pc, created, reqJob, outcome>>
        /\ wpc[h] \notin {"none", "done"}
        /\ \A g \in Requests : g # h => wpc'[g] = wpc[g]
        /\ \A i \in JobIds : i # reqJob[h] => jobStatus'[i] = jobStatus[i]
    BY WorkerFootprint DEF SameWorker, SameRow, Live
  <1>2. CASE j = reqJob[h]
    <2>1. created[h]
      BY <1>1, WorkerJob
    <2>2. wpc'[h] \notin {"none", "done"}
      BY <1>2, WorkerAttends DEF Settled, Unsettled
    <2>3. QED
      BY <1>1, <1>2, <2>1, <2>2 DEF Attended
  <1>3. CASE j # reqJob[h]
    <2>1. Attended(j) \/ Abandoned(j)
      BY <1>1, <1>3 DEF JobsAreAttended
    <2>2. QED
      BY <1>1, <1>3, <2>1, StaysAttended DEF Busy
  <1>4. QED
    BY <1>2, <1>3

LEMMA HandlerStepAttends ==
    ASSUME DbFaults = FALSE, Inductive, JobsAreAttended, NEW h \in Requests,
           HandlerStep(h) \/ RequestAborted(h)
    PROVE  JobsAreAttended'
  <1> SUFFICES ASSUME phase' = "up", NEW j \in JobIds, jobStatus'[j] \in Unsettled
               PROVE  Attended(j)' \/ Abandoned(j)'
    BY DEF JobsAreAttended
  <1>0. TypeOK /\ Ownership
    BY DEF Inductive
  <1>1. CASE InsertJob(h)
    <2>1. PICK i \in JobIds :
            /\ jobStatus[i] = "absent"
            /\ jobStatus' = [jobStatus EXCEPT ![i] = "pending"]
            /\ reqJob' = [reqJob EXCEPT ![h] = i]
      BY <1>1 DEF InsertJob, InsertRow
    <2>2. /\ pc[h] = "insert" /\ pc' = [pc EXCEPT ![h] = "reload"]
          /\ created' = [created EXCEPT ![h] = TRUE]
          /\ UNCHANGED <<phase, outcome, wpc>>
      BY <1>1 DEF InsertJob, InsertRow, Advance, workerVars
    <2>3. ~created[h] /\ pc'[h] = "reload" /\ created'[h] /\ reqJob'[h] = i
      <3>1. ~created[h]
        BY <1>0, <2>2 DEF Ownership
      <3>2. pc'[h] = "reload" /\ created'[h] /\ reqJob'[h] = i
        BY <1>0, <2>1, <2>2 DEF TypeOK
      <3>3. QED
        BY <3>1, <3>2
    <2>4. CASE j = i
      BY <2>3, <2>4 DEF Attended
    <2>5. CASE j # i
      <3>1. jobStatus'[j] = jobStatus[j]
        BY <1>0, <2>1, <2>5 DEF TypeOK
      <3>2. Attended(j) \/ Abandoned(j)
        BY <2>2, <3>1 DEF JobsAreAttended
      <3>3. \A g \in Requests : g # h =>
                pc'[g] = pc[g] /\ created'[g] = created[g] /\ reqJob'[g] = reqJob[g]
        BY <1>0, <2>1, <2>2 DEF TypeOK
      <3>4. QED
        BY <2>2, <2>3, <3>1, <3>2, <3>3, StaysAttended DEF Busy
    <2>6. QED
      BY <2>4, <2>5
  <1>2. CASE Spawn(h)
    <2>1. /\ UNCHANGED <<jobStatus, phase, created, reqJob>>
          /\ wpc'[h] = "claim"
          /\ \A g \in Requests : g # h =>
                pc'[g] = pc[g] /\ outcome'[g] = outcome[g] /\ wpc'[g] = wpc[g]
      BY <1>0, <1>2 DEF TypeOK, Spawn, Advance, dbVars
    <2>2. Attended(j) \/ Abandoned(j)
      BY <2>1 DEF JobsAreAttended
    <2>3. QED
      BY <2>1, <2>2, StaysAttended DEF Busy
  <1>3. CASE ~InsertJob(h) /\ ~Spawn(h)
    <2>1. HandlerMove(h)
      BY <1>3, HandlerMoves
    <2>2. Attended(j) \/ Abandoned(j)
      BY <2>1 DEF HandlerMove, JobsAreAttended
    <2>3. ~created[h] \/ (pc[h] = "reload" /\ created[h])
      BY <1>0, <2>1 DEF HandlerMove, Ownership
    <2>4. CASE ~created[h]
      BY <2>1, <2>2, <2>4, StaysAttended DEF HandlerMove, Busy
    <2>5. CASE pc[h] = "reload" /\ created[h]
      <3>1. RequestAborted(h)
        BY <1>3, <2>5 DEF HandlerStep, LookupHit, LookupMiss, LoadPlan, LoadPlanRefused, Refresh,
           RefreshFailed, Revalidate, PlanChanged, PrecheckHit, PrecheckPass, PrecheckExpired, InsertHit, Advance
      <3>2. ClientsCancel /\ outcome'[h] = "rejected"
        BY <1>0, <2>1, <3>1 DEF TypeOK, HandlerMove, RequestAborted, Reject
      <3>3. jobStatus[reqJob[h]] = "pending"
        BY <1>0, <2>5 DEF Ownership
      <3>4. QED
        BY <2>1, <2>2, <3>2, <3>3, StaysAttended DEF HandlerMove, Busy
    <2>6. QED
      BY <2>3, <2>4, <2>5
  <1>4. QED
    BY <1>1, <1>2, <1>3

LEMMA NextAttends ==
    ASSUME DbFaults = FALSE, Inductive, JobsAreAttended, [Next]_vars PROVE JobsAreAttended'
  <1>1. ASSUME UNCHANGED <<jobStatus, pc, created, reqJob, outcome, wpc>>, phase' = phase
        PROVE  JobsAreAttended'
    BY <1>1 DEF JobsAreAttended, Attended, Abandoned
  <1>2. CASE UNCHANGED vars
    BY <1>1, <1>2 DEF vars, dbVars, requestVars, workerVars
  <1>3. CASE \E p \in Plans : CreatePlan(p) \/ ExpirePlan(p)
    BY <1>1, <1>3 DEF CreatePlan, ExpirePlan, dbVars, requestVars, workerVars
  <1>4. ASSUME NEW h \in Requests, NEW p \in Plans, NEW k \in Keys, Submit(h, p, k)
        PROVE  JobsAreAttended'
    <2>1. HandlerMove(h) /\ ~created[h]
      BY <1>4, SubmitMoves DEF Submit, Advance, Inductive, Ownership
    <2>2. SUFFICES ASSUME phase' = "up", NEW j \in JobIds, jobStatus'[j] \in Unsettled
                   PROVE  Attended(j)' \/ Abandoned(j)'
      BY DEF JobsAreAttended
    <2>3. Attended(j) \/ Abandoned(j)
      BY <2>1, <2>2 DEF HandlerMove, JobsAreAttended
    <2>4. QED
      BY <2>1, <2>3, StaysAttended DEF HandlerMove, Busy
  <1>5. ASSUME NEW h \in Requests, HandlerStep(h) \/ RequestAborted(h) PROVE JobsAreAttended'
    BY <1>5, HandlerStepAttends
  <1>6. ASSUME NEW h \in Requests, WorkerStep(h) PROVE JobsAreAttended'
    BY <1>6, WorkerStepAttends
  <1>7. CASE Stop \/ Exit \/ Crash
    BY <1>7 DEF Stop, Exit, Crash, JobsAreAttended
  <1>8. CASE Start
    <2>1. Reconcile
      BY <1>8 DEF Start
    <2>2. \A j \in JobIds : jobStatus'[j] \notin Unsettled
      BY <2>1 DEF Reconcile, Settle, Unsettled
    <2>3. QED
      BY <2>2 DEF JobsAreAttended
  <1>9. QED
    BY <1>2, <1>3, <1>4, <1>5, <1>6, <1>7, <1>8 DEF Next

\* As long as database operations do not fail, every job that is not settled has its
\* goroutine, or its handler about to start it, or is pending because its client
\* dropped the connection between the insert and the start; crashes and restarts
\* leave nothing behind.
THEOREM NothingIsLeftHalfway == ASSUME DbFaults = FALSE PROVE Spec => []JobsAreAttended
  <1>1. Init => JobsAreAttended
    BY DEF Init, JobsAreAttended, Unsettled
  <1>2. Inductive /\ JobsAreAttended /\ [Next]_vars => JobsAreAttended'
    BY NextAttends
  <1>3. QED
    BY <1>1, <1>2, InductiveInvariant, PTL DEF Spec

\* Without faults and without dropped connections a job that was given as an answer
\* is executed: these two are the only ways into the state that the retry of a key
\* does not resume.
THEOREM AnsweredJobsRunUndisturbed ==
    ASSUME DbFaults = FALSE, ClientsCancel = FALSE PROVE Spec => []AnsweredJobsRun
  <1>1. Inductive /\ JobsAreAttended => AnsweredJobsRun
    <2> SUFFICES ASSUME Inductive, JobsAreAttended, phase = "up",
                        NEW h \in Requests, outcome[h] = "accepted"
                 PROVE  jobStatus[reqJob[h]] \in Settled \/ Attended(reqJob[h])
      BY DEF AnsweredJobsRun
    <2>1. reqJob[h] \in JobIds /\ jobStatus[reqJob[h]] # "absent"
      BY DEF Inductive, Ownership
    <2>2. jobStatus[reqJob[h]] \in Settled \/ jobStatus[reqJob[h]] \in Unsettled
      BY <2>1 DEF Inductive, TypeOK, JobStatuses, Settled, Unsettled
    <2>3. QED
      BY <2>1, <2>2 DEF JobsAreAttended, Abandoned
  <1>2. QED
    BY <1>1, NothingIsLeftHalfway, InductiveInvariant, PTL
=============================================================================
