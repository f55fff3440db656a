--------------------------- MODULE JobLedgerProofs ---------------------------
(***************************************************************************)
(* DeleteJobs implements DeletionLedger, for any number of requests, keys, *)
(* plans, jobs and steps, with cancellations, faults, crashes and restarts.*)
(*                                                                         *)
(* The proof goes by rows: every step of the protocol moves the row of     *)
(* each job in one of eight ways (RowMove), and each of the eight is a     *)
(* step of the ledger or a stutter.                                        *)
(***************************************************************************)
EXTENDS JobLedger, DeleteJobsProofs, FiniteSetTheorems

SameRecords(j) ==
    /\ jobPlan'[j] = jobPlan[j]
    /\ calls'[j] = calls[j]
    /\ \A k \in Steps : stepStatus'[j][k] = "completed" <=> stepStatus[j][k] = "completed"

RowRests(j) ==
    /\ SameRecords(j)
    /\ \/ jobStatus'[j] = jobStatus[j]
       \/ jobStatus[j] = "executing" /\ jobStatus'[j] = "verifying"

RowAccepted(j) ==
    /\ jobStatus[j] = "absent" /\ jobStatus'[j] = "pending" /\ jobPlan'[j] \in Plans
    /\ calls'[j] = calls[j] /\ stepStatus'[j] = stepStatus[j]

RowBegins(j) == SameRecords(j) /\ jobStatus[j] = "pending" /\ jobStatus'[j] = "executing"

RowSends(j, i) ==
    /\ jobStatus[j] = "executing" /\ jobStatus'[j] = "executing"
    /\ jobPlan'[j] = jobPlan[j] /\ stepStatus'[j] = stepStatus[j]
    /\ i \in StepsOf(j) /\ calls[j][i] = 0 /\ calls'[j][i] = 1 /\ Clean(j)
    /\ \A k \in Steps : k # i => calls'[j][k] = calls[j][k]

RowAcks(j, i) ==
    /\ jobStatus[j] = "executing" /\ jobStatus'[j] = "executing"
    /\ jobPlan'[j] = jobPlan[j] /\ calls'[j] = calls[j]
    /\ calls[j][i] = 1 /\ stepStatus[j][i] # "completed" /\ stepStatus'[j][i] = "completed"
    /\ \A k \in Steps : k # i => stepStatus'[j][k] = stepStatus[j][k]

RowCompletes(j) == SameRecords(j) /\ jobStatus[j] = "verifying" /\ jobStatus'[j] = "completed"

RowFails(j) ==
    SameRecords(j) /\ jobStatus[j] \in Unsettled /\ jobStatus'[j] = "failed" /\ Clean(j)

RowDoubts(j) ==
    SameRecords(j) /\ jobStatus[j] \in {"executing", "verifying"} /\ jobStatus'[j] = "uncertain"

RowMove(j) ==
    \/ RowRests(j) \/ RowAccepted(j) \/ RowBegins(j) \/ RowCompletes(j) \/ RowFails(j) \/ RowDoubts(j)
    \/ \E i \in Steps : RowSends(j, i) \/ RowAcks(j, i)

LEMMA SameRowRests == ASSUME NEW j \in JobIds, SameRow(j) PROVE RowRests(j)
  BY DEF SameRow, RowRests, SameRecords

-----------------------------------------------------------------------------
(* Every step moves every row in one of these ways.                         *)

LEMMA WorkerMovesRow ==
    ASSUME Inductive, RecordsTrailCalls, NEW h \in Requests, WorkerStep(h)
    PROVE  RowMove(reqJob[h])
  <1> USE DEF dbVars, requestVars, workerVars, WorkerAt, Goto
  <1> DEFINE j == reqJob[h]
             i == wstep[h]
  <1>0. TypeOK /\ WorkerInv(h) /\ j \in JobIds /\ jobPlan[j] \in Plans /\ StepsOf(j) \subseteq Steps
    BY WorkerFootprint, WorkerJob DEF Inductive, Live
  <1>1. /\ i \in Steps /\ i \in Nat /\ Steps \subseteq Nat
        /\ stepStatus[j] \in [Steps -> StepStatuses] /\ calls[j] \in [Steps -> Nat]
        /\ jobPlan'[j] = jobPlan[j]
    BY <1>0, StepFacts, WorkerFootprint DEF TypeOK
  <1>2. ASSUME jobStatus'[j] = jobStatus[j], UNCHANGED <<stepStatus, calls>> PROVE RowMove(j)
    BY <1>1, <1>2 DEF RowMove, RowRests, SameRecords
  <1>3. ASSUME jobStatus' = jobStatus, calls' = calls, stepStatus[j][i] # "completed",
               NEW s \in StepStatuses \ {"completed"},
               SetStep(h, s) \/ UNCHANGED stepStatus
        PROVE  RowMove(j)
    <2>1. \A k \in Steps : stepStatus'[j][k] = "completed" <=> stepStatus[j][k] = "completed"
      BY <1>0, <1>1, <1>3 DEF SetStep, TypeOK
    <2>2. QED
      BY <1>1, <1>3, <2>1 DEF RowMove, RowRests, SameRecords
  <1>4. ASSUME wpc[h] \in {"mark", "ref", "issue", "refFailed"}
        PROVE  /\ jobStatus[j] = "executing" /\ i \in StepsOf(j)
               /\ calls[j][i] = 0 /\ stepStatus[j][i] # "completed" /\ Clean(j)
    <2>1. jobStatus[j] = "executing" /\ DoneBelow(j, i) /\ NoCallFrom(j, i) /\ i \in StepsOf(j)
      BY <1>0, <1>4 DEF WorkerInv
    <2>2. calls[j][i] = 0
      BY <1>1, <2>1 DEF NoCallFrom
    <2>3. stepStatus[j][i] # "completed"
      BY <1>0, <1>1, <2>2 DEF RecordsTrailCalls, RecordTrailsCall
    <2>4. \A k \in Nat : k < i \/ k >= i
      BY <1>1
    <2>5. Clean(j)
      BY <1>1, <2>1, <2>4 DEF Clean, DoneBelow, NoCallFrom
    <2>6. QED
      BY <2>1, <2>2, <2>3, <2>5
  <1>5. CASE Claim(h)
    <2>1. CASE jobStatus[j] = "pending"
      <3>1. jobStatus'[j] = "executing" /\ UNCHANGED <<stepStatus, calls>>
        BY <1>0, <1>5, <2>1 DEF Claim, SetJob, TypeOK
      <3>2. QED
        BY <1>1, <2>1, <3>1 DEF RowMove, RowBegins, SameRecords
    <2>2. CASE jobStatus[j] # "pending"
      BY <1>2, <1>5, <2>2 DEF Claim
    <2>3. QED
      BY <2>1, <2>2
  <1>6. CASE MarkStep(h)
    BY <1>3, <1>4, <1>6 DEF MarkStep, StepStatuses
  <1>7. CASE RefStopped(h)
    BY <1>3, <1>4, <1>7 DEF RefStopped, StepStopped, StepStatuses
  <1>8. CASE DeleteDoubted(h)
    <2>1. stepStatus[j][i] # "completed"
      BY <1>8 DEF DeleteDoubted, StepStopped, RecordsTrailCalls, AnswerOpen
    <2>2. QED
      BY <1>3, <1>8, <2>1 DEF DeleteDoubted, StepStopped, StepStatuses
  <1>9. CASE IssueDelete(h)
    <2>1. wpc[h] = "issue" /\ UNCHANGED <<jobStatus, stepStatus>>
          /\ calls' = [calls EXCEPT ![j][i] = @ + 1]
      BY <1>9 DEF IssueDelete
    <2>2. calls'[j][i] = 1 /\ \A k \in Steps : k # i => calls'[j][k] = calls[j][k]
      BY <1>0, <1>1, <1>4, <2>1 DEF TypeOK
    <2>3. RowSends(j, i)
      BY <1>1, <1>4, <2>1, <2>2 DEF RowSends
    <2>4. QED
      BY <1>1, <2>3 DEF RowMove
  <1>10. CASE AckStep(h)
    <2>1. wpc[h] = "ack" /\ UNCHANGED <<jobStatus, calls>>
          /\ stepStatus' = [stepStatus EXCEPT ![j][i] = "completed"]
      BY <1>10 DEF AckStep, NextOrLeave, SetStep
    <2>2. jobStatus[j] = "executing" /\ calls[j][i] = 1
      BY <1>0, <2>1 DEF WorkerInv
    <2>3. stepStatus[j][i] # "completed"
      BY <2>1 DEF RecordsTrailCalls, AnswerOpen
    <2>4. stepStatus'[j][i] = "completed" /\ \A k \in Steps : k # i => stepStatus'[j][k] = stepStatus[j][k]
      BY <1>0, <1>1, <2>1 DEF TypeOK
    <2>5. RowAcks(j, i)
      BY <1>1, <2>1, <2>2, <2>3, <2>4 DEF RowAcks
    <2>6. QED
      BY <1>1, <2>5 DEF RowMove
  <1>11. CASE StartVerify(h)
    <2>1. jobStatus[j] = "executing" /\ jobStatus'[j] = "verifying" /\ UNCHANGED <<stepStatus, calls>>
      BY <1>0, <1>11 DEF StartVerify, SetJob, TypeOK, WorkerInv
    <2>2. QED
      BY <1>1, <2>1 DEF RowMove, RowRests, SameRecords
  <1>12. CASE FinishJob(h)
    <2>1. jobStatus[j] = "verifying" /\ jobStatus'[j] = "completed" /\ UNCHANGED <<stepStatus, calls>>
      BY <1>0, <1>12 DEF FinishJob, SetJob, TypeOK, WorkerInv
    <2>2. QED
      BY <1>1, <2>1 DEF RowMove, RowCompletes, SameRecords
  <1>13. CASE FailJob(h)
    <2>1. wpc[h] = "fail" /\ UNCHANGED <<stepStatus, calls>>
      BY <1>13 DEF FailJob
    <2>2. /\ jobStatus[j] \in Unsettled /\ verdict[h] \in {"failed", "uncertain"}
          /\ verdict[h] = "failed" => Clean(j)
          /\ verdict[h] = "uncertain" => jobStatus[j] \in {"executing", "verifying"}
      BY <1>0, <2>1 DEF WorkerInv, RecordsTrailCalls, AnswerOpen
    <2>3. CASE UNCHANGED jobStatus
      BY <1>2, <2>1, <2>3
    <2>4. CASE SetJob(h, verdict[h])
      <3>1. jobStatus'[j] = verdict[h]
        BY <1>0, <2>4 DEF SetJob, TypeOK
      <3>2. QED
        BY <1>1, <2>1, <2>2, <3>1 DEF RowMove, RowFails, RowDoubts, SameRecords
    <2>5. QED
      BY <1>13, <2>3, <2>4 DEF FailJob
  <1>14. CASE \/ LoadJob(h) \/ PrepareFailed(h) \/ ResolveRef(h) \/ ResolveRefFailed(h)
              \/ DeleteAnswered(h) \/ DeleteFailed(h) \/ VerifySync(h) \/ CheckDeleted(h)
              \/ ConfirmFailed(h)
    BY <1>2, <1>14 DEF LoadJob, PrepareFailed, ResolveRef, ResolveRefFailed, DeleteAnswered,
                       DeleteFailed, VerifySync, CheckDeleted, ConfirmFailed
  <1>15. QED
    BY <1>5, <1>6, <1>7, <1>8, <1>9, <1>10, <1>11, <1>12, <1>13, <1>14 DEF WorkerStep

\* Reconciliation doubts the rows that had begun and fails those that had not.
LEMMA StartMovesRows ==
    ASSUME Inductive, Start, NEW j \in JobIds PROVE RowMove(j)
  <1>1. /\ TypeOK /\ RowInv(j) /\ UNCHANGED <<jobPlan, calls>>
    BY RowByRow DEF Inductive, Start
  <1>2. CASE UNCHANGED <<jobStatus, stepStatus>>
    BY <1>1, <1>2 DEF RowMove, RowRests, SameRecords
  <1>3. CASE Reconcile
    <2>1. jobStatus'[j] = IF jobStatus[j] \in {"executing", "verifying"} THEN "uncertain"
                          ELSE IF jobStatus[j] = "pending" THEN "failed" ELSE jobStatus[j]
      BY <1>3 DEF Reconcile, Settle
    <2>2. \A k \in Steps : stepStatus'[j][k] = "completed" <=> stepStatus[j][k] = "completed"
      BY <1>3 DEF Reconcile, Settle
    <2>3. jobStatus[j] = "pending" => Clean(j)
      BY <1>1 DEF RowInv, Clean
    <2>4. QED
      BY <1>1, <2>1, <2>2, <2>3 DEF RowMove, RowRests, RowDoubts, RowFails, SameRecords, Unsettled
  <1>4. QED
    BY <1>2, <1>3 DEF Start

\* Every step of the protocol moves each row in one of the eight ways.
LEMMA StepMovesRows ==
    ASSUME Inductive, RecordsTrailCalls, [Next]_vars, NEW j \in JobIds PROVE RowMove(j)
  <1>0. TypeOK /\ Ownership
    BY DEF Inductive
  <1>1. ASSUME UNCHANGED <<jobStatus, jobPlan, stepStatus, calls>> PROVE RowMove(j)
    BY <1>1 DEF RowMove, RowRests, SameRecords
  <1>2. ASSUME NEW h \in Requests, InsertJob(h) PROVE RowMove(j)
    <2>1. PICK i \in JobIds :
            /\ jobStatus[i] = "absent"
            /\ jobStatus' = [jobStatus EXCEPT ![i] = "pending"]
            /\ jobPlan' = [jobPlan EXCEPT ![i] = reqPlan[h]]
      BY <1>2 DEF InsertJob, InsertRow
    <2>2. UNCHANGED <<stepStatus, calls>> /\ reqPlan[h] \in Plans
      BY <1>0, <1>2 DEF InsertJob, InsertRow, Advance, Ownership
    <2>3. CASE j = i
      <3>1. jobStatus'[j] = "pending" /\ jobPlan'[j] \in Plans
        BY <1>0, <2>1, <2>2, <2>3 DEF TypeOK
      <3>2. QED
        BY <2>1, <2>2, <2>3, <3>1 DEF RowMove, RowAccepted
    <2>4. CASE j # i
      BY <1>0, <2>1, <2>2, <2>4 DEF RowMove, RowRests, SameRecords, TypeOK
    <2>5. QED
      BY <2>3, <2>4
  <1>3. ASSUME NEW h \in Requests, Spawn(h) PROVE RowMove(j)
    BY <1>1, <1>3 DEF Spawn, dbVars
  <1>4. ASSUME NEW h \in Requests, HandlerStep(h) \/ RequestAborted(h), ~InsertJob(h), ~Spawn(h)
        PROVE  RowMove(j)
    BY <1>1, <1>4, HandlerMoves DEF HandlerMove
  <1>5. ASSUME NEW h \in Requests, WorkerStep(h) PROVE RowMove(j)
    <2>1. CASE j = reqJob[h]
      BY <1>5, <2>1, WorkerMovesRow
    <2>2. CASE j # reqJob[h]
      <3>1. SameRow(j)
        BY <1>5, <2>2, WorkerFootprint
      <3>2. QED
        BY <3>1, SameRowRests DEF RowMove
    <2>3. QED
      BY <2>1, <2>2
  <1>6. CASE Start
    BY <1>6, StartMovesRows
  <1>7. ASSUME \/ UNCHANGED vars
               \/ \E p \in Plans : CreatePlan(p) \/ ExpirePlan(p)
               \/ \E h \in Requests, p \in Plans, k \in Keys : Submit(h, p, k)
               \/ Stop \/ Exit \/ Crash
        PROVE  RowMove(j)
    BY <1>1, <1>7 DEF CreatePlan, ExpirePlan, Submit, Stop, Exit, Crash, LoseVolatile, vars, dbVars
  <1>8. QED
    BY <1>2, <1>3, <1>4, <1>5, <1>6, <1>7 DEF Next

-----------------------------------------------------------------------------
(* Records keep trailing the calls.                                         *)

LEMMA InitTrails == Init => RecordsTrailCalls
  BY DEF Init, RecordsTrailCalls, RecordTrailsCall, AnswerOpen

LEMMA MovesTrail ==
    ASSUME NEW j \in JobIds, RecordTrailsCall(j), RowMove(j) PROVE RecordTrailsCall(j)'
  BY DEF RecordTrailsCall, RowMove, RowRests, RowAccepted, RowBegins, RowSends, RowAcks,
         RowCompletes, RowFails, RowDoubts, SameRecords

LEMMA AnswerFrame ==
    ASSUME NEW g \in Requests, AnswerOpen(g), SameWorker(g), SameRow(reqJob[g]) PROVE AnswerOpen(g)'
  BY DEF AnswerOpen, SameWorker, SameRow

\* A goroutine that sends or gives up knows that its step is not recorded as
\* completed, and one that reports a doubt has begun its job.
LEMMA WorkerAnswer ==
    ASSUME Inductive, RecordsTrailCalls, NEW h \in Requests, WorkerStep(h) PROVE AnswerOpen(h)'
  <1> USE DEF dbVars, requestVars, workerVars, WorkerAt, Goto
  <1> DEFINE j == reqJob[h]
             i == wstep[h]
  <1>0. TypeOK /\ WorkerInv(h) /\ AnswerOpen(h) /\ j \in JobIds /\ i \in Steps
    BY WorkerFootprint, WorkerJob DEF Inductive, RecordsTrailCalls, Live, TypeOK
  <1>1. reqJob'[h] = j
    BY WorkerFootprint
  <1>2. ASSUME wpc[h] = "issue" PROVE stepStatus[j][i] # "completed"
    <2>1. NoCallFrom(j, i)
      BY <1>0, <1>2 DEF WorkerInv
    <2>2. calls[j][i] = 0
      BY <1>0, <2>1, StepFacts DEF NoCallFrom
    <2>3. QED
      BY <1>0, <2>2 DEF RecordsTrailCalls, RecordTrailsCall
  <1>3. CASE IssueDelete(h)
    BY <1>0, <1>1, <1>2, <1>3 DEF IssueDelete, AnswerOpen, TypeOK
  <1>4. CASE DeleteAnswered(h)
    BY <1>0, <1>1, <1>4 DEF DeleteAnswered, AnswerOpen, TypeOK
  <1>5. CASE DeleteFailed(h)
    BY <1>0, <1>1, <1>2, <1>5 DEF DeleteFailed, AnswerOpen, TypeOK
  <1>6. CASE DeleteDoubted(h)
    <2>1. wpc[h] = "doubt" /\ UNCHANGED jobStatus /\ wpc' = [wpc EXCEPT ![h] = "fail"]
      BY <1>6 DEF DeleteDoubted, StepStopped, Fail
    <2>2. jobStatus[j] = "executing"
      BY <1>0, <2>1 DEF WorkerInv
    <2>3. QED
      BY <1>0, <1>1, <2>1, <2>2 DEF AnswerOpen, TypeOK
  <1>7. CASE ConfirmFailed(h)
    <2>1. wpc[h] \in {"ack", "verify", "sync", "check", "finish"} /\ UNCHANGED jobStatus
          /\ wpc' = [wpc EXCEPT ![h] = "fail"]
      BY <1>7 DEF ConfirmFailed, Fail
    <2>2. jobStatus[j] \in {"executing", "verifying"}
      BY <1>0, <2>1 DEF WorkerInv
    <2>3. QED
      BY <1>0, <1>1, <2>1, <2>2 DEF AnswerOpen, TypeOK
  <1>8. CASE PrepareFailed(h) \/ RefStopped(h)
    <2>1. wpc'[h] = "fail" /\ verdict'[h] = "failed"
      BY <1>0, <1>8 DEF PrepareFailed, RefStopped, StepStopped, Fail, TypeOK
    <2>2. QED
      BY <2>1 DEF AnswerOpen
  <1>9. CASE \/ Claim(h) \/ LoadJob(h) \/ MarkStep(h) \/ ResolveRef(h) \/ ResolveRefFailed(h)
             \/ StartVerify(h) \/ VerifySync(h) \/ CheckDeleted(h) \/ FinishJob(h) \/ FailJob(h)
    <2>1. wpc'[h] \in {"load", "mark", "ref", "issue", "refFailed", "sync", "check", "finish", "done"}
      BY <1>0, <1>9 DEF Claim, LoadJob, MarkStep, ResolveRef, ResolveRefFailed, StartVerify,
                        VerifySync, CheckDeleted, FinishJob, FailJob, TypeOK
    <2>2. QED
      BY <2>1 DEF AnswerOpen
  <1>10. CASE AckStep(h)
    <2>1. wpc'[h] \in {"mark", "verify"}
      BY <1>0, <1>10 DEF AckStep, NextOrLeave, TypeOK
    <2>2. QED
      BY <2>1 DEF AnswerOpen
  <1>11. QED
    BY <1>3, <1>4, <1>5, <1>6, <1>7, <1>8, <1>9, <1>10 DEF WorkerStep

\* A goroutine whose own handler does not move keeps its job and its row.
LEMMA OthersKeepTheirs ==
    ASSUME Inductive, [Next]_vars, NEW g \in Requests, ~WorkerStep(g), wpc'[g] \notin {"none", "done", "claim"}
    PROVE  SameWorker(g) /\ SameRow(reqJob[g])
  <1>0. TypeOK /\ Ownership
    BY DEF Inductive
  <1>1. ASSUME UNCHANGED <<jobStatus, jobPlan, jobKey, stepStatus, calls>> PROVE SameRow(reqJob[g])
    BY <1>1 DEF SameRow
  <1>2. ASSUME NEW h \in Requests, WorkerStep(h) PROVE SameWorker(g) /\ SameRow(reqJob[g])
    <2>1. g # h /\ SameWorker(g) /\ wpc[g] # "none" /\ wpc[h] # "none"
      BY <1>2, WorkerFootprint DEF SameWorker, Live
    <2>2. reqJob[g] \in JobIds /\ reqJob[g] # reqJob[h]
      BY <1>0, <2>1, WorkerJob DEF Ownership
    <2>3. QED
      BY <1>2, <2>1, <2>2, WorkerFootprint
  <1>3. ASSUME NEW h \in Requests, InsertJob(h) PROVE SameWorker(g) /\ SameRow(reqJob[g])
    <2>1. PICK i \in JobIds :
            /\ jobStatus[i] = "absent"
            /\ jobStatus' = [jobStatus EXCEPT ![i] = "pending"]
            /\ jobPlan' = [jobPlan EXCEPT ![i] = reqPlan[h]]
            /\ jobKey' = [jobKey EXCEPT ![i] = reqKey[h]]
            /\ reqJob' = [reqJob EXCEPT ![h] = i]
      BY <1>3 DEF InsertJob, InsertRow
    <2>2. pc[h] = "insert" /\ UNCHANGED <<stepStatus, calls, wpc, wstep, verdict>>
      BY <1>3 DEF InsertJob, InsertRow, Advance, workerVars
    <2>3. wpc[g] # "none"
      BY <2>2
    <2>4. g # h /\ reqJob[g] \in JobIds /\ reqJob[g] # i
      BY <2>1, <2>2, <2>3, WorkerJob
    <2>5. QED
      BY <1>0, <2>1, <2>2, <2>4 DEF TypeOK, SameWorker, SameRow
  <1>4. ASSUME NEW h \in Requests, Spawn(h) PROVE SameWorker(g) /\ SameRow(reqJob[g])
    <2>1. UNCHANGED <<jobStatus, jobPlan, jobKey, stepStatus, calls, reqJob, wstep, verdict>>
          /\ wpc' = [wpc EXCEPT ![h] = "claim"]
      BY <1>4 DEF Spawn, dbVars
    <2>2. QED
      BY <1>0, <1>1, <2>1 DEF SameWorker, TypeOK
  <1>5. ASSUME NEW h \in Requests, HandlerMove(h) PROVE SameWorker(g) /\ SameRow(reqJob[g])
    <2>1. UNCHANGED <<jobStatus, jobPlan, jobKey, stepStatus, calls, wpc, wstep, verdict>>
          /\ pc[h] # "done" /\ \A f \in Requests : f # h => reqJob'[f] = reqJob[f]
      BY <1>5 DEF HandlerMove
    <2>2. g # h
      BY <1>0, <2>1 DEF Ownership
    <2>3. QED
      BY <1>1, <2>1, <2>2 DEF SameWorker
  <1>6. ~Start /\ ~Exit /\ ~Crash
    <2>1. Start => wpc'[g] = wpc[g] /\ wpc[g] \in {"none", "done"}
      BY <1>0 DEF Start, workerVars, Ownership, Running, Live
    <2>2. Exit \/ Crash => wpc'[g] \in {"none", "done"}
      BY DEF Exit, Crash, LoseVolatile
    <2>3. QED
      BY <2>1, <2>2
  <1>7. ASSUME UNCHANGED vars \/ (\E p \in Plans : CreatePlan(p) \/ ExpirePlan(p)) \/ Stop
        PROVE  SameWorker(g) /\ SameRow(reqJob[g])
    <2>1. UNCHANGED <<jobStatus, jobPlan, jobKey, stepStatus, calls, reqJob, wpc, wstep, verdict>>
      BY <1>7 DEF CreatePlan, ExpirePlan, Stop, vars, dbVars, requestVars, workerVars
    <2>2. QED
      BY <1>1, <2>1 DEF SameWorker
  <1>8. ASSUME NEW h \in Requests, HandlerStep(h) \/ RequestAborted(h)
        PROVE  SameWorker(g) /\ SameRow(reqJob[g])
    BY <1>3, <1>4, <1>5, <1>8, HandlerMoves
  <1>9. ASSUME NEW h \in Requests, NEW p \in Plans, NEW k \in Keys, Submit(h, p, k)
        PROVE  SameWorker(g) /\ SameRow(reqJob[g])
    BY <1>5, <1>9, SubmitMoves
  <1>10. QED
    BY <1>2, <1>6, <1>7, <1>8, <1>9 DEF Next

LEMMA NextTrails ==
    ASSUME Inductive, RecordsTrailCalls, [Next]_vars PROVE RecordsTrailCalls'
  <1>1. \A j \in JobIds : RecordTrailsCall(j)'
    BY StepMovesRows, MovesTrail DEF RecordsTrailCalls
  <1>2. ASSUME NEW g \in Requests PROVE AnswerOpen(g)'
    <2>1. CASE WorkerStep(g)
      BY <2>1, WorkerAnswer
    <2>2. CASE wpc'[g] \in {"none", "done", "claim"}
      BY <2>2 DEF AnswerOpen
    <2>3. CASE ~WorkerStep(g) /\ wpc'[g] \notin {"none", "done", "claim"}
      BY <2>3, OthersKeepTheirs, AnswerFrame DEF RecordsTrailCalls
    <2>4. QED
      BY <2>1, <2>2, <2>3
  <1>3. QED
    BY <1>1, <1>2 DEF RecordsTrailCalls

-----------------------------------------------------------------------------
(* The refinement, row by row.                                              *)

LEMMA CountTo ==
    ASSUME NEW n \in Nat PROVE IsFiniteSet(1..n) /\ Cardinality(1..n) = n
  <1>1. IsFiniteSet(1..n) /\ Cardinality(1..n) = (IF 1 > n THEN 0 ELSE n - 1 + 1)
    BY FS_Interval
  <1>2. QED
    BY <1>1

LEMMA RecordSets ==
    ASSUME Inductive, RecordsTrailCalls, NEW j \in JobIds
    PROVE  /\ IsFiniteSet(Called(j)) /\ Cardinality(Called(j)) \in Nat
           /\ IsFiniteSet(Done(j)) /\ Cardinality(Done(j)) \in Nat
           /\ Done(j) \subseteq Called(j) /\ Cardinality(Done(j)) <= Cardinality(Called(j))
           /\ Clean(j) => Called(j) = Done(j)
           /\ Called(j) # {} => Called(j) \subseteq StepsOf(j)
  <1>1. IsFiniteSet(Steps)
    BY MaxSizeAssumption, CountTo DEF Steps
  <1>2. Called(j) \in SUBSET Steps
    BY DEF Called
  <1>3. Done(j) \subseteq Called(j)
    BY DEF Called, Done, RecordsTrailCalls, RecordTrailsCall
  <1>4. Clean(j) => Called(j) = Done(j)
    BY <1>3 DEF Called, Done, Clean
  <1>5. IsFiniteSet(Called(j))
    BY <1>1, <1>2, FS_Subset
  <1>6. IsFiniteSet(Done(j)) /\ Cardinality(Done(j)) <= Cardinality(Called(j))
    BY <1>3, <1>5, FS_Subset
  <1>7. Called(j) \subseteq StepsOf(j)
    BY DEF Called, Inductive, OrderedCalls
  <1>8. QED
    BY <1>3, <1>4, <1>5, <1>6, <1>7, FS_CardinalityType

\* The entries of the ledger for one job.
LEMMA LedgerEntry ==
    ASSUME NEW j \in JobIds
    PROVE  /\ LedgerState[j] =
                    (IF jobStatus[j] = "absent" THEN "none"
                     ELSE IF jobStatus[j] = "pending" THEN "accepted"
                     ELSE IF jobStatus[j] \in {"executing", "verifying"} THEN "running"
                     ELSE jobStatus[j])
           /\ LedgerState'[j] =
                    (IF jobStatus'[j] = "absent" THEN "none"
                     ELSE IF jobStatus'[j] = "pending" THEN "accepted"
                     ELSE IF jobStatus'[j] \in {"executing", "verifying"} THEN "running"
                     ELSE jobStatus'[j])
           /\ LedgerTotal[j] = (IF jobStatus[j] = "absent" THEN 0 ELSE Size[jobPlan[j]])
           /\ LedgerTotal'[j] = (IF jobStatus'[j] = "absent" THEN 0 ELSE Size[jobPlan'[j]])
           /\ LedgerSent[j] = Cardinality(Called(j)) /\ LedgerSent'[j] = Cardinality(Called(j)')
           /\ LedgerAcked[j] = Cardinality(Done(j)) /\ LedgerAcked'[j] = Cardinality(Done(j)')
  BY DEF LedgerState, LedgerTotal, LedgerSent, LedgerAcked

\* A row whose records stand keeps its counts.
LEMMA CountsStay ==
    ASSUME NEW j \in JobIds, SameRecords(j)
    PROVE  LedgerSent'[j] = LedgerSent[j] /\ LedgerAcked'[j] = LedgerAcked[j]
  <1>1. Called(j)' = Called(j) /\ Done(j)' = Done(j)
    BY DEF SameRecords, Called, Done
  <1>2. QED
    BY <1>1, LedgerEntry

\* The total of a row that is there before and after a step stays.
LEMMA TotalStays ==
    ASSUME NEW j \in JobIds, jobPlan'[j] = jobPlan[j],
           jobStatus[j] = "absent" <=> jobStatus'[j] = "absent"
    PROVE  LedgerTotal'[j] = LedgerTotal[j]
  BY LedgerEntry

\* Sending: nothing is in doubt, and there is a deletion left to send.
LEMMA SendsAsLedger ==
    ASSUME Inductive, RecordsTrailCalls, NEW j \in JobIds, NEW i \in Steps, RowSends(j, i)
    PROVE  Ledger!Send(j)
  <1>1. /\ jobStatus[j] = "executing" /\ jobStatus'[j] = "executing"
        /\ jobPlan'[j] = jobPlan[j] /\ stepStatus'[j] = stepStatus[j] /\ Clean(j)
        /\ i \in StepsOf(j) /\ i \notin Called(j)
    BY DEF RowSends, Called
  <1>2. Called(j)' = Called(j) \cup {i} /\ Done(j)' = Done(j)
    BY DEF RowSends, Called, Done
  <1>3. Cardinality(Called(j) \cup {i}) = Cardinality(Called(j)) + 1
    BY <1>1, RecordSets, FS_AddElement
  <1>4. Cardinality(Called(j)) < Size[jobPlan[j]]
    <2>1. Size[jobPlan[j]] \in Nat /\ Size[jobPlan[j]] >= 1
      BY <1>1, StepFacts, MaxSizeAssumption DEF Inductive, Rows, Steps
    <2>2. IsFiniteSet(StepsOf(j)) /\ Cardinality(StepsOf(j)) = Size[jobPlan[j]]
      BY <2>1, CountTo DEF StepsOf
    <2>3. Called(j) \cup {i} \in SUBSET StepsOf(j)
      BY <1>1, RecordSets
    <2>4. Cardinality(Called(j) \cup {i}) <= Size[jobPlan[j]]
      BY <2>2, <2>3, FS_Subset
    <2>5. QED
      BY <1>3, <2>1, <2>4, RecordSets
  <1>5. LedgerState[j] = "running" /\ LedgerState'[j] = "running"
    BY <1>1, LedgerEntry
  <1>6. LedgerSent'[j] = LedgerSent[j] + 1 /\ LedgerAcked'[j] = LedgerAcked[j]
    BY <1>2, <1>3, LedgerEntry
  <1>7. LedgerTotal'[j] = LedgerTotal[j] /\ LedgerTotal[j] = Size[jobPlan[j]]
    BY <1>1, LedgerEntry
  <1>8. LedgerSent[j] = LedgerAcked[j] /\ LedgerSent[j] < LedgerTotal[j]
    BY <1>1, <1>4, <1>7, RecordSets, LedgerEntry
  <1>9. QED
    BY <1>5, <1>6, <1>7, <1>8 DEF Ledger!Send, Ledger!Becomes

\* Acknowledging: the recorded deletion had been sent.
LEMMA AcksAsLedger ==
    ASSUME Inductive, RecordsTrailCalls, NEW j \in JobIds, NEW i \in Steps, RowAcks(j, i)
    PROVE  Ledger!Acknowledge(j)
  <1>1. /\ jobStatus[j] = "executing" /\ jobStatus'[j] = "executing"
        /\ jobPlan'[j] = jobPlan[j] /\ calls'[j] = calls[j]
        /\ i \in Called(j) /\ i \notin Done(j)
    BY DEF RowAcks, Called, Done
  <1>2. Called(j)' = Called(j) /\ Done(j)' = Done(j) \cup {i}
    BY DEF RowAcks, Called, Done
  <1>3. Cardinality(Done(j) \cup {i}) = Cardinality(Done(j)) + 1
    BY <1>1, RecordSets, FS_AddElement
  <1>4. Cardinality(Done(j)) < Cardinality(Called(j))
    <2>1. Done(j) \cup {i} \in SUBSET Called(j)
      BY <1>1, RecordSets
    <2>2. Cardinality(Done(j) \cup {i}) <= Cardinality(Called(j))
      BY <2>1, RecordSets, FS_Subset
    <2>3. QED
      BY <1>3, <2>2, RecordSets
  <1>5. LedgerState[j] = "running" /\ LedgerState'[j] = "running" /\ LedgerTotal'[j] = LedgerTotal[j]
    BY <1>1, LedgerEntry
  <1>6. /\ LedgerSent'[j] = LedgerSent[j] /\ LedgerAcked'[j] = LedgerAcked[j] + 1
        /\ LedgerAcked[j] < LedgerSent[j]
    BY <1>2, <1>3, <1>4, LedgerEntry
  <1>7. QED
    BY <1>5, <1>6 DEF Ledger!Acknowledge, Ledger!Becomes

\* Completing: every step of the job was sent and acknowledged.
LEMMA CompletesAsLedger ==
    ASSUME Inductive, RecordsTrailCalls, NEW j \in JobIds, RowCompletes(j)
    PROVE  Ledger!Complete(j)
  <1>1. SameRecords(j) /\ jobStatus[j] = "verifying" /\ jobStatus'[j] = "completed"
    BY DEF RowCompletes
  <1>2. jobPlan[j] \in Plans /\ \A k \in StepsOf(j) : stepStatus[j][k] = "completed" /\ calls[j][k] = 1
    BY <1>1 DEF Inductive, Rows
  <1>3. Size[jobPlan[j]] \in Nat /\ Size[jobPlan[j]] >= 1 /\ StepsOf(j) \subseteq Steps /\ 1 \in StepsOf(j)
    BY <1>2, StepFacts, MaxSizeAssumption DEF Steps, StepsOf
  <1>4. Done(j) = StepsOf(j)
    <2>1. StepsOf(j) \subseteq Done(j)
      BY <1>2, <1>3 DEF Done
    <2>2. Called(j) # {}
      BY <1>2, <1>3 DEF Called
    <2>3. QED
      BY <2>1, <2>2, RecordSets
  <1>5. Cardinality(Done(j)) = Size[jobPlan[j]]
    BY <1>3, <1>4, CountTo DEF StepsOf
  <1>6. /\ LedgerState[j] = "running" /\ LedgerState'[j] = "completed"
        /\ LedgerAcked[j] = LedgerTotal[j] /\ LedgerTotal'[j] = LedgerTotal[j]
    BY <1>1, <1>5, LedgerEntry DEF SameRecords
  <1>7. QED
    BY <1>1, <1>6, CountsStay DEF Ledger!Complete, Ledger!Becomes, Ledger!Same

\* Failing and doubting: a job fails only while nothing is in doubt.
LEMMA EndsAsLedger ==
    ASSUME Inductive, RecordsTrailCalls, NEW j \in JobIds, RowFails(j) \/ RowDoubts(j)
    PROVE  Ledger!FailClean(j) \/ Ledger!Doubt(j)
  <1>1. SameRecords(j)
    BY DEF RowFails, RowDoubts
  <1>2. LedgerTotal'[j] = LedgerTotal[j]
    BY TotalStays DEF RowFails, RowDoubts, SameRecords, Unsettled
  <1>3. Ledger!Same(j)
    BY <1>1, <1>2, CountsStay DEF Ledger!Same
  <1>4. CASE RowFails(j)
    <2>1. LedgerSent[j] = LedgerAcked[j]
      BY <1>4, RecordSets, LedgerEntry DEF RowFails
    <2>2. LedgerState[j] \in {"accepted", "running"} /\ LedgerState'[j] = "failed"
      BY <1>4, LedgerEntry DEF RowFails, Unsettled
    <2>3. QED
      BY <1>3, <2>1, <2>2 DEF Ledger!FailClean, Ledger!Becomes
  <1>5. CASE RowDoubts(j)
    <2>1. LedgerState[j] = "running" /\ LedgerState'[j] = "uncertain"
      BY <1>5, LedgerEntry DEF RowDoubts
    <2>2. QED
      BY <1>3, <2>1 DEF Ledger!Doubt, Ledger!Becomes
  <1>6. QED
    BY <1>4, <1>5

LedgerStutter(j) == LedgerState'[j] = LedgerState[j] /\ Ledger!Same(j)

LEMMA MovesAsLedger ==
    ASSUME Inductive, RecordsTrailCalls, NEW j \in JobIds, RowMove(j)
    PROVE  Ledger!JobStep(j) \/ LedgerStutter(j)
  <1>1. CASE RowRests(j)
    <2>1. LedgerTotal'[j] = LedgerTotal[j]
      BY <1>1, TotalStays DEF RowRests, SameRecords
    <2>2. Ledger!Same(j)
      BY <1>1, <2>1, CountsStay DEF RowRests, Ledger!Same
    <2>3. LedgerState'[j] = LedgerState[j]
      BY <1>1, LedgerEntry DEF RowRests
    <2>4. QED
      BY <2>2, <2>3 DEF LedgerStutter
  <1>2. CASE RowAccepted(j)
    <2>1. LedgerState[j] = "none" /\ LedgerState'[j] = "accepted"
      BY <1>2, LedgerEntry DEF RowAccepted
    <2>2. LedgerTotal'[j] \in Nat \ {0}
      BY <1>2, LedgerEntry, StepFacts, MaxSizeAssumption DEF RowAccepted, Steps
    <2>3. Called(j)' = Called(j) /\ Done(j)' = Done(j)
      BY <1>2 DEF RowAccepted, Called, Done
    <2>4. LedgerSent'[j] = LedgerSent[j] /\ LedgerAcked'[j] = LedgerAcked[j]
      BY <2>3, LedgerEntry
    <2>5. Ledger!Accept(j)
      BY <2>1, <2>2, <2>4 DEF Ledger!Accept, Ledger!Becomes
    <2>6. QED
      BY <2>5 DEF Ledger!JobStep
  <1>3. CASE RowBegins(j)
    <2>1. LedgerState[j] = "accepted" /\ LedgerState'[j] = "running"
      BY <1>3, LedgerEntry DEF RowBegins
    <2>2. LedgerTotal'[j] = LedgerTotal[j]
      BY <1>3, TotalStays DEF RowBegins, SameRecords
    <2>3. Ledger!Begin(j)
      BY <1>3, <2>1, <2>2, CountsStay DEF RowBegins, Ledger!Begin, Ledger!Becomes, Ledger!Same
    <2>4. QED
      BY <2>3 DEF Ledger!JobStep
  <1>4. CASE RowCompletes(j)
    BY <1>4, CompletesAsLedger DEF Ledger!JobStep
  <1>5. CASE RowFails(j) \/ RowDoubts(j)
    BY <1>5, EndsAsLedger DEF Ledger!JobStep
  <1>6. CASE \E i \in Steps : RowSends(j, i) \/ RowAcks(j, i)
    BY <1>6, SendsAsLedger, AcksAsLedger DEF Ledger!JobStep
  <1>7. QED
    BY <1>1, <1>2, <1>3, <1>4, <1>5, <1>6 DEF RowMove

LEMMA InitAsLedger == Init => Ledger!Init
  <1> SUFFICES ASSUME Init PROVE Ledger!Init
    OBVIOUS
  <1>1. \A j \in JobIds : Called(j) = {} /\ Done(j) = {} /\ jobStatus[j] = "absent"
    BY DEF Init, Called, Done
  <1>2. \A j \in JobIds :
            LedgerState[j] = "none" /\ LedgerTotal[j] = 0 /\ LedgerSent[j] = 0 /\ LedgerAcked[j] = 0
    BY <1>1, LedgerEntry, FS_EmptySet
  <1>3. /\ LedgerState = [j \in JobIds |-> "none"] /\ LedgerTotal = [j \in JobIds |-> 0]
        /\ LedgerSent = [j \in JobIds |-> 0] /\ LedgerAcked = [j \in JobIds |-> 0]
    BY <1>2 DEF LedgerState, LedgerTotal, LedgerSent, LedgerAcked
  <1>4. QED
    BY <1>3 DEF Ledger!Init

-----------------------------------------------------------------------------
(* The theorems.                                                            *)

\* A completed record, an awaited answer and a reported doubt always trail the call
\* they are about: the database never runs ahead of the downloader.
THEOREM RecordsAlwaysTrail == Spec => [](Inductive /\ RecordsTrailCalls)
  <1>1. Init => Inductive /\ RecordsTrailCalls
    BY InitInductive, InitTrails
  <1>2. Inductive /\ RecordsTrailCalls /\ [Next]_vars => (Inductive /\ RecordsTrailCalls)'
    BY NextInductive, NextTrails
  <1>3. QED
    BY <1>1, <1>2, PTL DEF Spec

\* The deletion service implements the ledger: whatever requests, goroutines, faults,
\* crashes and restarts do, each job sends its deletions one at a time and once each,
\* completes only when all were acknowledged and fails only when none is in doubt.
THEOREM LedgerImplemented == Spec => LedgerKept
  <1>1. Inductive /\ RecordsTrailCalls /\ [Next]_vars => [Ledger!Next]_(Ledger!vars)
    <2> SUFFICES ASSUME Inductive, RecordsTrailCalls, [Next]_vars PROVE Ledger!Next
      OBVIOUS
    <2>1. \A j \in JobIds : Ledger!JobStep(j) \/ LedgerStutter(j)
      BY StepMovesRows, MovesAsLedger
    <2>2. QED
      BY <2>1 DEF Ledger!Next, LedgerStutter
  <1>2. QED
    BY <1>1, InitAsLedger, RecordsAlwaysTrail, PTL DEF Spec, LedgerKept, Ledger!Spec

-----------------------------------------------------------------------------
(* What the ledger promises, the deletion service keeps.                    *)

LEMMA LedgerInitHonest == Ledger!Init => Ledger!Honest
  BY DEF Ledger!Init, Ledger!Honest

LEMMA LedgerNextHonest ==
    ASSUME Ledger!Honest, [Ledger!Next]_(Ledger!vars) PROVE Ledger!Honest'
  <1>1. CASE UNCHANGED Ledger!vars
    BY <1>1 DEF Ledger!vars, Ledger!Honest
  <1>2. CASE Ledger!Next
    <2> SUFFICES ASSUME NEW j \in JobIds
                 PROVE  /\ LedgerTotal'[j] \in Nat /\ LedgerAcked'[j] \in Nat
                        /\ LedgerSent'[j] \in {LedgerAcked'[j], LedgerAcked'[j] + 1}
                        /\ LedgerSent'[j] <= LedgerTotal'[j]
                        /\ LedgerState'[j] \in {"none", "accepted"} => LedgerSent'[j] = 0
                        /\ LedgerState'[j] = "completed" => LedgerAcked'[j] = LedgerTotal'[j]
                        /\ LedgerState'[j] = "failed" => LedgerSent'[j] = LedgerAcked'[j]
      BY DEF Ledger!Honest
    <2>0. /\ LedgerTotal[j] \in Nat /\ LedgerAcked[j] \in Nat
          /\ LedgerSent[j] \in {LedgerAcked[j], LedgerAcked[j] + 1}
          /\ LedgerSent[j] <= LedgerTotal[j]
          /\ LedgerState[j] \in {"none", "accepted"} => LedgerSent[j] = 0
          /\ LedgerState[j] = "completed" => LedgerAcked[j] = LedgerTotal[j]
          /\ LedgerState[j] = "failed" => LedgerSent[j] = LedgerAcked[j]
      BY DEF Ledger!Honest
    <2>1. CASE Ledger!Accept(j)
      BY <2>0, <2>1 DEF Ledger!Accept, Ledger!Becomes
    <2>2. CASE Ledger!Begin(j)
      BY <2>0, <2>2 DEF Ledger!Begin, Ledger!Becomes, Ledger!Same
    <2>3. CASE Ledger!Send(j)
      BY <2>0, <2>3 DEF Ledger!Send, Ledger!Becomes
    <2>4. CASE Ledger!Acknowledge(j)
      BY <2>0, <2>4 DEF Ledger!Acknowledge, Ledger!Becomes
    <2>5. CASE Ledger!Complete(j)
      BY <2>0, <2>5 DEF Ledger!Complete, Ledger!Becomes, Ledger!Same
    <2>6. CASE Ledger!FailClean(j)
      BY <2>0, <2>6 DEF Ledger!FailClean, Ledger!Becomes, Ledger!Same
    <2>7. CASE Ledger!Doubt(j)
      BY <2>0, <2>7 DEF Ledger!Doubt, Ledger!Becomes, Ledger!Same
    <2>8. CASE LedgerStutter(j)
      BY <2>0, <2>8 DEF LedgerStutter, Ledger!Same
    <2>9. QED
      BY <1>2, <2>1, <2>2, <2>3, <2>4, <2>5, <2>6, <2>7, <2>8 DEF Ledger!Next, Ledger!JobStep, LedgerStutter
  <1>3. QED
    BY <1>1, <1>2

\* At most one deletion of a job is unanswered at any time, no more are sent than the
\* plan has steps, and a failed job leaves none in doubt: this follows from the ledger,
\* hence holds of the service (the sequential loop of execute).
THEOREM LedgerHonestyKept == Spec => []Ledger!Honest
  <1>1. Ledger!Spec => []Ledger!Honest
    BY LedgerInitHonest, LedgerNextHonest, PTL DEF Ledger!Spec
  <1>2. QED
    BY <1>1, LedgerImplemented, PTL DEF LedgerKept

LEMMA LedgerNextFinal ==
    ASSUME Ledger!Next, NEW j \in JobIds, LedgerState[j] \in {"completed", "failed", "uncertain"}
    PROVE  LedgerState'[j] = LedgerState[j] /\ Ledger!Same(j)
  BY DEF Ledger!Next, Ledger!JobStep, Ledger!Becomes, Ledger!Accept, Ledger!Begin, Ledger!Send,
         Ledger!Acknowledge, Ledger!Complete, Ledger!FailClean, Ledger!Doubt

\* Once a job is settled no deletion of it is sent or recorded any more: neither a late
\* goroutine nor a restart acts for a job whose outcome was reported.
THEOREM SettledJobsSendNothing == Spec => Ledger!Final
  <1>1. [Ledger!Next]_(Ledger!vars) =>
            [\A j \in JobIds : LedgerState[j] \in {"completed", "failed", "uncertain"} =>
                LedgerState'[j] = LedgerState[j] /\ Ledger!Same(j)]_(Ledger!vars)
    BY LedgerNextFinal
  <1>2. Ledger!Spec => Ledger!Final
    BY <1>1, PTL DEF Ledger!Spec, Ledger!Final
  <1>3. QED
    BY <1>2, LedgerImplemented DEF LedgerKept
=============================================================================
