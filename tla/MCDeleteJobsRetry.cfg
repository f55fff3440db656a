SPECIFICATION Spec
CONSTANTS
    p1 = p1
    p2 = p2
    Requests = {r1, r2}
    Keys = {k1, k2}
    Plans = {p1}
    JobIds = {j1, j2}
    Size <- TwoSteps
    MaxSize = 2
    Blocked = {}
    NoKey = NoKey
    NoPlan = NoPlan
    NoJob = NoJob
    ClientsCancel = TRUE
    DbFaults = FALSE
INVARIANTS
    AnsweredJobsRun
