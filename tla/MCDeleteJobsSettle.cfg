SPECIFICATION FairSpec
CONSTANTS
    p1 = p1
    p2 = p2
    Requests = {r1, r2}
    Keys = {k1}
    Plans = {p1}
    JobIds = {j1}
    Size <- TwoSteps
    MaxSize = 2
    Blocked = {}
    NoKey = NoKey
    NoPlan = NoPlan
    NoJob = NoJob
    ClientsCancel = TRUE
    DbFaults = FALSE
INVARIANTS
    JobsAreAttended
PROPERTIES
    StartedJobsSettle
    AcceptedJobsSettle
