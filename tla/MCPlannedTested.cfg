SPECIFICATION Spec
CONSTANTS
    t1 = t1
    t2 = t2
    d1 = d1
    d2 = d2
    disk = disk
    A = A
    B = B
    e1 = e1
    e2 = e2
    f1 = f1
    f2 = f2
    NoEvidence = NoEvidence
    NoPlan = NoPlan
    Tasks = {t1, t2}
    Storage <- OneStorage
    Rank <- Order
    Nested <- BInA
    Downloaders = {d1, d2}
    Enabled = {d1, d2}
    Tested = {d2}
    Home <- TwoHomes
    Views <- SharingViews
    MaxVersion = 2
    MaxEdit = 1
PROPERTIES
    AcceptedAfterBarrier
