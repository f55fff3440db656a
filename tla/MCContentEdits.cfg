SPECIFICATION HistorySpec
CONSTANTS
    t1 = t1
    t2 = t2
    d1 = d1
    A = A
    B = B
    n1 = n1
    n2 = n2
    o1 = o1
    o2 = o2
    Tasks = {t1, t2}
    Downloaders = {d1}
    Home <- OneHome
    AutoGroups = {A, B}
    Suggests <- FirstWanders
    Uuids = {n1, n2}
    Operations = {o1, o2}
    MaxVersion = 3
    MaxLocked = 2
CHECK_DEADLOCK FALSE
SYMMETRY Symmetric
INVARIANTS
    TypeOK
    OneUndoPerGroup
    UndoneStaysUndone
    CreatedGroupsPinned
PROPERTIES
    EditsKeepTasksListed
    UndoRestoresThePast
