\* Every property of the synchroniser, on a daemon of either kind.
SPECIFICATION Spec

CONSTANTS
    t1 = t1
    t2 = t2
    d1 = d1
    Tasks = {t1, t2}
    Downloaders = {d1}
    Home <- OneHome
    Enabled = {d1}
    MaxClock = 3
    MaxFaults = 2
    MaxCalls = 1

INVARIANTS
    TypeOK
    CursorNeverSkips
    RetiredOnlyWhenGone

PROPERTIES
    NeverGoesBack
    FullSyncIsCurrent
    FirmSyncsMissNothing
    ImplementsReplica
    MirrorCatchesUp

CHECK_DEADLOCK FALSE
