\* The refresh before a deletion, on a daemon of either kind.
SPECIFICATION Spec

CONSTANTS
    t1 = t1
    t2 = t2
    d1 = d1
    Tasks = {t1, t2}
    Downloaders = {d1}
    Home <- OneHome
    Enabled = {d1}
    MaxClock = 2
    MaxFaults = 1
    MaxCalls = 1

PROPERTY BarrierMissesNothing

CHECK_DEADLOCK FALSE
