SPECIFICATION Spec
CONSTANTS
    None = None
    f1 = f1
    f2 = f2
    f3 = f3
    q1 = q1
    Fresh = {f1, f2, f3}
    Replays = {q1}
    Sub <- MCSub
    Sizes = {1, 2}
    MAX_RUNS = 2
    MAX_AGE_SECONDS = 1
    MAX_BYTES = 1
    MaxClock = 2
    ClockSteps <- ForwardClock
    DeleteMayRaise = TRUE
INVARIANTS
    TypeOK
    NoOrphanThread
    RegisteredHasThread
    LimitHeldByNewest
    NewestRunIsKept
PROPERTIES
    ExpiredIsNeverReplayed
    EveryRequestEnds
CHECK_DEADLOCK FALSE
