\* Two operations that may never finish, two callers of Shutdown, two health checks.
SPECIFICATION FairRuntimeSpec
CONSTANTS
    Checkers = {h1, h2}
    Threshold = 2
    Works = {w1, w2}
    NoWork = NoWork
    Waiters = {c1, c2}
INVARIANTS
    ZeroWorkExact
    PoolsCloseAfterWork
    CleanUnlessForced
PROPERTIES
    RecoveryNeedsSuccess
    ShutdownCompletes
    WaitersAnswered
CHECK_DEADLOCK FALSE
