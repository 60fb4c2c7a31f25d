\* A shutdown that begins before the collector's goroutine first runs.
SPECIFICATION StartupSpec
CONSTANTS
    Requests <- MCLocal
    Files <- MCFiles
    Empty = Empty
    Malformed = Malformed
    Injected = {TRUE}
    Revisions = {"r1"}
    MaxExports = 1
INVARIANTS
    CollectorNeverPanics
CHECK_DEADLOCK FALSE
