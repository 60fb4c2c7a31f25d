\* One and three pools, any of which may fail at any step, on configurations
\* of which most are refused, with and without metrics.
SPECIFICATION StartupSpec
CONSTANTS
    Requests <- MCRequests
    Files <- MCFiles
    Empty = Empty
    Malformed = Malformed
    Injected = {TRUE, FALSE}
    Revisions = {"r1", "r2"}
    MaxExports = 2
INVARIANTS
    StartAllOrNothing
    CollectionStopsFirst
    OpenedAsStated
PROPERTIES
    ClosedInReverse
    StartsAndStops
CHECK_DEADLOCK FALSE
