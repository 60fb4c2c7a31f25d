\* Two processes execute the identical request and analyze it differently, with
\* crashes, lost answers and a maintained repository that is registered again.
SPECIFICATION ServiceSpec
CONSTANTS
    s1 = s1  r1 = r1  n1 = n1  k1 = k1  k2 = k2  x1 = x1  q1 = q1  a1 = a1
    d1 = d1  d2 = d2  b1 = b1  b2 = b2  p1 = p1  p2 = p2
    c1 = c1  c2 = c2  c3 = c3  e1 = e1
    NoScan = NoScan
    NoReason = NoReason
    Scopes = {s1}
    Repositories = {r1}
    Scans = {n1}
    Keys = {k1}
    Sources = {x1}
    Requests = {q1}
    Artifacts = {a1}
    Payloads = {d1, d2}
    Contents = {b1, b2}
    Hash <- MCHash
    Manifests <- MCTwoManifests
    Reasons = {"canceled", "caller-canceled", "analysis-failed"}
    BatchLimit = 1
    MaxRegistrations = 2
    MaxCollections = 1
    Slots = {p1, p2}
    Callers = {c1, c3}
    Cancelers = {}
    Home <- MCTwoSlots
    Request <- MCAlike
    Drainable = {}
    Faults = TRUE
    Maintained = TRUE
INVARIANTS
    AnswersDurable
PROPERTIES
    NeverSilentlyOrphaned
    SuccessesReadable
CHECK_DEADLOCK FALSE
