\* Every query on about eight thousand graphs; two processes that publish the
\* same scan with different inventories; two clients that register, archive,
\* retry and list; a reader of up to five artifacts.
SPECIFICATION MCSpec
CONSTANTS
    Nodes <- MCNodes
    GraphInputs <- MCGraphInputs
    ImpactLimits <- MCImpactLimits
    PageSize = 1
    s1 = s1  r1 = r1  n1 = n1  x1 = x1  q1 = q1  a1 = a1
    d1 = d1  d2 = d2  b1 = b1  b2 = b2  i1 = i1  i2 = i2
    c1 = c1  c2 = c2  c3 = c3  e1 = e1
    NoScan = NoScan
    NoReason = NoReason
    Scopes = {s1}
    Repositories = {r1}
    Scans = {n1}
    Keys <- MCKeys
    Sources = {x1}
    Requests = {q1}
    Artifacts = {a1}
    Payloads = {d1, d2}
    Contents = {b1, b2}
    Hash <- MCHash
    Manifests <- MCManifests
    Reasons = {"failed", "canceled"}
    BatchLimit = 1
    MaxRegistrations = 1
    MaxCollections = 0
    Instances = {i1, i2}
    Publishers = {c1, c2}
    Exporters = {e1}
    At <- MCAt
    Inventory <- MCInventory
    Faults = TRUE
    Maintained = TRUE
    MaxCalls = 2
    Clients = {c1, c2}
    Ids = {1, 2}
    RequestIds = {"k"}
    Fingerprints = {"x", "y"}
    ListPageSize = 1
    ReadPageSize = 2
    MaxArtifacts = 3
    MaxPublished = 5
    MaxClock = 2
    MaxMade = 2
INVARIANTS
    RegistrationsTrue
    ListingsWhole
    AnalysisExact
    QueriesExact
    PublicationAnswersTrue
    CommitsNotDenied
    GateServesOne
PROPERTIES
    NoSilentOrphans
CHECK_DEADLOCK FALSE
