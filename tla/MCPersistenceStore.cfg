\* One repository's whole life: two scans sharing artifact ids and payloads, a
\* collection racing them, archive, mark and a purge of one scan a batch, under
\* fairness of the purge batch alone.
SPECIFICATION FairSpec
CONSTANTS
    s1 = s1  s2 = s2  r1 = r1  r2 = r2  n1 = n1  n2 = n2  k1 = k1  k2 = k2
    x1 = x1  x2 = x2  q1 = q1  q2 = q2  a1 = a1  a2 = a2  p1 = p1  p2 = p2
    p3 = p3  c1 = c1  c2 = c2  c3 = c3
    NoScan = NoScan
    NoReason = NoReason
    Scopes = {s1}
    Repositories = {r1}
    Scans = {n1, n2}
    Keys = {k1, k2}
    Sources = {x1}
    Requests = {q1}
    Artifacts = {a1, a2}
    Payloads <- MCPayloads
    Contents = {c1, c2, c3}
    Hash <- MCHash
    Manifests <- MCManifests
    Reasons = {"canceled"}
    BatchLimit = 1
    MaxRegistrations = 1
    MaxCollections = 1
INVARIANTS
    CertifiedExactly
    ExportsExact
    CurrentPublished
PROPERTIES
    FinishedScansImmutable
    KeepsPromise
    PurgeCompletes
CHECK_DEADLOCK FALSE
