-------------------------- MODULE PersistenceStore --------------------------
(***************************************************************************)
(* The PostgreSQL adapter of the neutral Persistence Port                  *)
(* (backend/internal/storage/postgres/implementation.go) over the schema   *)
(* of backend/persistence/postgres/migrations.                             *)
(*                                                                         *)
(* A table is a partial function from its primary key to the columns the   *)
(* adapter's decisions depend on; the rows are its domain.  A port         *)
(* operation is one transaction that locks the rows it decides on          *)
(* (SELECT ... FOR UPDATE, a conditional UPDATE, a unique index), so a     *)
(* transaction that commits is one atomic action here.  The exception is   *)
(* garbage collection, whose single statement reads candidates from a      *)
(* snapshot and deletes them later; it takes two actions.                  *)
(*                                                                         *)
(* Each operation also has an XxxOutcome operator: the answer the adapter  *)
(* gives in the current state.  An answer that is an error rolls back and  *)
(* changes nothing, so only successful, effective outcomes are actions.    *)
(*                                                                         *)
(* An operator named Wrong... is a mistake this code could have made; it   *)
(* is not part of the specification.  README.md says which property finds  *)
(* it.                                                                     *)
(***************************************************************************)
EXTENDS Integers, FiniteSets

CONSTANTS
    Scopes,         \* security scopes
    Repositories,   \* repository ids
    Scans,          \* scan ids
    Keys,           \* request ids, stored as idempotency keys
    Sources,        \* source identities (kind, scheme and fingerprint)
    Requests,       \* request digests of BeginScan (profile and revision)
    Artifacts,      \* physical artifact ids
    Payloads,       \* payload digests
    Contents,       \* byte strings a reader may deliver
    Hash,           \* SHA-256 with the byte count: Contents -> Payloads
    Manifests,      \* publication requests, see ManifestType
    Reasons,        \* reason codes of a failed or canceled scan
    NoScan,         \* SQL NULL in repositories.current_scan_id
    NoReason,       \* SQL NULL in repository_scans.failure_code
    BatchLimit,     \* LIMIT of a purge batch and of a collection
    MaxRegistrations, \* bound: how often one repository id is registered
    MaxCollections    \* bound: how many collections commit

\* What NewPublishScanRequest accepts: at least one artifact, each with its
\* payload digest, and dependencies between two distinct artifacts of the
\* same publication.  The manifest digest stands for all of it.
ManifestType ==
    [artifacts : UNION {[D -> Payloads] : D \in (SUBSET Artifacts) \ {{}}},
     dependencies : SUBSET (Artifacts \X Artifacts)]

ValidGraph(m) ==
    \A d \in m.dependencies :
        d[1] \in DOMAIN m.artifacts /\ d[2] \in DOMAIN m.artifacts /\ d[1] # d[2]

ASSUME HashAssumption == Hash \in [Contents -> Payloads]

ASSUME ManifestAssumption ==
    Manifests \subseteq ManifestType /\ \A m \in Manifests : ValidGraph(m)

ASSUME NullAssumption == NoScan \notin Scans /\ NoReason \notin Reasons

ASSUME BoundAssumption ==
    BatchLimit \in Nat \ {0} /\ MaxRegistrations \in Nat /\ MaxCollections \in Nat

VARIABLES
    repositories,   \* platform.repositories
    scans,          \* platform.repository_scans
    publications,   \* platform.scan_publications
    envelopes,      \* platform.artifact_envelopes
    dependencies,   \* platform.artifact_dependencies
    payloads,       \* platform.artifact_payloads joined with their chunks
    fresh,          \* payloads whose created_at is within the last 24 hours
    recent,         \* history: payloads acknowledged to a caller within 24 hours
    collection,     \* the garbage collection transaction in progress
    audit           \* platform.audit_events, counted by event and target

tables == <<repositories, scans, publications, envelopes, dependencies>>
vars == <<repositories, scans, publications, envelopes, dependencies,
          payloads, fresh, recent, collection, audit>>

-----------------------------------------------------------------------------
(* Tables *)

Table(K, R) == UNION {[D -> R] : D \in SUBSET K}
Insert(t, k, row) == [x \in DOMAIN t \cup {k} |-> IF x = k THEN row ELSE t[x]]
Delete(t, S) == [x \in DOMAIN t \ S |-> t[x]]
Empty == [x \in {} |-> x]

RepositoryStates == {"active", "archived", "purge_pending"}
FinishedStates == {"failed", "cancelled"}
TerminalStates == FinishedStates \cup {"succeeded"}

RepositoryRow == [scope : Scopes, key : Keys, source : Sources,
                  state : RepositoryStates, current : Scans \cup {NoScan}]
ScanRow == [repository : Repositories, key : Keys, request : Requests,
            state : TerminalStates \cup {"running"},
            reason : Reasons \cup {NoReason}]
PublicationRow == [repository : Repositories, manifest : Manifests]
EnvelopeRow == [scan : Scans, payload : Payloads]
DependencyRow == [scan : Scans, consumer : Artifacts, source : Artifacts]

RepositoryEvents == {"register-repository", "archive-repository",
                     "mark-for-purge", "purge-repository-batch"}
ScanEvents == {"begin-scan", "publish-scan", "fail-scan", "cancel-scan"}
CollectEvent == <<"garbage-collect-payloads", NoScan>>
AuditEvents == (RepositoryEvents \X Repositories) \cup (ScanEvents \X Scans)
               \cup {CollectEvent}

Audit(event, target) ==
    audit' = [audit EXCEPT ![<<event, target>>] = @ + 1]

\* repositoryByID and scanByID read through the caller's security scope.
WrongVisible(sc, r) == r \in DOMAIN repositories
Visible(sc, r) == r \in DOMAIN repositories /\ repositories[r].scope = sc
ScanVisible(sc, r, s) ==
    Visible(sc, r) /\ s \in DOMAIN scans /\ scans[s].repository = r

ScansOf(r) == {s \in DOMAIN scans : scans[s].repository = r}
EnvelopesOf(s) == {a \in DOMAIN envelopes : envelopes[a].scan = s}
Referenced == {envelopes[a].payload : a \in DOMAIN envelopes}

Init ==
    /\ repositories = Empty
    /\ scans = Empty
    /\ publications = Empty
    /\ envelopes = Empty
    /\ dependencies = {}
    /\ payloads = Empty
    /\ fresh = {}
    /\ recent = {}
    /\ collection = [open |-> FALSE, candidates |-> {}]
    /\ audit = [e \in AuditEvents |-> 0]

-----------------------------------------------------------------------------
(* RepositoryStore *)

\* INSERT ... ON CONFLICT DO NOTHING skips on any unique constraint of
\* platform.repositories: the id, the key in the scope, the source in the
\* scope.  A repository the caller does not see is not_found even when its
\* request id is already used, unless the source is the one that clashed.
SourceTaken(sc, src) ==
    \E q \in DOMAIN repositories :
        repositories[q].scope = sc /\ repositories[q].source = src
KeyTaken(sc, k) ==
    \E q \in DOMAIN repositories :
        repositories[q].scope = sc /\ repositories[q].key = k

RegisterOutcome(sc, r, k, src) ==
    IF r \notin DOMAIN repositories /\ ~KeyTaken(sc, k) /\ ~SourceTaken(sc, src)
    THEN "created"
    ELSE IF Visible(sc, r)
    THEN IF repositories[r].key = k /\ repositories[r].source = src
         THEN "returned" ELSE "idempotency_conflict"
    ELSE IF SourceTaken(sc, src) THEN "idempotency_conflict" ELSE "not_found"

RegisterRepository(sc, r, k, src) ==
    /\ RegisterOutcome(sc, r, k, src) = "created"
    /\ audit[<<"register-repository", r>>] < MaxRegistrations
    /\ repositories' = Insert(repositories, r,
          [scope |-> sc, key |-> k, source |-> src,
           state |-> "active", current |-> NoScan])
    /\ Audit("register-repository", r)
    /\ UNCHANGED <<scans, publications, envelopes, dependencies,
                   payloads, fresh, recent, collection>>

\* changeRepositoryState: active -> archived -> purge_pending, one step at a
\* time; asking for the state the repository is already in is a success that
\* changes and audits nothing.
Predecessor(target) == IF target = "purge_pending" THEN "archived" ELSE "active"

ChangeStateOutcome(sc, r, target) ==
    IF ~Visible(sc, r) THEN "not_found"
    ELSE IF repositories[r].state = Predecessor(target) THEN "changed"
    ELSE IF repositories[r].state = target THEN "returned"
    ELSE "lifecycle_conflict"

ChangeRepositoryState(sc, r, target, event) ==
    /\ ChangeStateOutcome(sc, r, target) = "changed"
    /\ repositories' = [repositories EXCEPT ![r].state = target]
    /\ Audit(event, r)
    /\ UNCHANGED <<scans, publications, envelopes, dependencies,
                   payloads, fresh, recent, collection>>

ArchiveRepository(sc, r) ==
    ChangeRepositoryState(sc, r, "archived", "archive-repository")

MarkRepositoryForPurge(sc, r) ==
    ChangeRepositoryState(sc, r, "purge_pending", "mark-for-purge")

-----------------------------------------------------------------------------
(* ScanStore *)

\* The repository must be active even for a replay.  The insert skips on the
\* global primary key and on (repository, key); a skipped insert whose scan id
\* is not found in this repository is not_found, whatever row caused it.
WrongBeginOutcome(sc, r, s, k, q) ==
    IF ~Visible(sc, r) THEN "not_found"
    ELSE IF repositories[r].state # "active" THEN "lifecycle_conflict"
    ELSE IF s \notin DOMAIN scans THEN "created" ELSE "returned"
BeginOutcome(sc, r, s, k, q) ==
    IF ~Visible(sc, r) THEN "not_found"
    ELSE IF repositories[r].state # "active" THEN "lifecycle_conflict"
    ELSE IF s \notin DOMAIN scans /\ \A t \in ScansOf(r) : scans[t].key # k
    THEN "created"
    ELSE IF s \notin ScansOf(r) THEN "not_found"
    ELSE IF scans[s].key = k /\ scans[s].request = q THEN "returned"
    ELSE "idempotency_conflict"

BeginScan(sc, r, s, k, q) ==
    /\ BeginOutcome(sc, r, s, k, q) = "created"
    /\ scans' = Insert(scans, s,
          [repository |-> r, key |-> k, request |-> q,
           state |-> "running", reason |-> NoReason])
    /\ Audit("begin-scan", s)
    /\ UNCHANGED <<repositories, publications, envelopes, dependencies,
                   payloads, fresh, recent, collection>>

\* FailScan and CancelScan: UPDATE ... WHERE lifecycle_state = 'running'.
WrongFinishOutcomeAnyState(sc, r, s, target, reason) ==
    IF ScanVisible(sc, r, s) THEN "finished" ELSE "not_found"
FinishOutcome(sc, r, s, target, reason) ==
    IF ~ScanVisible(sc, r, s) THEN "not_found"
    ELSE IF scans[s].state = "running" THEN "finished"
    ELSE IF scans[s].state = target /\ scans[s].reason = reason THEN "returned"
    ELSE "lifecycle_conflict"

FinishScan(sc, r, s, target, event, reason) ==
    /\ FinishOutcome(sc, r, s, target, reason) = "finished"
    /\ scans' = [scans EXCEPT ![s].state = target, ![s].reason = reason]
    /\ Audit(event, s)
    /\ UNCHANGED <<repositories, publications, envelopes, dependencies,
                   payloads, fresh, recent, collection>>

FailScan(sc, r, s, reason) == FinishScan(sc, r, s, "failed", "fail-scan", reason)
CancelScan(sc, r, s, reason) == FinishScan(sc, r, s, "cancelled", "cancel-scan", reason)

-----------------------------------------------------------------------------
(* PayloadStager and PublicationStore *)

\* A payload is stored under the digest the caller claims only when the bytes
\* it delivered hash to it; a payload that is already there keeps its row, its
\* bytes and its created_at.
WrongStageOutcome(sc, r, s, d, c) ==
    IF ~ScanVisible(sc, r, s) \/ scans[s].state # "running" THEN "not_found"
    ELSE IF d \in DOMAIN payloads THEN "already_present" ELSE "created"
StageOutcome(sc, r, s, d, c) ==
    IF ~ScanVisible(sc, r, s) \/ scans[s].state # "running" THEN "not_found"
    ELSE IF Hash[c] # d THEN "integrity_failure"
    ELSE IF d \in DOMAIN payloads THEN "already_present"
    ELSE "created"

StagePayload(sc, r, s, d, c) ==
    /\ StageOutcome(sc, r, s, d, c) \in {"created", "already_present"}
    /\ IF d \in DOMAIN payloads
       THEN UNCHANGED <<payloads, fresh>>
       ELSE payloads' = Insert(payloads, d, c) /\ fresh' = fresh \cup {d}
    /\ recent' = recent \cup {d}
    /\ UNCHANGED <<repositories, scans, publications, envelopes, dependencies,
                   collection, audit>>

\* The repository row is locked but its lifecycle state is not read: a scan
\* begun while the repository was active may publish, and become current,
\* after the repository was archived or marked for purge.
PublishOutcome(sc, r, s, m) ==
    IF ~ScanVisible(sc, r, s) THEN "not_found"
    ELSE IF scans[s].state = "succeeded"
    THEN IF publications[s].manifest = m
         THEN "already_present" ELSE "idempotency_conflict"
    ELSE IF scans[s].state # "running" THEN "lifecycle_conflict"
    ELSE IF \E a \in DOMAIN m.artifacts : m.artifacts[a] \notin DOMAIN payloads
    THEN "not_found"
    ELSE IF DOMAIN m.artifacts \cap DOMAIN envelopes # {}
    THEN "idempotency_conflict"
    ELSE "created"

PublishScan(sc, r, s, m, makeCurrent) ==
    /\ PublishOutcome(sc, r, s, m) = "created"
    /\ scans' = [scans EXCEPT ![s].state = "succeeded"]
    /\ publications' = Insert(publications, s, [repository |-> r, manifest |-> m])
    /\ envelopes' = [a \in DOMAIN envelopes \cup DOMAIN m.artifacts |->
          IF a \in DOMAIN m.artifacts
          THEN [scan |-> s, payload |-> m.artifacts[a]] ELSE envelopes[a]]
    /\ dependencies' = dependencies \cup
          {[scan |-> s, consumer |-> d[1], source |-> d[2]] : d \in m.dependencies}
    /\ repositories' = IF makeCurrent
          THEN [repositories EXCEPT ![r].current = s] ELSE repositories
    /\ Audit("publish-scan", s)
    /\ UNCHANGED <<payloads, fresh, recent, collection>>

-----------------------------------------------------------------------------
(* RetentionStore *)

\* The batch is the LIMIT oldest scans by requested_at.  requested_at comes
\* from the clock of the process that began the scan, so any scans of the
\* repository may be the oldest.
WrongPurgeBatches(r) ==
    {B \in SUBSET ScansOf(r) : B = ScansOf(r) /\ Cardinality(B) <= BatchLimit}
PurgeBatches(r) ==
    {B \in SUBSET ScansOf(r) :
        \/ B = ScansOf(r) /\ Cardinality(B) <= BatchLimit
        \/ Cardinality(B) = BatchLimit}

\* The repository row goes with the last batch; until then it has no current
\* scan.
WrongPurgedRepositoriesCurrent(r, B) ==
    IF B = ScansOf(r) THEN Delete(repositories, {r}) ELSE repositories
PurgedRepositories(r, B) ==
    IF B = ScansOf(r) THEN Delete(repositories, {r})
    ELSE [repositories EXCEPT ![r].current = NoScan]

PurgeRepositoryBatch(sc, r, B) ==
    /\ Visible(sc, r)
    /\ repositories[r].state = "purge_pending"
    /\ B \in PurgeBatches(r)
    /\ dependencies' = {d \in dependencies : d.scan \notin B}
    /\ envelopes' = Delete(envelopes, {a \in DOMAIN envelopes : envelopes[a].scan \in B})
    /\ publications' = Delete(publications, B)
    /\ scans' = Delete(scans, B)
    /\ repositories' = PurgedRepositories(r, B)
    /\ Audit("purge-repository-batch", r)
    /\ UNCHANGED <<payloads, fresh, recent, collection>>

\* The statement's snapshot: payloads older than the safety interval that no
\* envelope references.  Rows another transaction has locked are skipped, so
\* any subset up to the limit may be taken.
SelectGarbage(C) ==
    /\ ~collection.open
    /\ audit[CollectEvent] < MaxCollections
    /\ C \subseteq ((DOMAIN payloads \ fresh) \ Referenced)
    /\ Cardinality(C) <= BatchLimit
    /\ collection' = [open |-> TRUE, candidates |-> C]
    /\ UNCHANGED <<repositories, scans, publications, envelopes, dependencies,
                   payloads, fresh, recent, audit>>

\* The delete succeeds only as a whole: an envelope committed since the
\* snapshot makes the RESTRICT foreign key abort the transaction.
WrongCandidatesUnreferenced == TRUE
CandidatesUnreferenced == collection.candidates \cap Referenced = {}

CommitGarbage ==
    /\ collection.open
    /\ CandidatesUnreferenced
    /\ payloads' = Delete(payloads, collection.candidates)
    /\ fresh' = fresh \ collection.candidates
    /\ collection' = [open |-> FALSE, candidates |-> {}]
    /\ Audit(CollectEvent[1], CollectEvent[2])
    /\ UNCHANGED <<repositories, scans, publications, envelopes, dependencies, recent>>

AbortGarbage ==
    /\ collection.open
    /\ collection' = [open |-> FALSE, candidates |-> {}]
    /\ UNCHANGED <<repositories, scans, publications, envelopes, dependencies,
                   payloads, fresh, recent, audit>>

\* More than 24 hours pass: everything staged so far is past the interval.
DayPasses ==
    /\ fresh \cup recent # {}
    /\ fresh' = {}
    /\ recent' = {}
    /\ UNCHANGED <<repositories, scans, publications, envelopes, dependencies,
                   payloads, collection, audit>>

-----------------------------------------------------------------------------
\* Everything the port can be asked on behalf of one scope.
ScopeNext(sc) ==
    \/ \E r \in Repositories :
        \/ \E k \in Keys, src \in Sources : RegisterRepository(sc, r, k, src)
        \/ ArchiveRepository(sc, r)
        \/ MarkRepositoryForPurge(sc, r)
        \/ \E B \in SUBSET Scans : PurgeRepositoryBatch(sc, r, B)
        \/ \E s \in Scans :
            \/ \E k \in Keys, q \in Requests : BeginScan(sc, r, s, k, q)
            \/ \E reason \in Reasons :
                FailScan(sc, r, s, reason) \/ CancelScan(sc, r, s, reason)
            \/ \E d \in Payloads, c \in Contents : StagePayload(sc, r, s, d, c)
            \/ \E m \in Manifests, b \in BOOLEAN : PublishScan(sc, r, s, m, b)

Collect == (\E C \in SUBSET Payloads : SelectGarbage(C)) \/ CommitGarbage \/ AbortGarbage

Next == (\E sc \in Scopes : ScopeNext(sc)) \/ Collect \/ DayPasses

Spec == Init /\ [][Next]_vars

-----------------------------------------------------------------------------
(* Properties *)

\* Every table holds rows of its columns' types, and the bookkeeping of the
\* model (ages, the open collection, event counts) is well formed.
TypeOK ==
    /\ repositories \in Table(Repositories, RepositoryRow)
    /\ scans \in Table(Scans, ScanRow)
    /\ publications \in Table(Scans, PublicationRow)
    /\ envelopes \in Table(Artifacts, EnvelopeRow)
    /\ dependencies \subseteq DependencyRow
    /\ payloads \in Table(Payloads, Contents)
    /\ fresh \subseteq DOMAIN payloads
    /\ recent \subseteq Payloads
    /\ collection \in [open : BOOLEAN, candidates : SUBSET Payloads]
    /\ audit \in [AuditEvents -> Nat]

\* A scan row belongs to a repository that exists, and a publication
\* certificate exists exactly for the scans that succeeded, in the same
\* repository: no purge order or race leaves an orphan on either side.
ScansOwned ==
    \A s \in DOMAIN scans : scans[s].repository \in DOMAIN repositories

CertifiedExactly ==
    /\ \A s \in Scans :
          s \in DOMAIN publications <=> s \in DOMAIN scans /\ scans[s].state = "succeeded"
    /\ \A s \in DOMAIN publications :
          publications[s].repository = scans[s].repository

\* Publication is all or nothing: what can be listed for a scan is exactly
\* the manifest its certificate records, artifacts and dependency edges, and
\* a scan without a certificate shows nothing (PublishScan, the purge batch).
ManifestOf(s) == publications[s].manifest

PublishedWhole ==
    /\ \A a \in DOMAIN envelopes : envelopes[a].scan \in DOMAIN publications
    /\ \A d \in dependencies : d.scan \in DOMAIN publications
    /\ \A s \in DOMAIN publications :
          /\ EnvelopesOf(s) = DOMAIN ManifestOf(s).artifacts
          /\ \A a \in EnvelopesOf(s) : envelopes[a].payload = ManifestOf(s).artifacts[a]
          /\ {<<d.consumer, d.source>> : d \in {e \in dependencies : e.scan = s}}
               = ManifestOf(s).dependencies

\* A visible artifact can be exported and its bytes hash to the digest in its
\* envelope, whatever staging, deduplication and collection did meanwhile.
ExportsExact ==
    \A a \in DOMAIN envelopes :
        /\ envelopes[a].payload \in DOMAIN payloads
        /\ Hash[payloads[envelopes[a].payload]] = envelopes[a].payload

\* The current scan of a repository is one of its own published scans.
CurrentPublished ==
    \A r \in DOMAIN repositories : repositories[r].current # NoScan =>
        /\ repositories[r].current \in DOMAIN publications
        /\ publications[repositories[r].current].repository = r

\* Within one scope a request id and a source each name one repository, and
\* within one repository a request id names one scan.
IdempotencyKeysUnique ==
    /\ \A p, q \in DOMAIN repositories :
          /\ repositories[p].scope = repositories[q].scope
          /\ repositories[p].key = repositories[q].key
                \/ repositories[p].source = repositories[q].source
          => p = q
    /\ \A s, t \in DOMAIN scans :
          scans[s].repository = scans[t].repository /\ scans[s].key = scans[t].key => s = t

\* The audit trail accounts for every scan: each begin is matched by at most
\* one publish, fail or cancel, one is outstanding while the scan runs, and
\* only a purge can remove a scan whose end was never audited.  A replayed
\* request that audited again, or a mutation that did not, breaks the balance.
Begins(s) == audit[<<"begin-scan", s>>]
Ends(s) == audit[<<"publish-scan", s>>] + audit[<<"fail-scan", s>>]
           + audit[<<"cancel-scan", s>>]
Running(s) == s \in DOMAIN scans /\ scans[s].state = "running"

AuditBalanced ==
    /\ \A s \in Scans :
          /\ Ends(s) + (IF Running(s) THEN 1 ELSE 0) <= Begins(s)
          /\ (\A r \in Repositories : audit[<<"purge-repository-batch", r>>] = 0)
                => Begins(s) = Ends(s) + (IF Running(s) THEN 1 ELSE 0)
    /\ \A r \in DOMAIN repositories :
          /\ audit[<<"register-repository", r>>] > 0
          /\ repositories[r].state # "active" =>
                audit[<<"archive-repository", r>>] > 0

\* History is append-only: a finished scan, its certificate and its artifacts
\* never change; they disappear only with a purge of a repository that was
\* explicitly marked for it.
Published(s) == [row |-> scans[s], certificate |-> s \in DOMAIN publications,
                 artifacts |-> {<<a, envelopes[a]>> : a \in EnvelopesOf(s)}]

FinishedScansImmutable ==
    [][\A s \in DOMAIN scans :
          scans[s].state \in TerminalStates =>
            \/ s \in DOMAIN scans' /\ Published(s)' = Published(s)
            \/ /\ s \notin DOMAIN scans'
               /\ repositories[scans[s].repository].state = "purge_pending"]_vars

\* A repository only moves forward: active, archived, purge_pending, gone.
\* It never loses its current scan except to a purge, and once marked for
\* purge it takes no new scan.
Rank(state) == CASE state = "active" -> 1 [] state = "archived" -> 2
                 [] state = "purge_pending" -> 3

RepositoryMovesForward ==
    [][\A r \in DOMAIN repositories :
          \/ r \notin DOMAIN repositories' /\ repositories[r].state = "purge_pending"
          \/ /\ r \in DOMAIN repositories'
             /\ Rank(repositories[r].state) <= Rank(repositories'[r].state)
             /\ repositories'[r].current = NoScan /\ repositories[r].current # NoScan
                   => repositories[r].state = "purge_pending"
             /\ repositories[r].state # "active" => ScansOf(r)' \subseteq ScansOf(r)]_vars

\* Nothing done on behalf of one scope, collection of shared payloads
\* included, changes what another scope can read.
View(sc) ==
    LET mine == {r \in DOMAIN repositories : repositories[r].scope = sc}
        runs == {s \in DOMAIN scans : scans[s].repository \in mine}
        shown == {a \in DOMAIN envelopes : envelopes[a].scan \in runs}
    IN [repositories |-> {<<r, repositories[r]>> : r \in mine},
        scans |-> {<<s, scans[s]>> : s \in runs},
        exports |-> {<<a, envelopes[a], payloads[envelopes[a].payload]>> :
                        a \in {b \in shown : envelopes[b].payload \in DOMAIN payloads}}]

ScopesIsolated ==
    [][\A sc \in Scopes : ScopeNext(sc) \/ Collect =>
          \A other \in Scopes \ {sc} : View(other)' = View(other)]_vars

\* A repository marked for purge disappears if the retention caller keeps
\* sending batches for it, however many it takes, whatever scans still run and
\* whatever is staged, published and finished between two of them
\* (PurgeRepositoryBatch).
PurgeRequested(r) == r \in DOMAIN repositories /\ repositories[r].state = "purge_pending"
PurgeStep(r) == \E sc \in Scopes, B \in SUBSET Scans : PurgeRepositoryBatch(sc, r, B)
Fairness == \A r \in Repositories : WF_vars(PurgeStep(r))
FairSpec == Spec /\ Fairness
PurgeCompletes == \A r \in Repositories : PurgeRequested(r) ~> r \notin DOMAIN repositories

-----------------------------------------------------------------------------
(* The store implements the promise of the port *)

StatusOf(s) == IF s \in DOMAIN scans THEN scans[s].state ELSE "absent"
ExportsOf(s) ==
    {<<a, payloads[envelopes[a].payload]>> :
        a \in {b \in EnvelopesOf(s) : envelopes[b].payload \in DOMAIN payloads}}

Promise == INSTANCE PublicationPromise WITH
    status <- [s \in Scans |-> StatusOf(s)],
    exports <- [s \in Scans |-> ExportsOf(s)]

\* What a caller observes of its scans through GetScan, ListArtifacts and
\* ExportPayload is a behaviour of the promise.
KeepsPromise == Promise!PromiseSpec

-----------------------------------------------------------------------------
(* What the documents say and the adapter does not do *)

\* A payload is not collected while its staging safety interval runs: whoever
\* was told within the interval that it is stored can still publish it.
\* StagePayload leaves created_at of a payload that is already there alone.
RecentlyStagedSurvives == recent \subseteq DOMAIN payloads
=============================================================================
