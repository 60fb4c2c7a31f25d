# A TLA+ verification of the software engineering platform

The repository is a Go backend that analyses source repositories (engines under
`backend/rie`, `backend/lie`, `backend/die`), records scans and their artifacts in
PostgreSQL (`backend/persistence`, `backend/internal/storage/postgres`), offers them
through a repository service (`backend/service/repository` and its integration under
`backend/internal/service`), and runs all of it inside one runtime
(`backend/internal/runtime`). This directory models the store, the services over it, the
runtime from its configuration to its shutdown, and the engines as far as their answers
depend on one another and on a directory that does not stand still.

`PROJECT.json` lists the components, the runs, the mutants that show each property can
fail, the lines each definition stands for, the hazards and the theorems.

## Inventory

| Component | State it keeps | Operations | Hard behaviour |
| --- | --- | --- | --- |
| PostgreSQL adapter, `internal/storage/postgres` | tables of repositories, scans, publications, envelopes, dependencies, payloads, audit events | register, archive, mark for purge; begin, fail, cancel; stage, publish; purge batch, garbage collection; reads | concurrent transactions, several unique keys behind one `ON CONFLICT DO NOTHING`, two-phase collection, batched purge |
| Schema, `persistence/postgres/migrations` | the tables and their constraints | none of its own | keys that span scopes and repositories |
| Persistence Port, `persistence` | none (contract and validation) | the port's requests | what a replay, a conflict and a lost commit may look like |
| Scan coordination, `service/repository/scan` | flights of a process, waiting calls | ExecuteScan, CancelScan, queries | single flight, cancellation by interest, two processes, uncertain publication |
| Service integration, `internal/service/repository/integration` | none of its own | Begin, Publish, Finalize, Cancel, Reconcile over the port | several transactions per operation, read before write |
| Analysis adapters, `internal/service/repository/adapters` | bytes held by a scan's session | prepare, analyse, release | a byte budget shared by scans |
| Lifecycle service, `service/repository/lifecycle` | none | register, archive | a proof taken before a transaction |
| Runtime application, `internal/runtime/app` | admission, work in flight, idle channel, shutdown result | Start, Admit, Done, Shutdown, Force | admission racing a drain, timers racing a release |
| Health monitor, `internal/runtime/health` | state, readiness signal, failures, last success | Transition, Readiness, Snapshot | a database answer that arrives after the state changed |
| Connection pools, `internal/runtime/postgres` | pools per role | Open, Close | opening several and unwinding, closing that waits for borrowers |
| Observability, `internal/runtime/observability` | records, one collector | Start, Stop, Close, Record | bounded records, stop racing a flush |
| Runtime configuration, `internal/runtime/config` | none | Load, validate | layers and bounds |
| Dependency bridge, `internal/integration/dependency` | a busy gate, a spool | Publish, Export | an outcome the store does not confirm, partial staging |
| Repository engines, `rie` | a store of artifacts, written once per engine | discover, ignore, detect languages, frameworks and builds, synthesize, summarize | ignore rules, a directory edited between two engines |
| Go engines, `lie/golang` | syntax, package identity, semantic facts of one session | parse, prove identities, resolve, check interfaces | three readings of the same directory, stale evidence, name resolution, limits |
| Dependency engines, `die` | one inventory | translate Go facts, normalize, analyze, page, impact | cycles, edges of unequal certainty, limits that coincide |
| Conformance suites and experiment | none | tests | - |

How they interact. A process admits a piece of work (`runtime/app`) and calls the scan
service; the service opens or joins a flight, whose goroutine looks the scan up, begins
it, runs the engines, stages one payload after another, publishes, and confirms what it
published; every one of these is a transaction of its own on the adapter, and other
processes, purges and garbage collection run between any two of them. Processes share
nothing but the database: the flight map is memory of one process. The runtime cancels
the leases of the work in flight when a drain times out, which reaches the leader of a
flight as the end of its context.

What makes each part correct:

* store: rows never contradict one another, a publication is all or nothing and stays, an
  export returns the published bytes, a replay changes nothing, a scope never sees or
  changes another's rows, a purge completes;
* scan service: an answer given to a caller is true of the durable scan and stays true, a
  waiting call waits for a flight that serves it and returns, a scan that may still run is
  never reported as ended;
* runtime: pools are not closed under work that was not told to stop, a shutdown that is
  not reported forced left nothing behind, a shutdown always ends, readiness is healthy
  only in the ready state.

## Modules

| Module | Models | Used by |
| --- | --- | --- |
| `PublicationPromise` | what the port promises of a scan, without tables | refined by `PersistenceStore` |
| `PersistenceStore` | the adapter over its schema | `ScanService`, `DependencyPublication`, proofs |
| `PersistenceStoreProofs` | theorems: the store's invariants, what a step of it may change, and that it implements `PublicationPromise` | `ScanServiceProofs`, `PublicationProofs` |
| `ScanService` | calls, flights and their leaders, several processes, over the store | proofs |
| `ScanServiceProofs` | theorems: answers, flights and orphans, and that the service implements the store | - |
| `ArtifactPages` | pages by offset, and the reading of a publication over them | `RepositoryCatalog` |
| `RepositoryCatalog` | clients that register, read, archive and list repositories | `MCServices`, proofs |
| `CatalogProofs` | theorems: registrations, listings, and the reading of a publication | - |
| `DependencyPublication` | the dependency bridge: instances that publish, reconcile and export, over the store | `MCServices`, proofs |
| `PublicationProofs` | theorems: receipts, commits and gates, and that the bridge implements the store | - |
| `DependencyGraph` | normalization, strong components and the queries of `die` | `MCServices`, proofs |
| `DependencyGraphProofs` | theorems: the strong components and the queries | - |
| `HealthMonitor` | the monitor | `RuntimeLifecycle` |
| `RuntimeLifecycle` | admission and shutdown, over the monitor and the pools | proofs |
| `RuntimeProofs` | theorems about `HealthMonitor` and `RuntimeLifecycle`; about `RuntimeStartup`, what is open at every step, the order of closing, and what may be opened | - |
| `RuntimeConfiguration` | the layers of settings, their rules, and the pools they ask for | `RuntimeStartup` |
| `RuntimeStartup` | `Start`, the pools, the collector, and the end of a shutdown | `MCRuntimeStartup`, proofs |
| `RepositoryIntelligence` | the pipeline of the seven repository engines over a directory that is edited | `GoIntelligence` |
| `GoIntelligence` | the three Go engines: syntax, package identity, semantic facts | `GoDependency` |
| `GoDependency` | the translation of Go facts to dependency edges | `AnalysisSession` |
| `AnalysisSession` | the analysis adapter: one session over the engines, its source and spool files | `MCAnalysis`, proofs |
| `GoScopes` | the walk that binds the names of a function body | `MCAnalysis`, proofs |
| `GoScopesProofs` | theorems: names are bound to what the language binds them to | - |
| `GoInterfaces` | the checks that a type implements an interface, and the limits of the inventory | `MCGoInterfaces` |
| `SourceReader` | how an engine reads one file while its folder is moved about | `MCAnalysis`, proofs |
| `AnalysisProofs` | theorems: what a session gives back, what a read is true of, that ignore rules leave what git would, and that the Go engines' proofs, edges and answers about interfaces are | - |
| `MCPersistenceStore`, `MCScanService`, `MCRuntimeStartup`, `MCGoInterfaces` | values of the constants for TLC | the runs |
| `MCServices`, `MCAnalysis` | values of the constants, and several machines side by side that share no state | the runs |

Definitions whose names begin with `Wrong` are not part of a specification. Each is a
mistake the code could have made in the definition that follows it; the mutants in
`PROJECT.json` put it in that definition's place, and TLC then finds the named property
violated.

### PersistenceStore

A table is a function from primary key to the columns the adapter's decisions read. A
port operation is one transaction that locks what it decides on, so it is one action. For
each operation `XxxOutcome` is the answer the adapter would give in the current state:
`created`, `returned` and `already_present` are successes, the rest are the port's error
kinds. An answer that is an error rolls back, so only the effective outcomes are actions.

What is abstracted: a request digest, source identity, payload digest and manifest digest
are each one value (`Requests`, `Sources`, `Payloads`, and the manifest itself); SHA-256 is
a function `Hash` from byte strings to digests. `requested_at` and `finished_at` are not
kept; since they come from the clock of whichever process wrote them, a purge batch may take
any scans. The 24 hours of the staging interval are the set `fresh`, emptied by `DayPasses`.
The `audit_events` table is a count per event and target.

Garbage collection takes two actions: its statement picks candidates in a snapshot and the
delete, later, fails as a whole when the foreign key from an envelope forbids it. The
collection may take any subset of the candidates, because rows another transaction has
locked are skipped.

### ScanService

A slot is a process together with a principal, because the key of the flight map holds both.
A flight has the program counter of its leader; each transaction of the leader is one step,
taken through `Store!...` on the same tables, and each store call can also fail, or commit and
lose its answer (`Faults`). `Interrupted` says when: a call on the execution context fails once
that context ended, whether or not faults are allowed. What the caller is then told is one of
`StoreErrors`, as `failure`, `serviceFailure` and `mapDependencyError` make it: unavailable and to be tried again, a
timeout to be tried again, or a failure nobody recognises, which has the kind unavailable but is not to be tried again;
a commit whose answer was lost is one of the last two. `failRunning` passes these on as well, on a context that only its
timeout ends. That the adapter's user has its privileges and that a finish breaks no constraint of the schema is assumed;
otherwise the code would pass on not found or a conflict. `Crash` forgets a process's flights.
`Environment` registers, archives, purges and collects. The reading of a scan and the listing
of its artifacts are two steps, as in the code.

### HealthMonitor and RuntimeLifecycle

A readiness check takes two steps: it starts in the ready state without the mutex held, and
its answer is applied later. Ages are the boolean `fresh`. `runShutdown` is a program counter
with one step per `select` or locked section; a timer is a step that is enabled while it is
armed. An idle channel is named by the operation it was made for, so that waiting on a channel
that has been replaced can be told from waiting on the current one. The model starts where
`Start` returned; `RuntimeStartup` has what comes before, and the closing of what was opened.

### RuntimeConfiguration and RuntimeStartup

A layer is a sequence of `[name, value]` entries. `Loaded` is what `Load` makes of a file, the
environment and the command line: a refusal, or the fields in force and the pools planned from
them. It is a function of the request, evaluated once, in the initial state. `Start` is then a
program counter: each pool is created, verified and compared with the proof of the first, and any
step can fail; a failure unwinds what is open. The collector is a goroutine with its own counter,
because it reads the field that the stop clears; the owner of the shutdown and the goroutine that
`closeResources` starts are two more. Certificates are the name they are issued for; durations are
kept where a rule compares two of them.

### RepositoryCatalog and ArtifactPages

A registration takes the steps of `RegisterRepository`: resolve the source handle, release it under
a context of its own, commit one transaction. A client may try again after any answer, with the
source edited in between (`EditSource`). The transaction may commit and lose its answer. A row has a
creation time from the clock of whichever process wrote it, so listing order and insertion order
differ. A page is read at an offset into what is there at that moment. `ArtifactPages` has the
same cursor for artifacts, and the reading of a whole publication with its limit, which is checked
only when a further page follows.

### DependencyPublication

Each instance has a gate (`busy`) that one call can hold; a call then takes a lease, a spool file,
encodes, and makes its store calls one transaction at a time through `Store!...`. Every call can fail,
commit and lose its answer, or find its context ended. `Finish` runs on a context of its own and its
result is ignored. `Reconcile` reads the scan and then its envelopes. An instance can crash at any
step: it forgets its calls, its gate and its lease, and leaves its file on disk.

### DependencyGraph and GoDependency

The three graphs of an inventory are analysed independently, so the module follows one. The search for
strong components is the iterative one of `analyzeIndex` with its explicit stack; impact is the
breadth-first loop with its three limits, one scanned edge per step, and neighbours are paged by
cursor. The reference definitions in the properties are by reachability. Node ids are numbers in the
order of their text. Evidence and containment carry no decision and are left out. `GoDependency` takes the
artifacts the Go engines left in the store, refuses sets that disagree, and gives each import and
reference its resolution; as in the repository it has no caller of its own, so it is evaluated in
every state in which its inputs exist.

### RepositoryIntelligence, GoIntelligence and AnalysisSession

A directory is a function from paths to contents, a path a sequence of names; a content is a record
of what the engines tell apart. The directory is nobody's: `Edit` may change it between two engines,
up to `MaxEdits` times, and every engine reads it for itself. An engine is one action that reads,
computes its artifact and stores it, or fails. An ignore rule is a sequence of segments with `*` for any
one; the code's list of all rules, sorted by the depth of their files, is a set of rules with their folder and line, ordered by
`Before`. An editor keeps the directory a tree: it writes into folders that exist, and over nothing that holds entries.
A digest is the content itself. `GoIntelligence` resolves an import path as the code does: by the
nearest module, its workspace, replacements and vendored packages, in the contexts the importing
package is in; `Fresh` reads the evidence again before a fact is derived from it.

`AnalysisSession` holds the source from `Prepare` on, runs the seven engines and, when there is Go code,
three more, then writes one spool file per artifact; a file can refuse to be written or removed. The end of
the context is an action. The scan coordinator closes its session once, after `Analyze`; so does this module.

### GoScopes, GoInterfaces and SourceReader

`GoScopes` walks a function body as the collector does: scopes are pushed and left as the walk enters and
leaves statements, and a name is looked up by the declarations made so far. A local `var` or `const` group declares all its
specifications before the body of any is walked (`ValueSpecs`, `NextSpec`), and each initializer is walked once more as soon as its
own specification is declared, without the scopes of the literals in it (`Walks`, `Seen`). What two walks found at one place
becomes one reference, and since the sort before that is not stable it may be that of either: `Use` takes any. Next to the collector's
scopes stand the blocks of the Go language, in which a variable is visible only after its specification. The two are
compared at every reference and for every walk. Only files that the compiler accepts are walked. The variables of the
package are one set; the walk of their initializers is not modelled. `GoInterfaces` reads three
files of a package one by one while the disk changes, type-checks those that were read, and decides each
candidate; the type checker is external and modelled by what the code asks of it. `SourceReader` splits
making a reader and one read into their system calls, in between which the path, its folder and the
file are replaced by links, other folders or nothing. The content comes in pieces of any size (`ReadPiece`, `ReadEnd`), as the reader's
buffer happens to be filled, and the file can be written over in place between two of them (`OverwriteFile`).

## Runs

All runs pass with deadlock checking off: every system here may stop, when its bounded inputs
are used up or when it has shut down.

| Run | Instance | What it shows |
| --- | --- | --- |
| `store_lifecycle` | 1 repository, 2 scans, 2 request ids, 2 artifacts, 3 payloads, purge batches of 1 | certificates and exports are exact, finished scans do not change, the current scan is published, the promise of the port is kept, and under fairness of the purge batch a marked repository disappears although its scans take two batches |
| `store_scopes` | 2 scopes, 2 repositories, 2 scans, shared request id, sources and payload | one scope's operations and collection never change what the other reads; request ids stay unique |
| `scan_service` | 2 processes, the identical request in both, analysed differently, with crashes, lost answers, archive, purge, a second registration, collection | answers are durable, successes are readable, no silent orphan |
| `scan_live` | 1 process, 2 calls, a canceler, lost answers, drain, crash | flights serve their calls, waiting calls return |
| `runtime` | 2 operations, 2 callers of Shutdown, 1 check | drain, force, timers and release in every order; shutdown ends and answers; late health answers |
| `startup` | about 1500 requests of 3 layers, 1 or 3 pools, with or without metrics | start is all or nothing, pools close in reverse, the collector stops before, what is opened is what was said last |
| `services` | about 8000 graphs with every query; 2 instances that publish one scan with different inventories; 2 clients, 2 ids; a publication of up to 5 artifacts | graph answers are exact, publication answers are true, registrations and listings are right |
| `analysis` | 7 directories with up to 2 edits; bodies of up to 4 declarations nested 4 deep; every package of three small files; a read in pieces with up to 2 changes of its path or its file | proofs, edges, references and interface checks are true of what was read, the session gives everything back |
| `doc_orphaned_scan`, `doc_staging_interval`, `doc_collector`, `doc_unread_method` | the smallest instance that shows it | a document's statement that the code does not keep, see below |

The bounds. Two scans are enough for one to be the current scan of a repository while another
is published, purged or competes for an artifact id; a batch of one makes a purge of two scans
take two batches with anything in between (each batch is full or of a repository left
empty; a full batch followed by a partly full one needs three scans and a limit of two, and is not
reached); two artifacts with one edge between them
make a partial publication visible; the third payload is one no manifest asks for and the target of
a stream that does not hash to what was claimed. A second registration lets a purged
id be used again: in `scan_service` that is what shows that a scan can be begun anew after a purge. `services` has one
registration, because two make seven million states of it, and the theorems cover the rest; drains are in `scan_live`. Two scopes with two repositories reach every clash of the unique keys.
Two processes are the smallest number that share a scan, and two calls in one process the
smallest that share a flight. Two operations make one idle channel replace another. Three pools are all
the plan ever has, and two proofs let any of them disagree. Two changes of a layer over a good file are
enough to break one rule by a combination no layer makes alone. Three nodes give cycles of every length
up to three, chains, and two components; limits below the size of the graph make each of them bite. Two
instances and two publications let one finish, fail or crash between any two steps of another. Page sizes of
one and two make every listing cross a page. Two edits change a source and a manifest that justify each
other. Three files are one each for a type, a method and a use. Files of two bytes, in two orders, and of one more than
the limit of two let a read be whole, a mix of two contents, or too long; two overwrites put one before and one after a piece. Collections,
registrations, clocks, calls, edits, exports and changes are capped by `MaxCollections`, `MaxRegistrations`,
`MaxClock`, `MaxMade`, `MaxCalls`, `MaxEdits`, `MaxExports`, `MaxDisturbances`, `MaxStuck`, `MaxUnread`, `MaxFound`,
`MaxOffset`, `MaxNesting` and `MaxPublished`; everything else is finite by its constants. Symmetry is not used.

Where a run has several machines (`services`, `analysis`), a behaviour is one of them while the others rest.
They share no variable, so nothing is lost by not interleaving them; the properties speak of the one that runs.

### Fairness

* `PersistenceStore!Fairness`: a purge batch is sent again as long as one is possible. The
  retention caller does this; nothing is assumed of scans, stages or publications.
* `ServiceFairness`: the leader of a flight takes its next step. Store calls are bounded by
  timeouts and engines run over a finite tree. Calls, cancelers, drains and crashes are not fair.
* `RuntimeFairness`: the owner goroutine runs and its armed timers fire, and a `Shutdown` call
  returns once it can. Work and connections are not assumed to ever come back.
* `StartupFairness`: the caller of `Start` runs, bounded by the start timeout, and so does the owner of the
  shutdown with its timers. The collector, the sink, the helper that closes pools and borrowed connections are
  not assumed to get anywhere.

## Where documents and code disagree

Each of the first four is a run that TLC finds violated.

* `OneLeader`: `SCAN_EXECUTION_CORE_VALIDATION_REPORT.md` says Begin atomically tells a durable
  running scan without a leader in this process (`orphaned_scan`). The integration looks the scan
  up and begins it in two transactions, and takes any running record as its own.
* `RecentlyStagedSurvives`: a payload is said to be kept for its staging interval. Staging a
  payload that is already present does not renew its age.
* `CollectorNeverPanics`: metric collection is said to be cancellable. The collector's goroutine evaluates
  the channel it will close when it first runs; a stop that came earlier has cleared the field, and the
  process ends with a panic in the middle of its shutdown.
* `DecidedOnlyWhenComplete`: `proven` and `disproven` are said to require complete method sets. A file that was
  not read is left out of the type check, and a method in it counts as missing.

Others that the models have as behaviours, without a run of their own.

Scans. A failure after begin and before publication is said to finalize the scan
(`REPOSITORY_SERVICE_PERSISTENCE_RUNTIME_INTEGRATION.md:319-320`); one inside `Store.Publish` ends in reconciliation, which leaves
the scan running and answers ambiguous. Other request ids for the same scan are said to be rejected
(`REPOSITORY_SERVICE_LAYER.md:279`); a scan that exists is answered from its state whatever request id
began it. A call joins a flight that its last caller has just canceled and is canceled with it
(`JoinFlight` after `LeaveFlight`); a second process whose begin meets a scan finished in the meantime is
told its input is invalid (`Begin`); a scan whose finalization failed is left running, and when the failure was not recognised
the caller is told not to try again (`Finalize`); a replay that races a purge answers a success without artifacts
(`Lookup`, `List`), which is why `AnswersDurable` and `SuccessesReadable` say nothing once a purge began; a
reused request id with another scan id is not found rather than a conflict, and a begin replayed after
archiving is a lifecycle conflict (`BeginOutcome`); work is admitted between leaving the ready state and
closing admission (`StartDraining`, `Refuse`).

Repositories and listings. Fingerprints of mutations, which include the source revision, are computed by the
lifecycle service and dropped by the integration's store (`REPOSITORY_LIFECYCLE_VALIDATION_REPORT.md:60,90` describes them); archive ignores
request ids; a request id reused for another repository and source is answered not found. A listing can show a
repository twice when another is registered meanwhile, and skips one when another is purged; a purge between
two artifact pages cuts a success short without a word, one before the scan is read answers not found, and the
last page may exceed the limit of artifacts (`ListingsWhole` states what remains true).

Startup and shutdown. A second `StopCollection` or `Close` returns at once while the first still waits, so the observer
may be closed with its collector running, and a stop that times out lets the pools close under it
(`CollectionStopsFirst` has both as exceptions, when a timer expired). An explicitly empty environment variable
overrides a file. The rule that production refuses TLS files that are links is never reached: a link is no regular file
and is refused before, in every profile.

Dependency publication. An answer to Begin that is lost leaves the scan running, and retries then answer uncertain, as
documented. A rejected stage whose recheck fails answers missing or conflict although another instance may have
published the scan (`Settle`). A purge between two reads of a Get answers missing or integrity.

Go facts. A package is resolved across the boundary of a nested module that does not parse
(`GO_PACKAGE_IDENTITY_PROOF.md:134`). A proof of an external import cites no evidence, so a replacement that is added later goes
unnoticed; the modules of `EdgesTrue` are those that parsed. A selector on a local value is resolved as a plain
name, and the `p` of `p.Foo` in a body gives a second, unresolved reference. A type reached through a dot
import is unresolved as a type relation although it is resolved as a reference
(`LIE_PHASE_2_2_5_REFERENCES_IMPORTS.md:36`). The collector declares a variable before its own initializer is walked
(`x := x`, `for x := range x`) and the later variables of its group with it (`var ( b = a; a = 2 )`), takes a name in a literal of a local
initializer once without the literal's scopes, where even a declared name is a reference (`UseOfDeclared`), puts methods and `init` into the file's scope and labels into the scope of variables, and gives
literals at package level no scope; `ReferencesExact` is about the rest. A predeclared name is external although a file that was
not read may declare it. Two places that use one type as an interface are merged, and the second one failing turns
the answer to unknown. A negated rule of a later or nested ignore file brings back files below an excluded folder,
and an unreadable ignore file excludes nothing. `go.mod` is read by three engines, each for itself.

Reading. A directory is resolved, opened and listed by three lookups; the links are those of the path, the file is opened
through the handle. A file that is written over while it is read is answered as a mix of the two contents, which the digest and the
size then describe. A link to another place of the repository passes the check and is then refused by the handle; a broken link is
`missing` for one engine and `outside root` for the other two; a directory that was moved is read through its old handle.

## Proofs

`tlapm` checks eight modules. Their theorems hold for every value of the constants that
satisfies the modules' named assumptions: `Hash` is a function from contents to payload digests,
manifests are well formed (`ManifestType`, `ValidGraph`), and the null values are not scans, reasons or
revisions. The services restate this of their own constants, since they instantiate the store
(`StoreAssumption`, `PublishedAssumption`), with at least one scope and repository to work on; their callers and
cancelers, publishers and exporters, are different processes, and the reasons the code writes are among `Reasons`. Batch and page
sizes, limits and the failure threshold are at least one, repository ids are numbers of a finite set, the
runtime's operations are a finite set. The reader (`ReaderAssumption`) serves some of the three Go engines, over finitely
many directories and files of bytes. A directory (`DirectoryAssumption`) has finitely many files, before and after any edit; what
can be read is what its name says (a `go.mod` that parsed has a module path, a `vendor/modules.txt` packages, a `.go` file imports
and declarations, or else is broken or too large), names and import paths are made of `PathNames`, nothing lies above the root, what holds an
entry is a folder (`TreeShaped`), a pattern of an ignore file that has several segments is anchored, and only
a replacement by a directory has a target. A package of types (`InterfacesAssumption`) has finitely many files, in order, and
finitely many methods. The nodes of a dependency graph (`NodesAssumption`) are a finite set of numbers above 0, its local nodes are
declared, its candidates are a sequence of edges between nodes, and the limit of edges is a number (`InputsAssumption`). Of `Hash` nothing like injectivity is assumed: two contents with one digest are
stored once and either is returned.

**The store, invariants (`PersistenceStoreProofs`).** A table is a function with a changing
domain, so a few lemmas about inserting, deleting and updating rows carry the type invariant
(`TypeCorrect`). Each operation then gets an *effect* (`Registered`, `Begun`, `Finished`,
`PublishedBy`, `PurgedFrom`, `Collected`, ...): which rows it adds, drops and leaves, which is
all that the rest of the proofs use of it. The inductive invariant is `Consistent`, the conjunction
of the safety invariants with two that make `ExportsExact` inductive: `PayloadsExact` (stored bytes
hash to the digest they are stored under, which staging establishes and nothing can change) and
`EnvelopesBacked` (every envelope's payload is there, which publication reads inside its
transaction and the foreign key keeps when a collection commits). `CertifiedExactly` is needed for
`PublishedWhole`: a scan that is being published has no certificate, hence no envelopes or
dependencies left over. `CurrentPublished` needs it as well, since a purge drops certificates.

**The store, steps (`PersistenceStoreProofs`).** `RowStep` says what any step does to a
repository row (it keeps its identity and goes forward, or goes from `purge_pending`);
`RepositoryMovesForward` and `IdempotencyKeysUnique` follow. `FinishedScansImmutable` follows from
the effects, because the operations that write a scan start from `running`. `ScopesIsolated` is
proved by showing that an operation touches rows of one repository, of the acting scope, and
that a collection deletes nothing an envelope of any scope references. `AuditBalanced` is inductive
one scan and one repository at a time. `StoreKeepsPromise` is the refinement: begin, finish,
publish and purge map to the steps of `PublicationPromise`, staging and collection to
stuttering, under `Consistent`, without which a collection could shrink what a scan exports.

**The runtime (`RuntimeProofs`).** For the monitor, `HealthInv` adds `GraceExhausted` to the safety
invariants: a ready runtime that is not healthy has used up its grace (its last success is stale
or its failures reached the threshold). Without it one more failed check could bring the runtime
back, and `RecoveryNeedsSuccess` would not follow. For the shutdown, `RuntimeInv` adds what holds at
each step of the owner: `OwnerInv` (admission is closed once the owner leaves the admitting steps,
the state it is in, what its pools are), `WorkInv` (once the work was told to stop nothing is active;
connections are held only by work in flight), `ZeroWorkExact`, and `ResultInv` (what was counted at
the closing of admission still bounds what is in flight; nothing is in flight when the owner
concludes that nothing was canceled). `PoolsCloseAfterWork` needs the first two, `CleanUnlessForced`
and `CountsConsistent` the last.

**The scan service (`ScanServiceProofs`).** The service writes the tables only through `Store!...`, so each of its
steps is a step of `PersistenceStore` or leaves the tables alone (`ServiceImplementsStore`); every theorem about the store
then holds under the service, crashes and environment included, and its proofs can use them. The inductive invariant is
`ServiceInv`. For each flight `FlightInv` says what its leader may rely on at its program counter: a flight that has not settled has
no answer, one that publishes has its manifest, and what the leader read in its last transaction is still so
unless a purge was counted since. `CallerInv` and `CancelerInv` say that the flight a call waits for is one for its
request, and that its answer is true unless purged; `Counted` that a flight's interest is the number of calls that wait for
it, and that a flight nobody waits for has ended. An answer must stay
true while other processes go on, so what a call relies on between two transactions is only what the store's history theorems
keep: a finished scan does not change, and leaves only by a purge. `NeverSilentlyOrphaned` and `SuccessesReadable` are
about steps and follow from the invariant. The first one's allowed answers (`Unsettled`) are those that claim no outcome of
the scan, the failures of a finalization included.

**The dependency bridge (`PublicationProofs`).** The same argument with `PublicationInv`: the bridge makes store transactions
only (`PublicationImplementsStore`). Each call has what it relies on from its last transaction (`Relies`), `GateInv` says that an
instance's gate, lease and spool file belong to the one call that is in progress, and `StoreInv` that every scan was begun for the
revision (`OneRevision`) and every publication is one inventory (`OnlyInventories`). The last two make `CommitsNotDenied`
inductive, since a call then finds either its own publication or one it must answer conflict for.

**Startup (`RuntimeProofs`).** `StartupInv` is the type invariant, `PoolsInv` (the pools that exist are a prefix of the plan,
in order, each with the state its step gives it, and all verified ones share a proof), `StartInv` (what is open at each
step of `Start` and its clean-up) and `CollectInv` (where the collector is, at each step of the shutdown). `StartsAllOrNothing` and
`CollectionAlwaysStopsFirst` are read off it, `AlwaysClosedInReverse` is a step property. `PoolsAlwaysAsAccepted` adds the
rules of the configuration: pools exist only under one that every rule accepted. `AlwaysOpenedAsStated` relates that one to what the
operator said: among layers that name each field once, the last entry of their concatenation is the override of the layers
one by one (`LastOfLayers`), and a guarded profile accepts a budget only when some layer states it. That layers are sequences
(`LayersAssumption`) is all it assumes.

**Analysis (`AnalysisProofs`).** `ReaderInv` has a history of the disk: what each lookup found was so at some moment since the reader
was made (`HistoryInv`, `FoundInv`), and is so still while nothing has been changed (`CalmInv`). `ReadsTrue` needs both parts, because
the reader must answer what is there when nobody interferes, and may refuse only for a reason that existed. Of what was read so far the invariant
says that each byte was at its place in some content of the file since the reader was made and, until the file is overwritten under the read
(`torn`), that it is the beginning of one such content. `SessionInv` says that
the payloads are a prefix of the complete profile and the spool files those of the payloads or stuck (`SpoolsInv`); no
engine has its turn once the profile is complete, so the profile cannot change under a half-written result.

For the engines, `AnalysisInv` says of each artifact what follows from those before it and from what its engine read: the counts are of
the snapshot (`LanguageInv`), what parsed is in it (`SyntaxInv`), every proof is true of the manifests that were read (`ProofTrue`),
bindings follow from their proofs and references from verified files (`SemanticWell`), edges from all of these (`DependencyInv`).
It is inductive because no engine writes another's artifact and an edit writes none (`KeptInv`, `ExecutedInv`). `EnginesAlwaysAgree` and
`ProofsAlwaysExact` are read off it. `EdgesAlwaysTrue` has to carry a proof from the manifests the identity engine read to the directory
the semantic engine read, in which other manifests may have changed. Sources are easy, since a verified file is what was parsed. For
proofs, a resolved binding needs all contexts fresh and resolved to one package (`CombineWell`); one of those contexts is the
importing module alone (`ContextsResolved`), and the manifests it cites, those that decided, are as they were. What the others became is
bounded: only manifests that were read and parsed count now, so there are no new modules (`Fewer`), and among fewer modules a nearest one
that is still there is still nearest (`NearestAmongFewer`). So the target is still justified (`ProofStillTrue`)
in what is left of the manifests (`read` in `EdgesTrue`). The number of edits, the depth and the manifests are arbitrary.

`AlwaysIgnoreExact` compares two ways to judge a file: the code tries the last rule that applies, and matches the parents of the target
by hand; git excludes a file when a rule excludes a component of its path. For one rule the components of a path below the rule's folder are
the targets and their parents (`PathsBelow`, `RuleExcludes`). Among rules a last one must exist: the rules that apply have folders that
are prefixes of the path, the deepest is one folder, and its rules are the lines of one file (`LastApplies`). The code also matches a
pattern against the empty target, the rule's own folder; that this spares no file needs `DiscoveryInv`, that what discovery recorded was a
tree, so that a folder with an ignore file is not a file. The theorem is about plain rules; what negated ones do is said above.

For types and interfaces, `InterfacesInv` says that the answers published are among those the files read give (`Satisfaction`), and that
what the limits kept and what they omitted add up (`Counted`; the budget is spent in order, `SpentInOrder`). That the answers are true of the
whole package is then a matter of fewer files: a method declared in some of them is declared in all (`ImplementsByOwn`), so that "proven"
cannot be undone by a file that was not read, except where an embedded interface gives the method; and a type error that no candidate
accounts for comes after the candidate that the merge kept (`UnmatchedComesLater`), so that "unknown" has the reason the property names.

**Names (`GoScopesProofs`).** The collector declares a variable when it meets its statement, the language when the statement ends, and
the two keep different stacks: a literal has two scopes and one block. `WalkSteady` relates them at every point of the walk
by two functions, `base` (how many scopes there are in each open statement, `NodesWell`) and `home` (the block a scope stands for,
`HomesWell`), and by what is declared (`ContentWell`): a scope has what its block has and what is pending in it, and
anything else in it is a method, a label or something they hide (`Stray`), or a parameter of a literal that its body assigns.
Each is an exception that `ReferencesExact` names. A stray declaration stays stray, because what becomes known later was declared
later (`AllEarlier`, `StrayStays`). Each statement is one of four changes to the two stacks, proved for stacks in general
(`Pushed`, `Declarations`, `Settled`, `Popped`), and leaving one is the last two in a row. For a name that is in none of the
exceptions, `ScopeIsBlock` and `BlockHasScope` say that scopes and blocks declare the same of it, so the innermost scope that declares it
stands for the innermost block that does (`LookupTrue`), and `ReferencesAlwaysExact` follows. The walks of an initializer see fewer scopes and fewer
declarations of its group; a name in none of the exceptions is declared in neither of what they miss (`OfInitializer`, `Pending`), so they bind
it alike. Nesting, the number of declarations and the names are arbitrary.

**The catalog (`CatalogProofs`).** `CatalogInv` has the unique keys of the table and, for each call, what its step may rely on: the
proof a registration stores is the one this very call saw. For the reading of a publication, `PageIs` says what an offset page
returns and `ReadingInv` that what was read is the beginning of what was published, as far as the offset. For the listing,
a row's *place* is the number of rows before it: `SortedByPlace` says that the sorted sequence exists and has every row at its place,
`InsertedMovesBack` that a registration moves rows back by one at most, and `ListingInv` that what was there at first
was shown or comes later, and that rows shown twice, together with those that will be, are no more than the registrations
meanwhile (`ShownTwice` does the counting). No bound of the runs enters: tables, pages and clocks are arbitrary.

**The dependency graph (`DependencyGraphProofs`).** `InOrder` lists a set by how many elements are before each; `PlacedInOrder` says that
for a total order this is a sequence of all of them, in order, and `LexicographicOrders` that the keys of edges are such an order.
`Reachable` is a recursive function over the number of steps: it grows (`ReachableGrows`), is the least closed set
(`ReachableLeast`), and is closed after as many steps as there are nodes, because each step that is not the last adds one
(`ReachableClosed`). `QueryInv` has three parts. `ViewSound`: the view has the candidates, but for what it says was omitted.
`WalkInv`: what was seen is what is within the depth of the front, and of the next level what was followed so far; an edge out of it is still
in the list, leaves a node of the front, or was followed. When front and list are empty the depth is therefore complete, and when
the next level is empty as well nothing more can be reached. `PagesInv`: what was served is the start of the listing up to the cursor.

The search for strong components has an invariant of its own, `SearchOk`, in parts that speak of a node's number, its low number, the
stack and the frames. `Numbered`, `Path` and `Bottom`: numbers grow along the stack, and the frames are a path through it that begins at its
bottom. `Met` and `Repeated`: an edge out of the stack waits in the frame of its node or was followed, also when the code skips it as a
parallel of the last one. `Descends` and `Ascends`: a frame reaches all that is above it on the stack, and everything on the stack
reaches a frame at or below it. `LowReached` and `LowBounds`: the low number of a node is that of a node it reaches, and no
followed edge out of the segment of the stack that belongs to a frame leads lower on the stack than that frame's low number. `DoneClosed` and
`Components`: what was popped leads nowhere else and is exactly the components so far, each a class of mutual reachability.
Five *effects* are all the proof uses of a step (`Entered`, `Advanced`, `Returned`, `Rooted`, and the start), and each has a lemma that it keeps
`SearchOk`. The argument of the algorithm is `RootedClass`: when a frame ends whose low number is its own, what is above it on the stack is
closed but for what was popped (`LowBounds`), so it holds the class of the node, and is connected through the frames, so it is no more than
the class. A frame that ends otherwise hands its segment to the frame before, and its nodes still ascend, through the
node its low number names. `StackSplit` ties the positions of the stack that the code cuts at to the numbers the argument is about.

**What the proofs corrected.** `NeverSilentlyOrphaned` and `NoSilentOrphans` held in runs in which a repository could be registered
once. Their proofs failed where a purge removes the scan, the id is registered again and a scan of the same id is begun by somebody
else: the first leader then leaves it running without a word. With a second registration TLC finds the same, so both properties now
exempt a purge, and `scan_service` has that second registration.

## Only model-checked

* Liveness (`PurgeCompletes`, `CallersReturn`, `ShutdownCompletes`, `WaitersAnswered`, `StartsAndStops`), which is out of the
prover's reach.

Several theorems state invariants that no run lists, because TLAPS has them for every value of the constants: `TypeOK`,
`ScansOwned`, `PublishedWhole`, `AuditBalanced`, `RepositoryMovesForward`, `HealthTypeOK`, `HealthyOnlyWhenReady`, `GraceBounded`,
`RuntimeTypeOK`, `StoppedMeansClosed`, `CountsConsistent`, `ServiceTypeOK`, `StartupInv`, `PoolsAsAccepted`, `ReaderInv`, `SessionInv`, `AnalysisInv`,
`CatalogInv`, `ArtifactsWhole`, and that the services implement the store.

## Not modelled

* Store: projections, diagnostics and statistics of a publication; roles, grants and the migration runner; field
  validation; wall clocks, so a finish whose clock runs behind the begin's is not seen; a registration that races a
  purge between its insert and its select.
* Runtime: the content of events and metrics; certificate dates; the health settings and durations no rule relates;
  `RuntimeStartup` and `RuntimeLifecycle` are not composed, since the resources of the one are opaque to the other.
* Analysis: the bytes of the artifacts and the search for leaked paths in them; `Close` during `Analyze` or with an ended
  context, which no caller does; an engine's reads are one step except in `SourceReader`, so the engines read every file whole; a read
  call that fails half way; permission errors of directories.
* Engines: the Go parser and type checker (external); the registry and the codec (`lie`, `die/codec`), which are a loop over sorted
  engines and a byte layout; the patterns of framework and build detectors, which are tables; diagnostics, except where
  another engine reads them; stale imports whose diagnostics were cut at their limit. `PackageLimited` is never true in the bounds of the run, and references are never cut at the first
  place.
* The conformance suites, the experiment and the command-line tool: they are tests or call the engines once.

## Plan

1. Done: the store with its promise and proofs, the scan service, the runtime from configuration to shutdown, the catalog and
   its pages, the dependency bridge, the graph algorithms, the engines with their session.
2. Done: proofs about the store, both services over it, the runtime, its startup, the session, the reader, the catalog, the algorithms
on the dependency graph, the ignore rules, and the Go engines: their proofs, the edges they derive, the answers about interfaces and the
binding of names.
3. Next: `RuntimeStartup` and `RuntimeLifecycle` composed over one set of pools, and the projections of a publication.
