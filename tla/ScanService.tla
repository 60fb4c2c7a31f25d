----------------------------- MODULE ScanService -----------------------------
(***************************************************************************)
(* Scan coordination: service/repository/scan/implementation.go over the   *)
(* Store of internal/service/repository/integration/implementation.go,     *)
(* composed with PersistenceStore, whose transactions its steps call.      *)
(*                                                                         *)
(* A slot is one process together with one principal: the flight map is    *)
(* private to a process and keyed by scope, principal, repository and scan *)
(* (scanKey), so the identical ExecuteScan calls of one slot join one      *)
(* flight and those of two slots meet only in the database.  One scope and *)
(* one repository are enough for that; PersistenceStore has several.       *)
(*                                                                         *)
(* An operator named Wrong... is a mistake this code could have made, as   *)
(* in PersistenceStore.                                                    *)
(*                                                                         *)
(* Every call to the store may fail, and a transaction may commit although *)
(* its answer is lost.  A process may crash between any two steps.  The    *)
(* service reads a scan and then its artifacts in transactions of their    *)
(* own, so these are two actions.                                          *)
(***************************************************************************)
EXTENDS Integers, FiniteSets

CONSTANTS Scopes, Repositories, Scans, Keys, Sources, Requests, Artifacts,
          Payloads, Contents, Hash, Manifests, Reasons, NoScan, NoReason,
          BatchLimit, MaxRegistrations, MaxCollections

CONSTANTS
    Slots,          \* process and principal pairs
    Callers,        \* ExecuteScan calls
    Cancelers,      \* CancelScan calls
    Home,           \* the slot of each caller and canceler
    Request,        \* what each caller and canceler asks for
    Drainable,      \* the slots whose runtime may start to drain
    Faults,         \* whether store calls fail and processes crash
    Maintained      \* whether the repository is archived, purged, collected

VARIABLES repositories, scans, publications, envelopes, dependencies,
          payloads, fresh, recent, collection, audit

VARIABLES
    flights,        \* the flight of each slot that has one, with its leader
    callers,        \* the ExecuteScan calls
    cancelers,      \* the CancelScan calls
    draining        \* slots whose runtime no longer admits work

Store == INSTANCE PersistenceStore

storeVars == <<repositories, scans, publications, envelopes, dependencies,
               payloads, fresh, recent, collection, audit>>
serviceVars == <<flights, callers, cancelers, draining>>
allVars == <<storeVars, serviceVars>>

\* RequestID, ScanID and everything else requestsEquivalent compares.
RequestType == [scan : Scans, key : Keys, body : Requests]

\* What PersistenceStore assumes of the constants they share, and that there is
\* a scope and a repository to scan.
ASSUME StoreAssumption ==
    /\ Hash \in [Contents -> Payloads]
    /\ Manifests \subseteq Store!ManifestType /\ \A m \in Manifests : Store!ValidGraph(m)
    /\ NoScan \notin Scans /\ NoReason \notin Reasons
    /\ BatchLimit \in Nat \ {0} /\ MaxRegistrations \in Nat /\ MaxCollections \in Nat
    /\ Scopes # {} /\ Repositories # {}

ASSUME ServiceAssumption ==
    /\ Home \in [Callers \cup Cancelers -> Slots]
    /\ Request \in [Callers \cup Cancelers -> RequestType]
    /\ Callers \cap Cancelers = {}
    /\ {"canceled", "caller-canceled", "analysis-failed"} \subseteq Reasons
    /\ Drainable \subseteq Slots /\ Faults \in BOOLEAN /\ Maintained \in BOOLEAN

Scope == CHOOSE sc \in Scopes : TRUE
Repository == CHOOSE r \in Repositories : TRUE

\* What a caller can tell apart, by kind and reason code.  "context_ended" and
\* "canceled" are both of kind canceled; only the second claims that the scan
\* was finished as canceled.  "ambiguous" is the persistence_unavailable of
\* reconcilePublication.
Success(m) == [kind |-> "success", manifest |-> m]
Failure(kind) == [kind |-> kind]
Pending == Failure("pending")

\* What a failed store call becomes (failure, serviceFailure, then
\* mapDependencyError).  PostgreSQL refused the transaction for another one or
\* took no connection: persistence_unavailable, to be tried again.  It ran into
\* the statement timeout or its context's: timeout, to be tried again, with the
\* code context-ended in the second case.  Anything else, such as a connection
\* that broke, is not recognised: of kind persistence_unavailable as well, but
\* with the code of the step (scan-begin-failed, terminal-finalization-failed,
\* store-failed) and not to be tried again.  Only the last two can come from a
\* transaction that committed.
StoreErrors == {"persistence_unavailable", "timeout", "unrecognized"}
LostAnswers == {"timeout", "unrecognized"}

ErrorKinds == StoreErrors \cup {"canceled", "analysis_failed", "context_ended",
    "ambiguous", "orphaned_scan", "source_unavailable",
    "integrity_failure", "invalid_input", "not_found", "conflict",
    "idempotency_conflict", "scan_already_running"}
NoArtifacts == [artifacts |-> Store!Empty, dependencies |-> {}]
Answers == {Success(m) : m \in Manifests \cup {NoArtifacts}} \cup
           {Failure(k) : k \in ErrorKinds \cup {"pending"}}

LeaderSteps == {"analyze", "stage", "publish", "confirm", "compare", "reconcile",
                "verify", "finalize"}
FlightSteps == {"admit", "prepare", "lookup", "list", "begin", "settle"} \cup LeaderSteps

ServiceInit ==
    /\ Store!Init
    /\ flights = Store!Empty
    /\ callers = [c \in Callers |-> [pc |-> "idle", answer |-> Pending]]
    /\ cancelers = [c \in Cancelers |-> [pc |-> "idle", answer |-> Pending]]
    /\ draining = {}

-----------------------------------------------------------------------------
(* ExecuteScan: join or create a flight, wait, leave *)

Waiting(p) == {c \in Callers : Home[c] = p /\ callers[c].pc = "waiting"}
Reply(c, answer) == callers' = [callers EXCEPT ![c] = [pc |-> "returned", answer |-> answer]]

\* A new flight runs on a detached context (ended is that context's Err).
StartFlight(c) ==
    /\ callers[c].pc = "idle"
    /\ Home[c] \notin DOMAIN flights
    /\ callers' = [callers EXCEPT ![c].pc = "waiting"]
    /\ flights' = Store!Insert(flights, Home[c],
          [pc |-> "admit", request |-> Request[c], interested |-> 1, ended |-> FALSE,
           begun |-> FALSE, manifest |-> Pending, staged |-> {}, target |-> "none",
           answer |-> Pending])
    /\ UNCHANGED <<cancelers, draining, storeVars>>

\* joinFlight does not look at the context of the flight it joins.
JoinFlight(c) ==
    /\ callers[c].pc = "idle"
    /\ Home[c] \in DOMAIN flights
    /\ LET flown == flights[Home[c]].request IN
        \/ /\ flown = Request[c]
           /\ callers' = [callers EXCEPT ![c].pc = "waiting"]
           /\ flights' = [flights EXCEPT ![Home[c]].interested = @ + 1]
        \/ /\ flown # Request[c] /\ flown.scan = Request[c].scan
           /\ Reply(c, Failure(IF flown.key = Request[c].key
                               THEN "idempotency_conflict" ELSE "scan_already_running"))
           /\ UNCHANGED flights
    /\ UNCHANGED <<cancelers, draining, storeVars>>

\* The caller's own context ends while it waits: leaveFlight, which cancels
\* the flight when nobody is interested any more.
WrongLeft(flight) == [flight EXCEPT !.interested = @ - 1]
Left(flight) == [flight EXCEPT !.interested = @ - 1,
                               !.ended = @ \/ flight.interested = 1]

LeaveFlight(c) ==
    /\ callers[c].pc = "waiting"
    /\ Reply(c, Failure("context_ended"))
    /\ flights' = [flights EXCEPT ![Home[c]] = Left(flights[Home[c]])]
    /\ UNCHANGED <<cancelers, draining, storeVars>>

\* runFlight publishes the result to every waiter and forgets the flight under
\* one lock; the deferred calls have released the lease and the session.
Settle(p) ==
    /\ p \in DOMAIN flights /\ flights[p].pc = "settle"
    /\ callers' = [c \in Callers |-> IF c \in Waiting(p)
          THEN [pc |-> "returned", answer |-> flights[p].answer] ELSE callers[c]]
    /\ flights' = Store!Delete(flights, {p})
    /\ UNCHANGED <<cancelers, draining, storeVars>>

-----------------------------------------------------------------------------
(* The leader: execute *)

At(p, pc) == p \in DOMAIN flights /\ flights[p].pc = pc
Goto(p, pc) == flights' = [flights EXCEPT ![p].pc = pc]
Lead(p) == flights' = [flights EXCEPT ![p].pc = "analyze", ![p].begun = TRUE]
Conclude(p, answer) == flights' = [flights EXCEPT ![p].pc = "settle", ![p].answer = answer]
Alone == UNCHANGED <<callers, cancelers, draining>>
InMemory == Alone /\ UNCHANGED storeVars

\* A store call on the execution context can fail once the context has ended,
\* any store call can when faults are possible, and a transaction that was
\* interrupted while it committed may have committed.
Interrupted(p) == flights[p].ended \/ Faults
Interrupt(p, errors) ==
    \/ flights[p].ended /\ Conclude(p, Failure("context_ended"))
    \/ Faults /\ \E k \in errors : Conclude(p, Failure(k))

WrongAcquire(p) ==
    /\ At(p, "admit")
    /\ p \notin draining
    /\ IF flights[p].ended THEN Conclude(p, Failure("context_ended")) ELSE Goto(p, "prepare")
    /\ InMemory
Acquire(p) ==
    /\ At(p, "admit")
    /\ CASE flights[p].ended -> Conclude(p, Failure("context_ended"))
         [] p \in draining   -> Conclude(p, Failure("persistence_unavailable"))
         [] OTHER            -> Goto(p, "prepare")
    /\ InMemory

Prepare(p) ==
    /\ At(p, "prepare")
    /\ IF flights[p].ended THEN Conclude(p, Failure("context_ended"))
       ELSE Goto(p, "lookup") \/ Conclude(p, Failure("source_unavailable"))
    /\ InMemory

\* What allArtifacts collects: the publication, or nothing when a purge removed
\* the scan since it was read.
Listed(s) == IF s \in DOMAIN publications THEN publications[s].manifest ELSE NoArtifacts

\* Store.Begin reads the repository and the scan first, and compares the
\* source with the registered one.  A scan that exists is answered from its
\* state, by whatever request it was begun.
ExistingAnswer(s) ==
    CASE scans[s].state = "failed"    -> Failure("analysis_failed")
      [] scans[s].state = "cancelled" -> Failure("canceled")
      [] scans[s].state = "running"   -> Failure("orphaned_scan")

Lookup(p) ==
    /\ At(p, "lookup")
    /\ LET s == flights[p].request.scan
           found == Store!ScanVisible(Scope, Repository, s)
       IN \/ ~Store!Visible(Scope, Repository) /\ Conclude(p, Failure("not_found"))
          \/ Store!Visible(Scope, Repository) /\ Conclude(p, Failure("source_unavailable"))
          \/ found /\ scans[s].state = "succeeded" /\ Goto(p, "list")
          \/ found /\ scans[s].state # "succeeded" /\ Conclude(p, ExistingAnswer(s))
          \/ Store!Visible(Scope, Repository) /\ ~found /\ Goto(p, "begin")
          \/ Interrupt(p, StoreErrors)
    /\ InMemory

List(p) ==
    /\ At(p, "list")
    /\ Conclude(p, Success(Listed(flights[p].request.scan))) \/ Interrupt(p, StoreErrors)
    /\ InMemory

\* ... and then begins it.  The record BeginScan returns may be one another
\* process began in between: a running one makes this flight a leader too, a
\* finished one is refused by NewBeginResult as invalid input.
Begin(p) ==
    /\ At(p, "begin")
    /\ LET q == flights[p].request
           outcome == Store!BeginOutcome(Scope, Repository, q.scan, q.key, q.body)
       IN \/ /\ Store!BeginScan(Scope, Repository, q.scan, q.key, q.body)
             /\ Lead(p) \/ Interrupt(p, LostAnswers)
          \/ /\ outcome = "returned"
             /\ IF scans[q.scan].state = "running" THEN Lead(p)
                ELSE Conclude(p, Failure("invalid_input"))
             /\ UNCHANGED storeVars
          \/ /\ outcome \in {"not_found", "idempotency_conflict"}
             /\ Conclude(p, Failure(outcome))
             /\ UNCHANGED storeVars
          \/ /\ outcome = "lifecycle_conflict"
             /\ Conclude(p, Failure("conflict"))
             /\ UNCHANGED storeVars
          \/ Interrupt(p, StoreErrors) /\ UNCHANGED storeVars
    /\ Alone

\* The engines run, or fail; failRunning decides canceled or failed from the
\* execution context and from the kind of the engine's error.
Analyze(p) ==
    /\ At(p, "analyze")
    /\ \/ /\ ~flights[p].ended
          /\ \E m \in Manifests :
                flights' = [flights EXCEPT ![p].pc = "stage", ![p].manifest = m]
       \/ \E target \in IF flights[p].ended THEN {"cancelled"} ELSE Store!FinishedStates :
              flights' = [flights EXCEPT ![p].pc = "finalize", ![p].target = target]
    /\ InMemory

\* failRunning's transaction, on a context of its own that only its timeout
\* ends.  It answers what was recorded, or how recording it failed.
Finalize(p) ==
    /\ At(p, "finalize")
    /\ LET s == flights[p].request.scan
           target == flights[p].target
           reason == IF target = "cancelled" THEN "canceled" ELSE "analysis-failed"
           reported == IF target = "cancelled" THEN "canceled" ELSE "analysis_failed"
           outcome == Store!FinishOutcome(Scope, Repository, s, target, reason)
       IN \/ /\ IF target = "cancelled"
                THEN Store!CancelScan(Scope, Repository, s, reason)
                ELSE Store!FailScan(Scope, Repository, s, reason)
             /\ \/ Conclude(p, Failure(reported))
                \/ Faults /\ \E k \in LostAnswers : Conclude(p, Failure(k))
          \/ /\ outcome # "finished"
             /\ Conclude(p, Failure(CASE outcome = "returned" -> reported
                                      [] outcome = "not_found" -> "not_found"
                                      [] OTHER -> "conflict"))
             /\ UNCHANGED storeVars
          \/ /\ Faults
             /\ \E k \in StoreErrors : Conclude(p, Failure(k))
             /\ UNCHANGED storeVars
    /\ Alone

\* Store.Publish stages one payload per transaction, then publishes.  Whatever
\* goes wrong anywhere in it ends in reconcilePublication: the call itself, an
\* artifact that cannot be opened, a publication that is empty or too large.
Stage(p) ==
    /\ At(p, "stage")
    /\ LET m == flights[p].manifest
           s == flights[p].request.scan
           left == DOMAIN m.artifacts \ flights[p].staged
       IN \/ \E a \in left, c \in Contents :
               /\ Store!StagePayload(Scope, Repository, s, m.artifacts[a], c)
               /\ \/ flights' = [flights EXCEPT ![p].staged = @ \cup {a},
                                   ![p].pc = IF left = {a} THEN "publish" ELSE "stage"]
                  \/ Interrupted(p) /\ Goto(p, "reconcile")
          \/ Goto(p, "reconcile") /\ UNCHANGED storeVars
    /\ Alone

\* PublishScan runs serializable: another transaction may make it fail.
Publish(p) ==
    /\ At(p, "publish")
    /\ LET m == flights[p].manifest
           s == flights[p].request.scan
           outcome == Store!PublishOutcome(Scope, Repository, s, m)
       IN \/ /\ Store!PublishScan(Scope, Repository, s, m, TRUE)
             /\ Goto(p, "confirm") \/ (Interrupted(p) /\ Goto(p, "reconcile"))
          \/ outcome = "already_present" /\ Goto(p, "confirm") /\ UNCHANGED storeVars
          \/ Goto(p, "reconcile") /\ UNCHANGED storeVars
    /\ Alone

\* publishedResult and reconcilePublication both read the durable scan and
\* list its artifacts.  A published scan is a success only if what they find
\* is the expected publication.
WrongPublishedAnswer(p) == Success(flights[p].manifest)
PublishedAnswer(p) ==
    IF Listed(flights[p].request.scan) = flights[p].manifest
    THEN Success(flights[p].manifest) ELSE Failure("integrity_failure")

Confirm(p) ==
    /\ At(p, "confirm")
    /\ \/ flights[p].request.scan \in DOMAIN publications /\ Goto(p, "compare")
       \/ flights[p].request.scan \notin DOMAIN publications /\ Goto(p, "reconcile")
       \/ Interrupted(p) /\ Goto(p, "reconcile")
    /\ InMemory

Compare(p) ==
    /\ At(p, "compare")
    /\ \/ Conclude(p, PublishedAnswer(p))
       \/ Interrupted(p) /\ Goto(p, "reconcile")
    /\ InMemory

WrongReconciledAnswer(state) == Failure("analysis_failed")
ReconciledAnswer(state) ==
    CASE state = "cancelled" -> Failure("canceled")
      [] state = "failed"    -> Failure("analysis_failed")
      [] OTHER               -> Failure("ambiguous")

\* It runs on a context of its own, which only a timeout ends.
Reconcile(p) ==
    /\ At(p, "reconcile")
    /\ LET s == flights[p].request.scan
           state == IF Store!ScanVisible(Scope, Repository, s)
                    THEN scans[s].state ELSE "missing"
       IN \/ state = "succeeded" /\ Goto(p, "verify")
          \/ state # "succeeded" /\ Conclude(p, ReconciledAnswer(state))
          \/ Faults /\ Conclude(p, Failure("ambiguous"))
    /\ InMemory

Verify(p) ==
    /\ At(p, "verify")
    /\ \/ Conclude(p, PublishedAnswer(p))
       \/ Faults /\ Conclude(p, Failure("ambiguous"))
    /\ InMemory

FlightNext(p) ==
    \/ Acquire(p) \/ Prepare(p) \/ Lookup(p) \/ List(p) \/ Begin(p) \/ Analyze(p)
    \/ Finalize(p) \/ Stage(p) \/ Publish(p) \/ Confirm(p) \/ Compare(p)
    \/ Reconcile(p) \/ Verify(p) \/ Settle(p)

-----------------------------------------------------------------------------
(* CancelScan, drain, crash, and everybody else at the store *)

\* Store.Cancel, then cancelFlight on the flights of this process only.  When
\* the answer of the store is lost no flight is told.
CancelStore(c) ==
    /\ cancelers[c].pc = "idle"
    /\ LET s == Request[c].scan
           outcome == Store!FinishOutcome(Scope, Repository, s, "cancelled", "caller-canceled")
       IN \/ /\ Store!CancelScan(Scope, Repository, s, "caller-canceled")
             /\ cancelers' = [cancelers EXCEPT ![c].pc = "signal"]
          \/ /\ outcome = "returned"
             /\ cancelers' = [cancelers EXCEPT ![c].pc = "signal"]
             /\ UNCHANGED storeVars
          \/ /\ outcome \in {"not_found", "lifecycle_conflict"}
             /\ cancelers' = [cancelers EXCEPT ![c] = [pc |-> "returned", answer |->
                   Failure(IF outcome = "not_found" THEN "not_found" ELSE "conflict")]]
             /\ UNCHANGED storeVars
          \/ /\ Faults
             /\ \E k \in StoreErrors :
                /\ cancelers' = [cancelers EXCEPT ![c] = [pc |-> "returned",
                                                          answer |-> Failure(k)]]
                /\ \/ /\ k \in LostAnswers
                      /\ Store!CancelScan(Scope, Repository, s, "caller-canceled")
                   \/ UNCHANGED storeVars
    /\ UNCHANGED <<flights, callers, draining>>

CancelFlight(c) ==
    /\ cancelers[c].pc = "signal"
    /\ cancelers' = [cancelers EXCEPT ![c] = [pc |-> "returned", answer |-> Failure("canceled")]]
    /\ flights' = IF /\ Home[c] \in DOMAIN flights
                     /\ flights[Home[c]].request.scan = Request[c].scan
                  THEN [flights EXCEPT ![Home[c]].ended = TRUE] ELSE flights
    /\ UNCHANGED <<callers, draining, storeVars>>

\* The runtime drains: it admits no more work, and when the drain timeout
\* expires it cancels the leases of the work in flight.
Drain(p) ==
    /\ p \in Drainable \ draining
    /\ draining' = draining \cup {p}
    /\ UNCHANGED <<flights, callers, cancelers, storeVars>>

CancelWork(p) ==
    /\ p \in draining /\ p \in DOMAIN flights
    /\ flights[p].pc # "admit" /\ ~flights[p].ended
    /\ flights' = [flights EXCEPT ![p].ended = TRUE]
    /\ InMemory

\* The process stops: its flights and the calls waiting in it are gone.  It
\* restarts with an empty flight map.
Crash(p) ==
    /\ Faults
    /\ p \in DOMAIN flights
    /\ flights' = Store!Delete(flights, {p})
    /\ callers' = [c \in Callers |-> IF c \in Waiting(p)
          THEN [callers[c] EXCEPT !.pc = "crashed"] ELSE callers[c]]
    /\ UNCHANGED <<cancelers, draining, storeVars>>

Environment ==
    /\ \/ \E k \in Keys, src \in Sources : Store!RegisterRepository(Scope, Repository, k, src)
       \/ /\ Maintained
          /\ \/ Store!ArchiveRepository(Scope, Repository)
             \/ Store!MarkRepositoryForPurge(Scope, Repository)
             \/ \E B \in SUBSET Scans : Store!PurgeRepositoryBatch(Scope, Repository, B)
             \/ Store!Collect
             \/ Store!DayPasses
    /\ UNCHANGED serviceVars

ServiceNext ==
    \/ \E c \in Callers : StartFlight(c) \/ JoinFlight(c) \/ LeaveFlight(c)
    \/ \E p \in Slots : FlightNext(p) \/ Drain(p) \/ CancelWork(p) \/ Crash(p)
    \/ \E c \in Cancelers : CancelStore(c) \/ CancelFlight(c)
    \/ Environment

ServiceSpec == ServiceInit /\ [][ServiceNext]_allVars

\* Every call the leader makes returns: the store's within its timeouts, the
\* engines because they run over a finite repository.
ServiceFairness == \A p \in Slots : WF_allVars(FlightNext(p))
FairServiceSpec == ServiceSpec /\ ServiceFairness

-----------------------------------------------------------------------------
(* Properties *)

\* The flight map, the calls and the drained slots are well formed.
FlightType ==
    [pc : FlightSteps, request : RequestType, interested : Nat,
     ended : BOOLEAN, begun : BOOLEAN, manifest : Manifests \cup {Pending},
     staged : SUBSET Artifacts, target : Store!FinishedStates \cup {"none"},
     answer : Answers]

ServiceTypeOK ==
    /\ DOMAIN flights \subseteq Slots
    /\ \A p \in DOMAIN flights : flights[p] \in FlightType
    /\ callers \in [Callers -> [pc : {"idle", "waiting", "returned", "crashed"},
                                answer : Answers]]
    /\ cancelers \in [Cancelers -> [pc : {"idle", "signal", "returned"}, answer : Answers]]
    /\ draining \subseteq Slots

\* An answer is a statement about the durable scan, and it stays true: the
\* publication a caller was shown is the one stored, a scan reported failed or
\* canceled never becomes a success.  Lost answers, retries by other
\* processes, cancellation and the collector included; only a purge takes the
\* scan away.
Purged == audit[<<"purge-repository-batch", Repository>>] > 0

AnswerHolds(s, answer) ==
    /\ answer.kind = "success" =>
          s \in DOMAIN publications /\ publications[s].manifest = answer.manifest
    /\ answer.kind = "analysis_failed" => s \in DOMAIN scans /\ scans[s].state = "failed"
    /\ answer.kind = "canceled" => s \in DOMAIN scans /\ scans[s].state = "cancelled"

AnswersDurable ==
    Purged \/ /\ \A c \in Callers : AnswerHolds(Request[c].scan, callers[c].answer)
              /\ \A c \in Cancelers : AnswerHolds(Request[c].scan, cancelers[c].answer)

\* A waiting call always waits for a flight of its own request, the flight
\* counts exactly the calls that wait for it, and a flight whose last caller
\* left is canceled (joinFlight, leaveFlight, runFlight under one mutex).
FlightsServeCallers ==
    /\ \A c \in Callers : callers[c].pc = "waiting" =>
          Home[c] \in DOMAIN flights /\ flights[Home[c]].request = Request[c]
    /\ \A p \in DOMAIN flights :
          /\ flights[p].interested = Cardinality(Waiting(p))
          /\ Waiting(p) = {} => flights[p].ended

\* A leader that gives up while its scan is still running claims nothing about
\* it: it answers that the publication is ambiguous or how the store failed it
\* (execute, failRunning, reconcilePublication), never that the scan failed,
\* was canceled, is not there or belongs to somebody else.  That does not mean
\* that the caller is told to try again: a finalization that failed in a way
\* nobody recognises is answered as not retryable.  When a purge took the scan
\* of a publication that is being confirmed, and another call registered and
\* began it anew, the leader reports an integrity failure.
Unsettled == StoreErrors \cup {"ambiguous"}

NeverSilentlyOrphaned ==
    [][\A p \in DOMAIN flights :
          LET s == flights[p].request.scan IN
          /\ flights[p].pc \in LeaderSteps /\ p \in DOMAIN flights'
          /\ flights'[p].pc = "settle" /\ Store!Running(s)'
          => \/ flights'[p].answer.kind \in Unsettled
             \/ flights'[p].answer.kind = "integrity_failure" /\ Purged]_allVars

\* A success is only ever reported for a scan whose every artifact can be
\* read back with the right bytes at that moment.
SuccessesReadable ==
    [][\A c \in Callers :
          callers[c].pc = "waiting" /\ callers'[c].answer.kind = "success"
          /\ ~Purged' =>
          \A a \in DOMAIN callers'[c].answer.manifest.artifacts :
              /\ a \in DOMAIN envelopes'
              /\ envelopes'[a].payload \in DOMAIN payloads'
              /\ Hash[payloads'[envelopes'[a].payload]]
                    = callers'[c].answer.manifest.artifacts[a]]_allVars

\* Every call returns, however the store, the collector and the other calls
\* behave, unless its process crashes.
CallersReturn ==
    \A c \in Callers : callers[c].pc = "waiting" ~> callers[c].pc # "waiting"

-----------------------------------------------------------------------------
(* What the documents say and the code does not do *)

\* A durable running scan has one leader; a second process that asks for it
\* gets orphaned_scan.
OneLeader ==
    \A p, q \in DOMAIN flights :
        /\ flights[p].pc \in LeaderSteps /\ flights[q].pc \in LeaderSteps
        /\ flights[p].request.scan = flights[q].request.scan
        => p = q
=============================================================================
