--------------------------- MODULE ScanServiceProofs ---------------------------
(***************************************************************************)
(* Theorems about ScanService for every value of its constants.            *)
(*                                                                         *)
(* Everything the service does to the store is a transaction of the store, *)
(* so whatever PersistenceStoreProofs proves of the store holds under the  *)
(* service (Facts); the invariants here add what flights and callers may   *)
(* rely on between two transactions.                                       *)
(***************************************************************************)
EXTENDS ScanService, FiniteSetTheorems, TLAPS

Facts == INSTANCE PersistenceStoreProofs

-----------------------------------------------------------------------------
(* The store as a component *)

\* What the theorems about the store assume, in their words.
LEMMA Assumed ==
    /\ Hash \in [Contents -> Payloads]
    /\ Manifests \subseteq Facts!ManifestType /\ \A m \in Manifests : Facts!ValidGraph(m)
    /\ NoScan \notin Scans /\ NoReason \notin Reasons
    /\ BatchLimit \in Nat \ {0} /\ MaxRegistrations \in Nat /\ MaxCollections \in Nat
  BY StoreAssumption
     DEF Store!ManifestType, Facts!ManifestType, Store!ValidGraph, Facts!ValidGraph

\* ScanService and the proofs name the same transactions.
LEMMA SameInit == Store!Init <=> Facts!Init
  BY DEF Store!Init, Facts!Init, Store!Empty, Facts!Empty, Store!AuditEvents, Facts!AuditEvents,
     Store!RepositoryEvents, Facts!RepositoryEvents, Store!ScanEvents, Facts!ScanEvents,
     Store!CollectEvent, Facts!CollectEvent

LEMMA SameCollect == Store!Collect \/ Store!DayPasses => Facts!Collect \/ Facts!DayPasses
  <1>1. ASSUME NEW C, Store!SelectGarbage(C) PROVE Facts!SelectGarbage(C)
    BY <1>1 DEF Store!SelectGarbage, Facts!SelectGarbage, Store!Referenced, Facts!Referenced,
       Store!CollectEvent, Facts!CollectEvent, Store!Cardinality, Facts!Cardinality
  <1>2. Store!CommitGarbage => Facts!CommitGarbage
    BY DEF Store!CommitGarbage, Facts!CommitGarbage, Store!CandidatesUnreferenced,
       Facts!CandidatesUnreferenced, Store!Referenced, Facts!Referenced, Store!CollectEvent,
       Facts!CollectEvent, Store!Audit, Facts!Audit, Store!Delete, Facts!Delete
  <1>3. Store!AbortGarbage => Facts!AbortGarbage
    BY DEF Store!AbortGarbage, Facts!AbortGarbage
  <1>4. Store!DayPasses => Facts!DayPasses
    BY DEF Store!DayPasses, Facts!DayPasses
  <1> QED
    BY <1>1, <1>2, <1>3, <1>4 DEF Store!Collect, Facts!Collect

LEMMA SameRepository ==
    ASSUME NEW sc, NEW r
    PROVE  /\ \A k, src : Store!RegisterRepository(sc, r, k, src)
                             => Facts!RegisterRepository(sc, r, k, src)
           /\ Store!ArchiveRepository(sc, r) => Facts!ArchiveRepository(sc, r)
           /\ Store!MarkRepositoryForPurge(sc, r) => Facts!MarkRepositoryForPurge(sc, r)
           /\ \A B : Store!PurgeRepositoryBatch(sc, r, B) => Facts!PurgeRepositoryBatch(sc, r, B)
  <1>1. ASSUME NEW k, NEW src, Store!RegisterRepository(sc, r, k, src)
        PROVE  Facts!RegisterRepository(sc, r, k, src)
    BY <1>1 DEF Store!RegisterRepository, Facts!RegisterRepository, Store!RegisterOutcome,
       Facts!RegisterOutcome, Store!KeyTaken, Facts!KeyTaken, Store!SourceTaken,
       Facts!SourceTaken, Store!Visible, Facts!Visible, Store!Insert, Facts!Insert,
       Store!Audit, Facts!Audit
  <1>2. /\ Store!ArchiveRepository(sc, r) => Facts!ArchiveRepository(sc, r)
        /\ Store!MarkRepositoryForPurge(sc, r) => Facts!MarkRepositoryForPurge(sc, r)
    BY DEF Store!ArchiveRepository, Facts!ArchiveRepository, Store!MarkRepositoryForPurge,
       Facts!MarkRepositoryForPurge, Store!ChangeRepositoryState, Facts!ChangeRepositoryState,
       Store!ChangeStateOutcome, Facts!ChangeStateOutcome, Store!Predecessor, Facts!Predecessor,
       Store!Visible, Facts!Visible, Store!Audit, Facts!Audit
  <1>3. ASSUME NEW B, Store!PurgeRepositoryBatch(sc, r, B)
        PROVE  Facts!PurgeRepositoryBatch(sc, r, B)
    BY <1>3 DEF Store!PurgeRepositoryBatch, Facts!PurgeRepositoryBatch, Store!PurgeBatches,
       Facts!PurgeBatches, Store!PurgedRepositories, Facts!PurgedRepositories,
       Store!Visible, Facts!Visible, Store!Delete, Facts!Delete, Store!Audit, Facts!Audit,
       Store!ScansOf, Facts!ScansOf, Store!Cardinality, Facts!Cardinality
  <1> QED
    BY <1>1, <1>2, <1>3

LEMMA SameScan ==
    ASSUME NEW sc, NEW r, NEW s
    PROVE  /\ \A k, q : Store!BeginScan(sc, r, s, k, q)  => Facts!BeginScan(sc, r, s, k, q)
           /\ \A reason : Store!FailScan(sc, r, s, reason)  => Facts!FailScan(sc, r, s, reason)
           /\ \A reason : Store!CancelScan(sc, r, s, reason)  => Facts!CancelScan(sc, r, s, reason)
           /\ \A d, c : Store!StagePayload(sc, r, s, d, c)  => Facts!StagePayload(sc, r, s, d, c)
           /\ \A m, b : Store!PublishScan(sc, r, s, m, b)  => Facts!PublishScan(sc, r, s, m, b)
  BY DEF Store!BeginScan, Facts!BeginScan, Store!BeginOutcome, Facts!BeginOutcome,
     Store!FailScan, Facts!FailScan, Store!CancelScan, Facts!CancelScan, Store!FinishScan,
     Facts!FinishScan, Store!FinishOutcome, Facts!FinishOutcome, Store!StagePayload,
     Facts!StagePayload, Store!StageOutcome, Facts!StageOutcome, Store!PublishScan,
     Facts!PublishScan, Store!PublishOutcome, Facts!PublishOutcome, Store!ScanVisible,
     Facts!ScanVisible, Store!Visible, Facts!Visible, Store!Insert, Facts!Insert,
     Store!Audit, Facts!Audit, Store!ScansOf, Facts!ScansOf

LEMMA SameNext == [Store!Next]_storeVars => [Facts!Next]_(Facts!vars)
  <1>1. Store!Next => Facts!Next
    <2>1. ASSUME NEW sc \in Scopes, Store!ScopeNext(sc) PROVE Facts!ScopeNext(sc)
      <3>1. ASSUME NEW r \in Repositories,
                   \/ \E k \in Keys, src \in Sources : Store!RegisterRepository(sc, r, k, src)
                   \/ Store!ArchiveRepository(sc, r)
                   \/ Store!MarkRepositoryForPurge(sc, r)
                   \/ \E B \in SUBSET Scans : Store!PurgeRepositoryBatch(sc, r, B)
            PROVE  Facts!ScopeNext(sc)
        BY <3>1, SameRepository, Zenon DEF Facts!ScopeNext
      <3>2. ASSUME NEW r \in Repositories, NEW s \in Scans,
                   \/ \E k \in Keys, q \in Requests : Store!BeginScan(sc, r, s, k, q)
                   \/ \E reason \in Reasons :
                         Store!FailScan(sc, r, s, reason) \/ Store!CancelScan(sc, r, s, reason)
                   \/ \E d \in Payloads, c \in Contents : Store!StagePayload(sc, r, s, d, c)
                   \/ \E m \in Manifests, b \in BOOLEAN : Store!PublishScan(sc, r, s, m, b)
            PROVE  Facts!ScopeNext(sc)
        BY <3>2, SameScan, Zenon DEF Facts!ScopeNext
      <3> QED
        BY <2>1, <3>1, <3>2, Zenon DEF Store!ScopeNext
    <2> QED
      BY <2>1, SameCollect DEF Store!Next, Facts!Next
  <1> QED
    BY <1>1 DEF storeVars, Facts!vars

-----------------------------------------------------------------------------
(* What the service relies on in the store *)

\* Only one repository is ever registered through the service.
StoreInv == Facts!Consistent /\ Facts!OnlyRepository(Scope, Repository)

LEMMA ScopeNames == Scope \in Scopes /\ Repository \in Repositories
  BY StoreAssumption DEF Scope, Repository

\* Rows of the tables, and the certificate of every scan that succeeded.
LEMMA StoreRows ==
    ASSUME StoreInv
    PROVE  /\ \A s \in DOMAIN scans :
                /\ s \in Scans /\ scans[s].repository = Repository
                /\ Store!ScanVisible(Scope, Repository, s)
                /\ scans[s] \in [repository : Repositories, key : Keys, request : Requests,
                                 state : {"failed", "cancelled", "succeeded", "running"},
                                 reason : Reasons \cup {NoReason}]
           /\ \A s \in DOMAIN publications :
                /\ publications[s].manifest \in Manifests
                /\ s \in DOMAIN scans /\ scans[s].state = "succeeded"
           /\ \A s \in DOMAIN scans : scans[s].state = "succeeded" => s \in DOMAIN publications
  BY Assumed, Facts!OneRepositoryRows
     DEF Facts!OneRepositoryRows, StoreInv, Facts!ScanRow, Facts!TerminalStates,
         Facts!FinishedStates, Facts!ScanVisible, Store!ScanVisible, Facts!Visible, Store!Visible

\* A step that may change the store: one of its transactions, and the only row
\* it may add to the repositories is the one of the service.
StoreStep ==
    /\ [Store!Next]_storeVars
    /\ \A r \in DOMAIN repositories' \ DOMAIN repositories :
          r = Repository /\ repositories'[r].scope = Scope

LEMMA Unchanged == UNCHANGED storeVars => StoreStep
  BY DEF StoreStep, storeVars

LEMMA ScanSteps ==
    ASSUME NEW s \in Scans
    PROVE  /\ \A k \in Keys, q \in Requests :
                Store!BeginScan(Scope, Repository, s, k, q) => StoreStep
           /\ \A reason \in Reasons :
                /\ Store!FailScan(Scope, Repository, s, reason) => StoreStep
                /\ Store!CancelScan(Scope, Repository, s, reason) => StoreStep
           /\ \A d \in Payloads, c \in Contents :
                Store!StagePayload(Scope, Repository, s, d, c) => StoreStep
           /\ \A m \in Manifests :
                Store!PublishScan(Scope, Repository, s, m, TRUE) => StoreStep
  <1> USE ScopeNames
  <1>1. ASSUME NEW k \in Keys, NEW q \in Requests, Store!BeginScan(Scope, Repository, s, k, q)
        PROVE  StoreStep
    <2>1. Store!Next
      BY <1>1, Zenon DEF Store!Next, Store!ScopeNext
    <2> QED
      BY <1>1, <2>1 DEF StoreStep, Store!BeginScan
  <1>2. ASSUME NEW reason \in Reasons, \/ Store!FailScan(Scope, Repository, s, reason)
                                       \/ Store!CancelScan(Scope, Repository, s, reason)
        PROVE  StoreStep
    <2>1. Store!Next
      BY <1>2, Zenon DEF Store!Next, Store!ScopeNext
    <2> QED
      BY <1>2, <2>1 DEF StoreStep, Store!FailScan, Store!CancelScan, Store!FinishScan
  <1>3. ASSUME NEW d \in Payloads, NEW c \in Contents,
               Store!StagePayload(Scope, Repository, s, d, c)
        PROVE  StoreStep
    <2>1. Store!Next
      BY <1>3, Zenon DEF Store!Next, Store!ScopeNext
    <2> QED
      BY <1>3, <2>1 DEF StoreStep, Store!StagePayload
  <1>4. ASSUME NEW m \in Manifests, Store!PublishScan(Scope, Repository, s, m, TRUE)
        PROVE  StoreStep
    <2>1. Store!Next
      BY <1>4, Zenon DEF Store!Next, Store!ScopeNext
    <2>2. DOMAIN repositories' = DOMAIN repositories
      BY <1>4 DEF Store!PublishScan
    <2> QED
      BY <2>1, <2>2 DEF StoreStep
  <1> QED
    BY <1>1, <1>2, <1>3, <1>4

LEMMA EnvironmentStep == Environment => StoreStep
  <1> USE ScopeNames
  <1>1. ASSUME NEW k \in Keys, NEW src \in Sources,
               Store!RegisterRepository(Scope, Repository, k, src)
        PROVE  StoreStep
    <2>1. Store!Next
      BY <1>1, Zenon DEF Store!Next, Store!ScopeNext
    <2>2. repositories' = Store!Insert(repositories, Repository,
            [scope |-> Scope, key |-> k, source |-> src, state |-> "active", current |-> NoScan])
      BY <1>1 DEF Store!RegisterRepository
    <2> QED
      BY <2>1, <2>2 DEF StoreStep, Store!Insert
  <1>2. ASSUME \/ Store!ArchiveRepository(Scope, Repository)
               \/ Store!MarkRepositoryForPurge(Scope, Repository)
        PROVE  StoreStep
    <2>1. Store!Next
      BY <1>2, Zenon DEF Store!Next, Store!ScopeNext
    <2>2. DOMAIN repositories' = DOMAIN repositories
      BY <1>2 DEF Store!ArchiveRepository, Store!MarkRepositoryForPurge,
         Store!ChangeRepositoryState
    <2> QED
      BY <2>1, <2>2 DEF StoreStep
  <1>3. ASSUME NEW B \in SUBSET Scans, Store!PurgeRepositoryBatch(Scope, Repository, B)
        PROVE  StoreStep
    <2>1. Store!Next
      BY <1>3, Zenon DEF Store!Next, Store!ScopeNext
    <2>2. DOMAIN repositories' \subseteq DOMAIN repositories
      BY <1>3 DEF Store!PurgeRepositoryBatch, Store!PurgedRepositories, Store!Delete
    <2> QED
      BY <2>1, <2>2 DEF StoreStep
  <1>4. ASSUME Store!Collect \/ Store!DayPasses PROVE StoreStep
    <2>1. Store!Next
      BY <1>4 DEF Store!Next
    <2>2. UNCHANGED repositories
      BY <1>4 DEF Store!Collect, Store!SelectGarbage, Store!CommitGarbage, Store!AbortGarbage,
         Store!DayPasses
    <2> QED
      BY <2>1, <2>2 DEF StoreStep
  <1> QED
    BY <1>1, <1>2, <1>3, <1>4 DEF Environment

\* What the store keeps for whoever was told of it: a finished scan with its
\* certificate, until a purge is counted.
LEMMA StoreKeeps ==
    ASSUME StoreInv, StoreStep
    PROVE  /\ StoreInv'
           /\ Purged => Purged'
           /\ ~Purged' => \A s \in DOMAIN scans : scans[s].state # "running" =>
                /\ s \in DOMAIN scans' /\ scans'[s] = scans[s]
                /\ s \in DOMAIN publications =>
                      s \in DOMAIN publications' /\ publications'[s] = publications[s]
  <1>1. [Facts!Next]_(Facts!vars)
    BY SameNext DEF StoreStep
  <1>2. /\ StoreInv' /\ (Purged => Purged')
        /\ ~Purged' => \A s \in DOMAIN scans : Facts!Stays(s)
    BY <1>1, ScopeNames, Assumed, Facts!OneRepositoryKeeps
       DEF Facts!OneRepositoryKeeps, StoreInv, StoreStep, Facts!PurgeEvents, Purged
  <1>3. \A s \in DOMAIN scans : scans[s].state # "running" => Facts!Recorded(s)
    BY StoreRows DEF Facts!Recorded, Facts!TerminalStates, Facts!FinishedStates
  <1> QED
    BY <1>2, <1>3 DEF Facts!Stays

-----------------------------------------------------------------------------
(* The inductive invariant *)

\* The steps of a leader that still has the manifest of its engines to publish.
Publishing == {"stage", "publish", "confirm", "compare", "reconcile", "verify"}

\* A flight that has an answer is settling, and what it read from the store is
\* still so when the next step uses it, unless a purge was counted.
FlightInv(p) ==
    LET s == flights[p].request.scan IN
    /\ flights[p] \in FlightType
    /\ flights[p].pc # "settle" => flights[p].answer = Pending
    /\ flights[p].pc \in Publishing => flights[p].manifest \in Manifests
    /\ flights[p].pc = "finalize" => flights[p].target \in Store!FinishedStates
    /\ ~Purged => /\ flights[p].pc \in {"list", "compare", "verify"} => s \in DOMAIN publications
                  /\ AnswerHolds(s, flights[p].answer)

CallerInv(c) ==
    /\ callers[c].pc \in {"idle", "waiting"} => callers[c].answer = Pending
    /\ callers[c].pc = "waiting" =>
          Home[c] \in DOMAIN flights /\ flights[Home[c]].request = Request[c]
    /\ ~Purged => AnswerHolds(Request[c].scan, callers[c].answer)

CancelerInv(c) ==
    LET s == Request[c].scan IN
    ~Purged => /\ cancelers[c].pc = "signal" => s \in DOMAIN scans /\ scans[s].state = "cancelled"
               /\ AnswerHolds(s, cancelers[c].answer)

\* Callers may be infinite; the calls that wait for one flight never are.
Counted(p) ==
    /\ IsFiniteSet(Waiting(p)) /\ flights[p].interested = Cardinality(Waiting(p))
    /\ Waiting(p) = {} => flights[p].ended

ServiceInv ==
    /\ ServiceTypeOK /\ StoreInv
    /\ \A p \in DOMAIN flights : FlightInv(p) /\ Counted(p)
    /\ \A c \in Callers : CallerInv(c)
    /\ \A c \in Cancelers : CancelerInv(c)

LEMMA InvImplies == ServiceInv => ServiceTypeOK /\ AnswersDurable /\ FlightsServeCallers
  BY DEF ServiceInv, AnswersDurable, FlightsServeCallers, CallerInv, CancelerInv, Counted

\* The text of an answer decides what it claims.
LEMMA AnswerKinds ==
    /\ \A m : Success(m).kind = "success" /\ Success(m).manifest = m
    /\ \A k : Failure(k).kind = k
    /\ \A m \in Manifests \cup {NoArtifacts} : Success(m) \in Answers
    /\ \A k \in ErrorKinds : Failure(k) \in Answers
    /\ Pending \in Answers
  BY DEF Success, Failure, Pending, Answers

\* What an answer claims is about finished scans, and these stay.
LEMMA AnswerStays ==
    ASSUME StoreInv, StoreStep, ~Purged', NEW s, NEW a, AnswerHolds(s, a)
    PROVE  AnswerHolds(s, a)'
  <1>1. /\ s \in DOMAIN publications => s \in DOMAIN scans /\ scans[s].state = "succeeded"
        /\ s \in DOMAIN scans /\ scans[s].state # "running" =>
              /\ s \in DOMAIN scans' /\ scans'[s] = scans[s]
              /\ s \in DOMAIN publications =>
                    s \in DOMAIN publications' /\ publications'[s] = publications[s]
    BY StoreRows, StoreKeeps
  <1> QED
    BY <1>1 DEF AnswerHolds

LEMMA PendingHolds == \A s : AnswerHolds(s, Pending)
  BY DEF AnswerHolds, Pending, Failure

-----------------------------------------------------------------------------
(* One step of a leader *)

\* Only the flight of p changes, and not what its callers joined it for.
Only(p) ==
    /\ p \in DOMAIN flights /\ DOMAIN flights' = DOMAIN flights
    /\ \A q \in DOMAIN flights : q # p => flights'[q] = flights[q]
    /\ flights'[p] \in FlightType
    /\ flights'[p].request = flights[p].request
    /\ flights'[p].interested = flights[p].interested
    /\ flights'[p].ended = flights[p].ended

\* What NeverSilentlyOrphaned says of the flight of p.
Honest(p) ==
    flights[p].pc \in LeaderSteps /\ flights'[p].pc = "settle"
    /\ Store!Running(flights[p].request.scan)'
    => \/ flights'[p].answer.kind \in Unsettled
       \/ flights'[p].answer.kind = "integrity_failure" /\ Purged

FlightStep(p) == Only(p) /\ FlightInv(p)' /\ Honest(p) /\ Alone /\ StoreStep

LEMMA FlightFields ==
    ASSUME ServiceInv, NEW p \in DOMAIN flights
    PROVE  /\ flights[p] \in FlightType /\ FlightInv(p)
           /\ flights[p].pc \in FlightSteps
           /\ flights[p].request \in RequestType /\ flights[p].request.scan \in Scans
           /\ flights[p].request.key \in Keys /\ flights[p].request.body \in Requests
           /\ flights[p].ended \in BOOLEAN /\ flights[p].interested \in Nat
           /\ flights[p].manifest \in Manifests \cup {Pending}
           /\ flights[p].answer \in Answers
  BY DEF ServiceInv, FlightInv, FlightType, RequestType

LEMMA Moves ==
    ASSUME ServiceInv, NEW p \in DOMAIN flights
    PROVE  /\ \A pc \in FlightSteps : Goto(p, pc) =>
                /\ Only(p) /\ flights'[p].pc = pc /\ flights'[p].manifest = flights[p].manifest
                /\ flights'[p].target = flights[p].target /\ flights'[p].answer = flights[p].answer
           /\ Lead(p) =>
                /\ Only(p) /\ flights'[p].pc = "analyze" /\ flights'[p].answer = flights[p].answer
           /\ \A a \in Answers : Conclude(p, a) =>
                Only(p) /\ flights'[p].pc = "settle" /\ flights'[p].answer = a
  <1>0. flights[p] \in FlightType
    BY FlightFields
  <1>1. ASSUME NEW pc \in FlightSteps, Goto(p, pc)
        PROVE  /\ Only(p) /\ flights'[p].pc = pc /\ flights'[p].manifest = flights[p].manifest
               /\ flights'[p].target = flights[p].target /\ flights'[p].answer = flights[p].answer
    <2>1. flights' = [flights EXCEPT ![p] = [flights[p] EXCEPT !.pc = pc]]
      BY <1>1 DEF Goto
    <2> QED
      BY <1>0, <2>1 DEF Only, FlightType
  <1>2. ASSUME Lead(p)
        PROVE  /\ Only(p) /\ flights'[p].pc = "analyze"
               /\ flights'[p].answer = flights[p].answer
    <2>1. flights' = [flights EXCEPT ![p] = [flights[p] EXCEPT !.pc = "analyze", !.begun = TRUE]]
      BY <1>2 DEF Lead
    <2> QED
      BY <1>0, <2>1 DEF Only, FlightType, FlightSteps, LeaderSteps
  <1>3. ASSUME NEW a \in Answers, Conclude(p, a)
        PROVE  Only(p) /\ flights'[p].pc = "settle" /\ flights'[p].answer = a
    <2>1. flights' = [flights EXCEPT ![p] = [flights[p] EXCEPT !.pc = "settle", !.answer = a]]
      BY <1>3 DEF Conclude
    <2> QED
      BY <1>0, <2>1 DEF Only, FlightType, FlightSteps
  <1> QED
    BY <1>1, <1>2, <1>3

\* Moving on without an answer keeps the invariant of the flight when the next
\* step finds what it expects.
LEMMA MovesOn ==
    ASSUME ServiceInv, NEW p \in DOMAIN flights, NEW pc \in FlightSteps \ {"settle"},
           Goto(p, pc), Alone, StoreStep, flights[p].pc # "settle",
           pc \in Publishing => flights[p].pc \in Publishing,
           pc # "finalize",
           ~Purged' /\ pc \in {"list", "compare", "verify"} =>
              flights[p].request.scan \in DOMAIN publications'
    PROVE  FlightStep(p)
  <1>1. /\ Only(p) /\ flights'[p].pc = pc /\ flights'[p].manifest = flights[p].manifest
        /\ flights'[p].answer = flights[p].answer
    BY Moves
  <1>2. FlightInv(p)
    BY FlightFields
  <1>3. flights'[p].answer = Pending
    BY <1>1, <1>2 DEF FlightInv
  <1>4. AnswerHolds(flights[p].request.scan, Pending)'
    BY DEF AnswerHolds, Pending, Failure
  <1>5. FlightInv(p)'
    BY <1>1, <1>2, <1>3, <1>4 DEF FlightInv, Only, AnswerHolds, Pending, Failure
  <1> QED
    BY <1>1, <1>5 DEF FlightStep, Honest

\* An answer may be given when it holds after the step, and when it owns up to
\* a scan that is still running.
LEMMA Concludes ==
    ASSUME ServiceInv, NEW p \in DOMAIN flights, NEW a \in Answers,
           Conclude(p, a), Alone, StoreStep,
           NEW s, s = flights[p].request.scan,
           ~Purged' => AnswerHolds(s, a)',
           \/ flights[p].pc \notin LeaderSteps
           \/ ~Store!Running(s)'
           \/ a.kind \in Unsettled
           \/ a.kind = "integrity_failure" /\ Purged
    PROVE  FlightStep(p)
  <1>1. Only(p) /\ flights'[p].pc = "settle" /\ flights'[p].answer = a
    BY Moves
  <1>2. flights'[p].request.scan = s
    BY <1>1 DEF Only
  <1>3. FlightInv(p)'
    BY <1>1, <1>2 DEF FlightInv, Only, Publishing, AnswerHolds
  <1>4. Honest(p)
    BY <1>1, <1>2 DEF Honest, Store!Running
  <1> QED
    BY <1>1, <1>3, <1>4 DEF FlightStep

\* Most failures claim nothing about the scan.
Claimless == ErrorKinds \ {"analysis_failed", "canceled"}

LEMMA Silent ==
    \A s, k : k \in Claimless => AnswerHolds(s, Failure(k))'
  BY DEF Claimless, ErrorKinds, StoreErrors, AnswerHolds, Failure

LEMMA Refuses ==
    ASSUME ServiceInv, NEW p \in DOMAIN flights, NEW k \in Claimless,
           Conclude(p, Failure(k)), Alone, StoreStep,
           \/ flights[p].pc \notin LeaderSteps
           \/ ~(flights[p].request.scan \in DOMAIN scans'
                  /\ scans'[flights[p].request.scan].state = "running")
           \/ k \in Unsettled
    PROVE  FlightStep(p)
  <1>1. PICK s : s = flights[p].request.scan
    OBVIOUS
  <1>2. PICK a \in Answers : a = Failure(k) /\ a.kind = k
    BY AnswerKinds DEF Claimless
  <1>3. AnswerHolds(s, a)'
    BY <1>2, Silent
  <1> QED
    BY <1>1, <1>2, <1>3, Concludes DEF Store!Running

LEMMA InterruptStep ==
    ASSUME ServiceInv, NEW p \in DOMAIN flights, Alone, StoreStep,
           Interrupt(p, StoreErrors) \/ Interrupt(p, LostAnswers),
           flights[p].pc \notin LeaderSteps
    PROVE  FlightStep(p)
  <1>1. PICK k \in StoreErrors \cup {"context_ended"} : Conclude(p, Failure(k))
    BY DEF Interrupt, StoreErrors, LostAnswers
  <1> QED
    BY <1>1, Refuses DEF Claimless, ErrorKinds, StoreErrors

LEMMA AcquireStep ==
    ASSUME ServiceInv, NEW p \in Slots, Acquire(p) PROVE FlightStep(p)
  <1>1. /\ p \in DOMAIN flights /\ flights[p].pc = "admit" /\ Alone /\ StoreStep
        /\ flights[p].pc \notin LeaderSteps
    BY Unchanged DEF Acquire, At, InMemory, LeaderSteps
  <1>2. \/ \E k \in {"context_ended", "persistence_unavailable"} : Conclude(p, Failure(k))
        \/ Goto(p, "prepare")
    BY DEF Acquire
  <1>3. CASE Goto(p, "prepare")
    BY <1>1, <1>3, MovesOn DEF FlightSteps, Publishing
  <1> QED
    BY <1>1, <1>2, <1>3, Refuses DEF Claimless, ErrorKinds, StoreErrors

LEMMA PrepareStep ==
    ASSUME ServiceInv, NEW p \in Slots, Prepare(p) PROVE FlightStep(p)
  <1>1. /\ p \in DOMAIN flights /\ flights[p].pc = "prepare" /\ Alone /\ StoreStep
        /\ flights[p].pc \notin LeaderSteps
    BY Unchanged DEF Prepare, At, InMemory, LeaderSteps
  <1>2. \/ \E k \in {"context_ended", "source_unavailable"} : Conclude(p, Failure(k))
        \/ Goto(p, "lookup")
    BY DEF Prepare
  <1>3. CASE Goto(p, "lookup")
    BY <1>1, <1>3, MovesOn DEF FlightSteps, Publishing
  <1> QED
    BY <1>1, <1>2, <1>3, Refuses DEF Claimless, ErrorKinds, StoreErrors

\* Lookup answers from the state of a scan that was begun by anybody.
LEMMA LookupStep ==
    ASSUME ServiceInv, NEW p \in Slots, Lookup(p) PROVE FlightStep(p)
  <1>1. /\ p \in DOMAIN flights /\ flights[p].pc = "lookup" /\ InMemory /\ Alone /\ StoreStep
        /\ flights[p].pc \notin LeaderSteps /\ UNCHANGED storeVars
    BY Unchanged DEF Lookup, At, InMemory, LeaderSteps
  <1>2. PICK s : s = flights[p].request.scan
    OBVIOUS
  <1>3. \/ \E k \in {"not_found", "source_unavailable"} : Conclude(p, Failure(k))
        \/ s \in DOMAIN scans /\ scans[s].state = "succeeded" /\ Goto(p, "list")
        \/ /\ s \in DOMAIN scans /\ scans[s].state # "succeeded"
           /\ Conclude(p, ExistingAnswer(s))
        \/ Goto(p, "begin")
        \/ Interrupt(p, StoreErrors)
    BY <1>2 DEF Lookup, Store!ScanVisible
  <1>4. CASE \E k \in {"not_found", "source_unavailable"} : Conclude(p, Failure(k))
    BY <1>1, <1>4, Refuses DEF Claimless, ErrorKinds, StoreErrors
  <1>5. CASE s \in DOMAIN scans /\ scans[s].state = "succeeded" /\ Goto(p, "list")
    <2>1. s \in DOMAIN publications'
      BY <1>1, <1>5, StoreRows DEF ServiceInv, storeVars
    <2> QED
      BY <1>1, <1>2, <1>5, <2>1, MovesOn DEF FlightSteps, Publishing
  <1>6. CASE /\ s \in DOMAIN scans /\ scans[s].state # "succeeded"
             /\ Conclude(p, ExistingAnswer(s))
    <2>1. scans[s].state \in {"failed", "cancelled", "running"}
      BY <1>6, StoreRows DEF ServiceInv
    <2>2. PICK a : a = ExistingAnswer(s)
      OBVIOUS
    <2>3. \/ a = Failure("analysis_failed") /\ scans[s].state = "failed"
          \/ a = Failure("canceled") /\ scans[s].state = "cancelled"
          \/ a = Failure("orphaned_scan")
      BY <2>1, <2>2 DEF ExistingAnswer
    <2>4. a \in Answers
      BY <2>3, AnswerKinds DEF ErrorKinds
    <2>5. AnswerHolds(s, a)'
      BY <1>1, <1>6, <2>3, AnswerKinds DEF AnswerHolds, storeVars
    <2> QED
      BY <1>1, <1>2, <1>6, <2>2, <2>4, <2>5, Concludes
  <1>7. CASE Goto(p, "begin")
    BY <1>1, <1>7, MovesOn DEF FlightSteps, Publishing
  <1>8. CASE Interrupt(p, StoreErrors)
    BY <1>1, <1>8, InterruptStep
  <1> QED
    BY <1>3, <1>4, <1>5, <1>6, <1>7, <1>8

LEMMA ListedRows ==
    ASSUME StoreInv, NEW s PROVE Listed(s) \in Manifests \cup {NoArtifacts}
  BY StoreRows DEF Listed

LEMMA ListStep ==
    ASSUME ServiceInv, NEW p \in Slots, List(p) PROVE FlightStep(p)
  <1>1. /\ p \in DOMAIN flights /\ flights[p].pc = "list" /\ InMemory /\ Alone /\ StoreStep
        /\ flights[p].pc \notin LeaderSteps /\ UNCHANGED storeVars
    BY Unchanged DEF List, At, InMemory, LeaderSteps
  <1>2. PICK s : s = flights[p].request.scan
    OBVIOUS
  <1>3. CASE Conclude(p, Success(Listed(s)))
    <2>1. PICK a \in Answers : a = Success(Listed(s))
      BY ListedRows, AnswerKinds DEF ServiceInv
    <2>2. ~Purged => s \in DOMAIN publications
      BY <1>1, <1>2, FlightFields DEF FlightInv
    <2>3. ~Purged' => AnswerHolds(s, a)'
      BY <1>1, <2>1, <2>2, AnswerKinds DEF AnswerHolds, Listed, storeVars, Purged
    <2> QED
      BY <1>1, <1>2, <1>3, <2>1, <2>3, Concludes
  <1>4. CASE Interrupt(p, StoreErrors)
    BY <1>1, <1>4, InterruptStep
  <1> QED
    BY <1>2, <1>3, <1>4 DEF List

LEMMA BeginStep ==
    ASSUME ServiceInv, NEW p \in Slots, Begin(p) PROVE FlightStep(p)
  <1>1. /\ p \in DOMAIN flights /\ flights[p].pc = "begin" /\ Alone
        /\ flights[p].pc \notin LeaderSteps
    BY DEF Begin, At, LeaderSteps
  <1>2. PICK q : q = flights[p].request
    OBVIOUS
  <1>3. q.scan \in Scans /\ q.key \in Keys /\ q.body \in Requests
    BY <1>1, <1>2, FlightFields
  <1>4. /\ StoreStep
        /\ \/ Lead(p)
           \/ Interrupt(p, StoreErrors) \/ Interrupt(p, LostAnswers)
           \/ \E k \in {"invalid_input", "not_found", "idempotency_conflict", "conflict"} :
                 Conclude(p, Failure(k))
    BY <1>1, <1>2, <1>3, ScanSteps, Unchanged DEF Begin
  <1>5. CASE Lead(p)
    <2>1. Only(p) /\ flights'[p].pc = "analyze" /\ flights'[p].answer = Pending
      BY <1>1, <1>5, Moves, FlightFields DEF FlightInv
    <2>2. FlightInv(p)'
      BY <2>1 DEF FlightInv, Only, Publishing, AnswerHolds, Pending, Failure
    <2> QED
      BY <1>1, <1>4, <2>1, <2>2 DEF FlightStep, Honest
  <1> QED
    BY <1>1, <1>4, <1>5, InterruptStep, Refuses DEF Claimless, ErrorKinds, StoreErrors

LEMMA AnalyzeStep ==
    ASSUME ServiceInv, NEW p \in Slots, Analyze(p) PROVE FlightStep(p)
  <1>1. /\ p \in DOMAIN flights /\ flights[p].pc = "analyze" /\ Alone /\ StoreStep
    BY Unchanged DEF Analyze, At, InMemory
  <1>2. flights[p] \in FlightType /\ flights[p].answer = Pending
    BY <1>1, FlightFields DEF FlightInv
  <1>3. CASE \E m \in Manifests :
                flights' = [flights EXCEPT ![p].pc = "stage", ![p].manifest = m]
    <2>1. PICK m \in Manifests :
                flights' = [flights EXCEPT ![p] = [flights[p] EXCEPT !.pc = "stage", !.manifest = m]]
      BY <1>3
    <2>2. /\ Only(p) /\ flights'[p].pc = "stage" /\ flights'[p].manifest = m
          /\ flights'[p].answer = Pending
      BY <1>1, <1>2, <2>1 DEF Only, FlightType, FlightSteps, LeaderSteps
    <2>3. FlightInv(p)'
      BY <2>2 DEF FlightInv, Only, AnswerHolds, Pending, Failure
    <2> QED
      BY <1>1, <2>2, <2>3 DEF FlightStep, Honest
  <1>4. CASE \E target \in Store!FinishedStates :
                flights' = [flights EXCEPT ![p].pc = "finalize", ![p].target = target]
    <2>1. PICK target \in Store!FinishedStates :
                flights' = [flights EXCEPT ![p] =
                              [flights[p] EXCEPT !.pc = "finalize", !.target = target]]
      BY <1>4
    <2>2. /\ Only(p) /\ flights'[p].pc = "finalize" /\ flights'[p].target = target
          /\ flights'[p].answer = Pending
      BY <1>1, <1>2, <2>1 DEF Only, FlightType, FlightSteps, LeaderSteps
    <2>3. FlightInv(p)'
      BY <2>2 DEF FlightInv, Only, Publishing, AnswerHolds, Pending, Failure
    <2> QED
      BY <1>1, <2>2, <2>3 DEF FlightStep, Honest
  <1> QED
    BY <1>1, <1>3, <1>4 DEF Analyze, Store!FinishedStates

\* However the store failed a leader, saying so claims nothing.
LEMMA FailsWith ==
    ASSUME ServiceInv, NEW p \in DOMAIN flights, NEW k \in StoreErrors,
           Conclude(p, Failure(k)), Alone, StoreStep
    PROVE  FlightStep(p)
  <1>1. k \in Claimless /\ k \in Unsettled
    BY DEF Claimless, ErrorKinds, StoreErrors, Unsettled
  <1> QED
    BY <1>1, Refuses

\* Finalize reports what it wrote, or found already written.
LEMMA FinalizeStep ==
    ASSUME ServiceInv, NEW p \in Slots, Finalize(p) PROVE FlightStep(p)
  <1>1. p \in DOMAIN flights /\ flights[p].pc = "finalize" /\ Alone
    BY DEF Finalize, At
  <1>2. PICK s, target : s = flights[p].request.scan /\ target = flights[p].target
    OBVIOUS
  <1>3. s \in Scans /\ target \in {"failed", "cancelled"}
    BY <1>1, <1>2, FlightFields DEF FlightInv, Store!FinishedStates
  <1>4. PICK reason, reported :
           /\ reason = (IF target = "cancelled" THEN "canceled" ELSE "analysis-failed")
           /\ reported = (IF target = "cancelled" THEN "canceled" ELSE "analysis_failed")
    OBVIOUS
  <1>5. reason \in Reasons /\ reported \in {"canceled", "analysis_failed"}
    BY <1>3, <1>4, ServiceAssumption
  <1>6. CASE /\ IF target = "cancelled"
                THEN Store!CancelScan(Scope, Repository, s, reason)
                ELSE Store!FailScan(Scope, Repository, s, reason)
             /\ \/ Conclude(p, Failure(reported))
                \/ \E k \in LostAnswers : Conclude(p, Failure(k))
    <2>1. StoreStep
      BY <1>3, <1>5, <1>6, ScanSteps
    <2>2. s \in DOMAIN scans' /\ scans'[s].state = target
      <3>1. s \in DOMAIN scans /\ scans[s] \in [repository : Repositories, key : Keys,
                 request : Requests, state : {"failed", "cancelled", "succeeded", "running"},
                 reason : Reasons \cup {NoReason}]
        BY <1>6, StoreRows DEF ServiceInv, Store!CancelScan, Store!FailScan, Store!FinishScan,
           Store!FinishOutcome, Store!ScanVisible
      <3>2. scans' = [scans EXCEPT ![s] = [scans[s] EXCEPT !.state = target, !.reason = reason]]
        BY <1>3, <1>6 DEF Store!CancelScan, Store!FailScan, Store!FinishScan
      <3> QED
        BY <3>1, <3>2
    <2>3. CASE Conclude(p, Failure(reported))
      <3>1. PICK a \in Answers : a = Failure(reported) /\ a.kind = reported
        BY <1>5, AnswerKinds DEF ErrorKinds
      <3>2. AnswerHolds(s, a)'
        BY <1>3, <1>4, <2>2, <3>1 DEF AnswerHolds
      <3>3. ~Store!Running(s)'
        BY <1>3, <2>2 DEF Store!Running
      <3> QED
        BY <1>1, <1>2, <2>1, <2>3, <3>1, <3>2, <3>3, Concludes
    <2>4. CASE \E k \in LostAnswers : Conclude(p, Failure(k))
      BY <1>1, <2>1, <2>4, FailsWith DEF LostAnswers, StoreErrors
    <2> QED
      BY <1>6, <2>3, <2>4
  <1>7. CASE UNCHANGED storeVars /\ \E k \in StoreErrors : Conclude(p, Failure(k))
    BY <1>1, <1>7, Unchanged, FailsWith
  <1>8. CASE /\ UNCHANGED storeVars
             /\ LET outcome == Store!FinishOutcome(Scope, Repository, s, target, reason) IN
                /\ outcome # "finished"
                /\ Conclude(p, Failure(CASE outcome = "returned" -> reported
                                         [] outcome = "not_found" -> "not_found"
                                         [] OTHER -> "conflict"))
    <2>1. PICK outcome : outcome = Store!FinishOutcome(Scope, Repository, s, target, reason)
      OBVIOUS
    <2>2. /\ outcome \in {"returned", "not_found", "lifecycle_conflict"}
          /\ s \in DOMAIN scans => scans[s].state # "running"
          /\ outcome = "returned" => s \in DOMAIN scans /\ scans[s].state = target
      BY <1>8, <2>1, StoreRows DEF ServiceInv, Store!FinishOutcome, Store!ScanVisible
    <2>3. PICK k \in {reported, "not_found", "conflict"} :
             Conclude(p, Failure(k)) /\ (k = reported => outcome = "returned")
      BY <1>5, <1>8, <2>1, <2>2
    <2>4. PICK a \in Answers : a = Failure(k) /\ a.kind = k
      BY <1>5, AnswerKinds DEF ErrorKinds
    <2>5. AnswerHolds(s, a)'
      BY <1>3, <1>4, <1>8, <2>2, <2>3, <2>4 DEF AnswerHolds, storeVars
    <2>6. ~Store!Running(s)'
      BY <1>8, <2>2 DEF Store!Running, storeVars
    <2> QED
      BY <1>1, <1>2, <1>8, <2>3, <2>4, <2>5, <2>6, Unchanged, Concludes
  <1> QED
    BY <1>1, <1>2, <1>4, <1>6, <1>7, <1>8, Zenon DEF Finalize

LEMMA StageStep ==
    ASSUME ServiceInv, NEW p \in Slots, Stage(p) PROVE FlightStep(p)
  <1>1. p \in DOMAIN flights /\ flights[p].pc = "stage" /\ Alone
    BY DEF Stage, At
  <1>2. PICK s, m : s = flights[p].request.scan /\ m = flights[p].manifest
    OBVIOUS
  <1>3. /\ flights[p] \in FlightType /\ flights[p].answer = Pending
        /\ s \in Scans /\ m \in Manifests
    BY <1>1, <1>2, FlightFields DEF FlightInv, Publishing
  <1>4. \A a \in DOMAIN m.artifacts : a \in Artifacts /\ m.artifacts[a] \in Payloads
    BY <1>3, StoreAssumption DEF Store!ManifestType
  <1>5. CASE UNCHANGED storeVars /\ Goto(p, "reconcile")
    BY <1>1, <1>5, Unchanged, MovesOn DEF FlightSteps, LeaderSteps, Publishing
  <1>6. CASE \E a \in DOMAIN m.artifacts \ flights[p].staged, c \in Contents :
               /\ Store!StagePayload(Scope, Repository, s, m.artifacts[a], c)
               /\ \/ flights' = [flights EXCEPT ![p].staged = @ \cup {a},
                       ![p].pc = IF DOMAIN m.artifacts \ flights[p].staged = {a}
                                 THEN "publish" ELSE "stage"]
                  \/ Goto(p, "reconcile")
    <2>1. PICK a \in DOMAIN m.artifacts, c \in Contents :
               /\ Store!StagePayload(Scope, Repository, s, m.artifacts[a], c)
               /\ \/ flights' = [flights EXCEPT ![p].staged = @ \cup {a},
                       ![p].pc = IF DOMAIN m.artifacts \ flights[p].staged = {a}
                                 THEN "publish" ELSE "stage"]
                  \/ Goto(p, "reconcile")
      BY <1>6
    <2>2. StoreStep
      BY <1>3, <1>4, <2>1, ScanSteps
    <2>3. CASE Goto(p, "reconcile")
      BY <1>1, <2>2, <2>3, MovesOn DEF FlightSteps, LeaderSteps, Publishing
    <2>4. CASE flights' = [flights EXCEPT ![p].staged = @ \cup {a},
                       ![p].pc = IF DOMAIN m.artifacts \ flights[p].staged = {a}
                                 THEN "publish" ELSE "stage"]
      <3>1. PICK pc \in {"publish", "stage"} : flights' = [flights EXCEPT ![p] =
                 [flights[p] EXCEPT !.staged = @ \cup {a}, !.pc = pc]]
        BY <2>4
      <3>2. /\ Only(p) /\ flights'[p].pc = pc /\ flights'[p].manifest = m
            /\ flights'[p].answer = Pending
        BY <1>1, <1>2, <1>3, <1>4, <3>1 DEF Only, FlightType, FlightSteps, LeaderSteps
      <3>3. FlightInv(p)'
        BY <1>3, <3>2 DEF FlightInv, Only, AnswerHolds, Pending, Failure
      <3> QED
        BY <1>1, <2>2, <3>2, <3>3 DEF FlightStep, Honest
    <2> QED
      BY <2>1, <2>3, <2>4
  <1> QED
    BY <1>1, <1>2, <1>5, <1>6, Zenon DEF Stage

LEMMA PublishStep ==
    ASSUME ServiceInv, NEW p \in Slots, Publish(p) PROVE FlightStep(p)
  <1>1. p \in DOMAIN flights /\ flights[p].pc = "publish" /\ Alone
    BY DEF Publish, At
  <1>2. PICK s, m : s = flights[p].request.scan /\ m = flights[p].manifest
    OBVIOUS
  <1>3. s \in Scans /\ m \in Manifests
    BY <1>1, <1>2, FlightFields DEF FlightInv, Publishing
  <1>4. \/ Store!PublishScan(Scope, Repository, s, m, TRUE)
        \/ UNCHANGED storeVars
    BY <1>2, Zenon DEF Publish
  <1>5. Goto(p, "confirm") \/ Goto(p, "reconcile")
    BY Zenon DEF Publish
  <1>6. StoreStep
    BY <1>3, <1>4, ScanSteps, Unchanged
  <1> QED
    BY <1>1, <1>5, <1>6, MovesOn DEF FlightSteps, LeaderSteps, Publishing

LEMMA ConfirmStep ==
    ASSUME ServiceInv, NEW p \in Slots, Confirm(p) PROVE FlightStep(p)
  <1>1. /\ p \in DOMAIN flights /\ flights[p].pc = "confirm" /\ Alone /\ StoreStep
        /\ UNCHANGED storeVars
    BY Unchanged DEF Confirm, At, InMemory
  <1>2. CASE flights[p].request.scan \in DOMAIN publications /\ Goto(p, "compare")
    BY <1>1, <1>2, MovesOn DEF FlightSteps, LeaderSteps, Publishing, storeVars
  <1>3. CASE Goto(p, "reconcile")
    BY <1>1, <1>3, MovesOn DEF FlightSteps, LeaderSteps, Publishing
  <1> QED
    BY <1>2, <1>3 DEF Confirm

\* The comparison of what was read with what was published: a success only for
\* the publication that is stored, and an integrity failure only when a purge
\* took it away.
LEMMA Compared ==
    ASSUME ServiceInv, NEW p \in DOMAIN flights, flights[p].pc \in {"compare", "verify"},
           Conclude(p, PublishedAnswer(p)), InMemory
    PROVE  FlightStep(p)
  <1>1. PICK s, a : s = flights[p].request.scan /\ a = PublishedAnswer(p)
    OBVIOUS
  <1>2. flights[p].manifest \in Manifests /\ (~Purged => s \in DOMAIN publications)
    BY <1>1, FlightFields DEF FlightInv, Publishing
  <1>3. Alone /\ StoreStep /\ UNCHANGED storeVars
    BY Unchanged DEF InMemory
  <1>4. \/ a = Success(Listed(s)) /\ Listed(s) \in Manifests
        \/ a = Failure("integrity_failure")
    BY <1>1, <1>2 DEF PublishedAnswer
  <1>5. a \in Answers
    BY <1>4, AnswerKinds DEF ErrorKinds
  <1>6. ~Purged' => AnswerHolds(s, a)'
    BY <1>2, <1>3, <1>4, AnswerKinds DEF AnswerHolds, Listed, Purged, storeVars
  <1>7. ~Store!Running(s)' \/ (a.kind = "integrity_failure" /\ Purged)
    <2>1. CASE s \in DOMAIN publications
      <3>1. scans[s].state = "succeeded"
        BY <2>1, StoreRows DEF ServiceInv
      <3> QED
        BY <1>3, <3>1 DEF Store!Running, storeVars
    <2>2. CASE s \notin DOMAIN publications /\ a = Failure("integrity_failure")
      BY <1>2, <2>2, AnswerKinds
    <2>3. CASE s \notin DOMAIN publications /\ a = Success(Listed(s)) /\ Listed(s) \in Manifests
      <3>1. Listed(s) = NoArtifacts /\ NoArtifacts \in Manifests
        BY <2>3 DEF Listed
      <3> QED
        BY <3>1, StoreAssumption DEF NoArtifacts, Store!ManifestType, Store!Empty
    <2> QED
      BY <1>4, <2>1, <2>2, <2>3
  <1> QED
    BY <1>1, <1>3, <1>5, <1>6, <1>7, Concludes

LEMMA CompareStep ==
    ASSUME ServiceInv, NEW p \in Slots, Compare(p) PROVE FlightStep(p)
  <1>1. /\ p \in DOMAIN flights /\ flights[p].pc = "compare" /\ Alone /\ StoreStep /\ InMemory
    BY Unchanged DEF Compare, At, InMemory
  <1>2. CASE Goto(p, "reconcile")
    BY <1>1, <1>2, MovesOn DEF FlightSteps, LeaderSteps, Publishing
  <1> QED
    BY <1>1, <1>2, Compared DEF Compare

LEMMA VerifyStep ==
    ASSUME ServiceInv, NEW p \in Slots, Verify(p) PROVE FlightStep(p)
  <1>1. /\ p \in DOMAIN flights /\ flights[p].pc = "verify" /\ Alone /\ StoreStep /\ InMemory
    BY Unchanged DEF Verify, At, InMemory
  <1>2. CASE Conclude(p, Failure("ambiguous"))
    BY <1>1, <1>2, Refuses DEF Claimless, ErrorKinds, StoreErrors, Unsettled
  <1> QED
    BY <1>1, <1>2, Compared DEF Verify

LEMMA ReconcileStep ==
    ASSUME ServiceInv, NEW p \in Slots, Reconcile(p) PROVE FlightStep(p)
  <1>1. /\ p \in DOMAIN flights /\ flights[p].pc = "reconcile" /\ Alone /\ StoreStep
        /\ UNCHANGED storeVars
    BY Unchanged DEF Reconcile, At, InMemory
  <1>2. PICK s, state :
           /\ s = flights[p].request.scan
           /\ state = IF Store!ScanVisible(Scope, Repository, s) THEN scans[s].state ELSE "missing"
    OBVIOUS
  <1>3. state # "missing" => s \in DOMAIN scans /\ scans[s].state = state
    BY <1>2 DEF Store!ScanVisible
  <1>4. CASE state = "succeeded" /\ Goto(p, "verify")
    <2>1. s \in DOMAIN publications'
      BY <1>1, <1>3, <1>4, StoreRows DEF ServiceInv, storeVars
    <2> QED
      BY <1>1, <1>2, <1>4, <2>1, MovesOn DEF FlightSteps, LeaderSteps, Publishing
  <1>5. CASE Conclude(p, ReconciledAnswer(state))
    <2>1. PICK a : a = ReconciledAnswer(state)
      OBVIOUS
    <2>2. \/ a = Failure("canceled") /\ state = "cancelled"
          \/ a = Failure("analysis_failed") /\ state = "failed"
          \/ a = Failure("ambiguous")
      BY <2>1 DEF ReconciledAnswer
    <2>3. a \in Answers
      BY <2>2, AnswerKinds DEF ErrorKinds
    <2>4. AnswerHolds(s, a)' /\ (~Store!Running(s)' \/ a.kind = "ambiguous")
      BY <1>1, <1>3, <2>2, AnswerKinds DEF AnswerHolds, Store!Running, storeVars
    <2> QED
      BY <1>1, <1>2, <1>5, <2>1, <2>3, <2>4, Concludes DEF Unsettled
  <1>6. CASE Conclude(p, Failure("ambiguous"))
    BY <1>1, <1>6, Refuses DEF Claimless, ErrorKinds, StoreErrors, Unsettled
  <1> QED
    BY <1>2, <1>4, <1>5, <1>6, Zenon DEF Reconcile

\* Every step of a leader before it settles.
LEMMA LeaderStep ==
    ASSUME ServiceInv, NEW p \in Slots, FlightNext(p), ~Settle(p) PROVE FlightStep(p)
  BY AcquireStep, PrepareStep, LookupStep, ListStep, BeginStep, AnalyzeStep, FinalizeStep,
     StageStep, PublishStep, ConfirmStep, CompareStep, ReconcileStep, VerifyStep DEF FlightNext

-----------------------------------------------------------------------------
(* What a step leaves to those it does not name *)

\* A flight whose progress does not change keeps its invariant, whatever
\* happens to the store; its callers and its context may change.
Resting(q) ==
    /\ q \in DOMAIN flights /\ flights'[q] \in FlightType
    /\ flights'[q].pc = flights[q].pc /\ flights'[q].request = flights[q].request
    /\ flights'[q].manifest = flights[q].manifest /\ flights'[q].target = flights[q].target
    /\ flights'[q].answer = flights[q].answer

LEMMA RestingKeeps ==
    ASSUME ServiceInv, StoreStep, NEW q, Resting(q) PROVE FlightInv(q)'
  <1>1. FlightInv(q) /\ StoreInv
    BY DEF ServiceInv, Resting
  <1>2. PICK s, a : s = flights[q].request.scan /\ a = flights[q].answer
    OBVIOUS
  <1>3. s = flights'[q].request.scan /\ a = flights'[q].answer
    BY <1>2 DEF Resting
  <1>4. ASSUME ~Purged'
        PROVE  /\ s \in DOMAIN publications => s \in DOMAIN publications'
               /\ AnswerHolds(s, a)'
    <2>1. ~Purged /\ AnswerHolds(s, a)
      BY <1>1, <1>2, <1>4, StoreKeeps DEF FlightInv
    <2>2. s \in DOMAIN publications => s \in DOMAIN scans /\ scans[s].state # "running"
      BY <1>1, StoreRows
    <2> QED
      BY <1>1, <1>4, <2>1, <2>2, AnswerStays, StoreKeeps
  <1>5. ~Purged' => ~Purged
    BY <1>1, StoreKeeps
  <1> QED
    BY <1>1, <1>2, <1>3, <1>4, <1>5 DEF FlightInv, Resting, AnswerHolds

LEMMA CallerKeeps ==
    ASSUME ServiceInv, StoreStep, NEW c \in Callers, callers'[c] = callers[c],
           callers[c].pc = "waiting" =>
              Home[c] \in DOMAIN flights' /\ flights'[Home[c]].request = flights[Home[c]].request
    PROVE  CallerInv(c)'
  <1>1. CallerInv(c) /\ StoreInv
    BY DEF ServiceInv
  <1>2. PICK s, a : s = Request[c].scan /\ a = callers[c].answer
    OBVIOUS
  <1>3. ~Purged' => AnswerHolds(s, a)'
    BY <1>1, <1>2, AnswerStays, StoreKeeps DEF CallerInv
  <1> QED
    BY <1>1, <1>2, <1>3 DEF CallerInv, AnswerHolds

LEMMA CancelerKeeps ==
    ASSUME ServiceInv, StoreStep, NEW c \in Cancelers, cancelers'[c] = cancelers[c]
    PROVE  CancelerInv(c)'
  <1>1. CancelerInv(c) /\ StoreInv
    BY DEF ServiceInv
  <1>2. PICK s, a : s = Request[c].scan /\ a = cancelers[c].answer
    OBVIOUS
  <1>3. ASSUME ~Purged'
        PROVE  /\ AnswerHolds(s, a)'
               /\ cancelers[c].pc = "signal" => s \in DOMAIN scans' /\ scans'[s].state = "cancelled"
    <2>1. ~Purged
      BY <1>1, <1>3, StoreKeeps
    <2> QED
      BY <1>1, <1>2, <1>3, <2>1, AnswerStays, StoreKeeps DEF CancelerInv
  <1> QED
    BY <1>2, <1>3 DEF CancelerInv, AnswerHolds

\* A call that was not waiting is in no Waiting set.
LEMMA WaitingIn ==
    /\ \A p, c : c \in Waiting(p) <=> c \in Callers /\ Home[c] = p /\ callers[c].pc = "waiting"
    /\ \A p, c : c \in Waiting(p)' <=> c \in Callers /\ Home[c] = p /\ callers'[c].pc = "waiting"
  BY DEF Waiting

\* A success that a waiting call is given is the answer of its flight, and the
\* step that gives it leaves the store alone.
Replies ==
    \A c \in Callers : callers[c].pc = "waiting" /\ callers'[c].answer.kind = "success" =>
        /\ Home[c] \in DOMAIN flights /\ callers'[c].answer = flights[Home[c]].answer
        /\ UNCHANGED storeVars

Candid == \A p \in DOMAIN flights : p \in DOMAIN flights' => Honest(p)

\* What every step of the service does.
Sound == ServiceInv' /\ Replies /\ Candid

LEMMA NotSettling ==
    ASSUME \A p \in DOMAIN flights : p \in DOMAIN flights' => flights'[p].pc = flights[p].pc
    PROVE  Candid
  BY DEF Candid, Honest, LeaderSteps

LEMMA NotReplying ==
    ASSUME ServiceInv,
           \A c \in Callers : callers[c].pc = "waiting" =>
              \/ callers'[c].answer = callers[c].answer
              \/ \E k \in ErrorKinds : callers'[c].answer = Failure(k)
    PROVE  Replies
  <1>1. ASSUME NEW c \in Callers, callers[c].pc = "waiting" PROVE callers'[c].answer.kind # "success"
    <2>1. \/ callers'[c].answer = Failure("pending")
          \/ \E k \in ErrorKinds : callers'[c].answer = Failure(k)
      BY <1>1 DEF ServiceInv, CallerInv, Pending
    <2> QED
      BY <2>1 DEF Failure, ErrorKinds, StoreErrors
  <1> QED
    BY <1>1 DEF Replies

LEMMA LeaderKeeps ==
    ASSUME ServiceInv, NEW p \in DOMAIN flights, FlightStep(p) PROVE Sound
  <1>1. /\ StoreStep /\ StoreInv' /\ Only(p) /\ FlightInv(p)'
        /\ UNCHANGED <<callers, cancelers, draining>>
    BY StoreKeeps DEF FlightStep, ServiceInv, Alone
  <1>2. \A q \in DOMAIN flights : flights'[q] \in FlightType
    BY <1>1 DEF ServiceInv, ServiceTypeOK, Only
  <1>3. ServiceTypeOK'
    BY <1>1, <1>2 DEF ServiceInv, ServiceTypeOK, Only
  <1>4. ASSUME NEW q \in DOMAIN flights PROVE FlightInv(q)' /\ Counted(q)'
    <2>1. FlightInv(q)'
      BY <1>1, <1>2, RestingKeeps DEF Resting, Only
    <2>2. Counted(q)
      BY DEF ServiceInv
    <2>3. Waiting(q)' = Waiting(q)
      BY <1>1 DEF Waiting
    <2>4. flights'[q].interested = flights[q].interested /\ flights'[q].ended = flights[q].ended
      BY <1>1 DEF Only
    <2> QED
      BY <2>1, <2>2, <2>3, <2>4 DEF Counted
  <1>5. ASSUME NEW c \in Callers PROVE CallerInv(c)'
    BY <1>1, CallerKeeps DEF ServiceInv, CallerInv, Only
  <1>6. ASSUME NEW c \in Cancelers PROVE CancelerInv(c)'
    BY <1>1, CancelerKeeps
  <1>7. ServiceInv'
    BY <1>1, <1>3, <1>4, <1>5, <1>6 DEF ServiceInv, Only
  <1>8. Replies
    BY <1>1, NotReplying
  <1>9. Candid
    BY <1>1 DEF Candid, Only, Honest, FlightStep, LeaderSteps
  <1> QED
    BY <1>7, <1>8, <1>9 DEF Sound

-----------------------------------------------------------------------------
(* The callers of a flight *)

\* Who waits for p is decided by the calls of p alone.
LEMMA SameWaiting ==
    ASSUME NEW p, \A c \in Callers : Home[c] = p =>
              (callers'[c].pc = "waiting" <=> callers[c].pc = "waiting")
    PROVE  Waiting(p)' = Waiting(p)
  BY DEF Waiting

LEMMA CountedKeeps ==
    ASSUME NEW p, Counted(p), Waiting(p)' = Waiting(p),
           flights'[p].interested = flights[p].interested,
           flights[p].ended => flights'[p].ended
    PROVE  Counted(p)'
  BY DEF Counted

\* The calls when one of them moves, and the typing of the others.
LEMMA OneCall ==
    ASSUME ServiceTypeOK, NEW c \in Callers, NEW pc \in {"idle", "waiting", "returned", "crashed"},
           NEW a \in Answers, callers' = [callers EXCEPT ![c] = [pc |-> pc, answer |-> a]]
    PROVE  /\ callers' \in [Callers -> [pc : {"idle", "waiting", "returned", "crashed"},
                                        answer : Answers]]
           /\ callers'[c].pc = pc /\ callers'[c].answer = a
           /\ \A d \in Callers : d # c => callers'[d] = callers[d]
  BY DEF ServiceTypeOK

LEMMA CallWaits ==
    ASSUME ServiceTypeOK, NEW c \in Callers, callers' = [callers EXCEPT ![c].pc = "waiting"]
    PROVE  /\ callers' \in [Callers -> [pc : {"idle", "waiting", "returned", "crashed"},
                                        answer : Answers]]
           /\ callers'[c].pc = "waiting" /\ callers'[c].answer = callers[c].answer
           /\ \A d \in Callers : d # c => callers'[d] = callers[d]
  <1>1. callers[c] \in [pc : {"idle", "waiting", "returned", "crashed"}, answer : Answers]
    BY DEF ServiceTypeOK
  <1>2. callers' = [callers EXCEPT ![c] = [callers[c] EXCEPT !.pc = "waiting"]]
    OBVIOUS
  <1> QED
    BY <1>1, <1>2 DEF ServiceTypeOK

LEMMA StartFlightStep ==
    ASSUME ServiceInv, NEW c \in Callers, StartFlight(c)
    PROVE  Sound
  <1> DEFINE h == Home[c]
             new == [pc |-> "admit", request |-> Request[c], interested |-> 1, ended |-> FALSE,
                     begun |-> FALSE, manifest |-> Pending, staged |-> {}, target |-> "none",
                     answer |-> Pending]
  <1>1. /\ callers[c].pc = "idle" /\ h \notin DOMAIN flights
        /\ callers' = [callers EXCEPT ![c].pc = "waiting"]
        /\ flights' = Store!Insert(flights, h, new)
        /\ UNCHANGED <<cancelers, draining, storeVars>>
    BY DEF StartFlight
  <1>2. h \in Slots /\ Request[c] \in RequestType
    BY ServiceAssumption
  <1>3. new \in FlightType
    BY <1>2, AnswerKinds DEF FlightType, FlightSteps
  <1>4. /\ DOMAIN flights' = DOMAIN flights \cup {h} /\ flights'[h] = new
        /\ \A q \in DOMAIN flights : flights'[q] = flights[q]
    BY <1>1 DEF Store!Insert
  <1>5. callers[c].answer = Pending /\ ServiceTypeOK /\ StoreInv /\ CallerInv(c)
    BY <1>1 DEF ServiceInv, CallerInv
  <1>6. /\ callers' \in [Callers -> [pc : {"idle", "waiting", "returned", "crashed"},
                                     answer : Answers]]
        /\ callers'[c].pc = "waiting" /\ callers'[c].answer = Pending
        /\ \A d \in Callers : d # c => callers'[d] = callers[d]
    BY <1>1, <1>5, CallWaits
  <1>7. StoreStep /\ StoreInv'
    BY <1>1, <1>5, Unchanged, StoreKeeps
  <1>8. ServiceTypeOK'
    <2>1. \A q \in DOMAIN flights' : flights'[q] \in FlightType
      BY <1>3, <1>4, <1>5 DEF ServiceTypeOK
    <2> HIDE DEF new
    <2> QED
      BY <1>1, <1>2, <1>4, <1>5, <1>6, <2>1 DEF ServiceTypeOK
  <1>9. ASSUME NEW q \in DOMAIN flights' PROVE FlightInv(q)' /\ Counted(q)'
    <2>1. CASE q = h
      <3>1. Waiting(q)' = {c}
        <4>1. ASSUME NEW d \in Callers, Home[d] = h, callers'[d].pc = "waiting" PROVE d = c
          BY <1>1, <1>6, <4>1 DEF ServiceInv, CallerInv
        <4> QED
          BY <1>6, <2>1, <4>1 DEF Waiting
      <3>2. IsFiniteSet({c}) /\ Cardinality({c}) = 1
        BY FS_Singleton
      <3>3. Counted(q)'
        BY <1>4, <2>1, <3>1, <3>2 DEF Counted
      <3>4. FlightInv(q)'
        BY <1>3, <1>4, <2>1 DEF FlightInv, Publishing, AnswerHolds, Pending, Failure
      <3> QED
        BY <3>3, <3>4
    <2>2. CASE q # h
      <3>1. q \in DOMAIN flights /\ flights'[q] = flights[q] /\ Counted(q)
        BY <1>4, <2>2 DEF ServiceInv
      <3>2. Waiting(q)' = Waiting(q)
        BY <1>6, <2>2, SameWaiting
      <3>3. FlightInv(q)'
        BY <1>5, <1>7, <3>1, RestingKeeps DEF Resting, ServiceTypeOK
      <3> QED
        BY <3>1, <3>2, <3>3, CountedKeeps
    <2> QED
      BY <2>1, <2>2
  <1>10. ASSUME NEW d \in Callers PROVE CallerInv(d)'
    <2>1. CASE d = c
      BY <1>4, <1>6, <2>1 DEF CallerInv, AnswerHolds, Pending, Failure
    <2>2. CASE d # c
      BY <1>4, <1>6, <1>7, <2>2, CallerKeeps DEF ServiceInv, CallerInv
    <2> QED
      BY <2>1, <2>2
  <1>11. ASSUME NEW d \in Cancelers PROVE CancelerInv(d)'
    BY <1>1, <1>7, CancelerKeeps
  <1>12. ServiceInv'
    BY <1>7, <1>8, <1>9, <1>10, <1>11 DEF ServiceInv
  <1>13. Replies
    BY <1>1, <1>6, NotReplying
  <1>14. Candid
    BY <1>4, NotSettling
  <1> QED
    BY <1>12, <1>13, <1>14 DEF Sound

LEMMA JoinFlightStep ==
    ASSUME ServiceInv, NEW c \in Callers, JoinFlight(c) PROVE Sound
  <1> DEFINE h == Home[c]
  <1>1. /\ callers[c].pc = "idle" /\ h \in DOMAIN flights
        /\ UNCHANGED <<cancelers, draining, storeVars>>
    BY DEF JoinFlight
  <1>2. ServiceTypeOK /\ StoreInv /\ StoreStep /\ StoreInv'
    BY <1>1, Unchanged, StoreKeeps DEF ServiceInv
  <1>3. ASSUME NEW d \in Cancelers PROVE CancelerInv(d)'
    BY <1>1, <1>2, CancelerKeeps
  <1>4. CASE /\ flights[h].request = Request[c]
             /\ callers' = [callers EXCEPT ![c].pc = "waiting"]
             /\ flights' = [flights EXCEPT ![h].interested = @ + 1]
    <2>1. /\ callers' \in [Callers -> [pc : {"idle", "waiting", "returned", "crashed"},
                                      answer : Answers]]
          /\ callers'[c].pc = "waiting" /\ callers'[c].answer = callers[c].answer
          /\ \A d \in Callers : d # c => callers'[d] = callers[d]
      BY <1>2, <1>4, CallWaits
    <2>2. flights[h] \in FlightType
      BY <1>1, <1>2 DEF ServiceTypeOK
    <2>3. /\ DOMAIN flights' = DOMAIN flights
          /\ \A q \in DOMAIN flights : q # h => flights'[q] = flights[q]
          /\ flights'[h].interested = flights[h].interested + 1
          /\ flights'[h].ended = flights[h].ended
          /\ Resting(h)
      <3>1. flights' = [flights EXCEPT ![h] =
                           [flights[h] EXCEPT !.interested = flights[h].interested + 1]]
        BY <1>4
      <3> QED
        BY <1>1, <2>2, <3>1 DEF Resting, FlightType
    <2>4. ASSUME NEW q \in DOMAIN flights PROVE Resting(q) /\ FlightInv(q)'
      BY <1>2, <2>3, RestingKeeps DEF Resting, ServiceTypeOK
    <2>5. ASSUME NEW q \in DOMAIN flights PROVE Counted(q)'
      <3>1. Counted(q)
        BY DEF ServiceInv
      <3>2. CASE q = h
        <4>1. Waiting(q)' = Waiting(q) \cup {c} /\ c \notin Waiting(q)
          BY <1>1, <2>1, <3>2 DEF Waiting
        <4>2. IsFiniteSet(Waiting(q)) /\ flights[q].interested = Cardinality(Waiting(q))
          BY <3>1 DEF Counted
        <4>3. /\ IsFiniteSet(Waiting(q) \cup {c})
              /\ Cardinality(Waiting(q) \cup {c}) = Cardinality(Waiting(q)) + 1
          BY <4>1, <4>2, FS_AddElement
        <4> QED
          BY <2>3, <3>2, <4>1, <4>2, <4>3 DEF Counted
      <3>3. CASE q # h
        <4>1. Waiting(q)' = Waiting(q)
          BY <2>1, <3>3, SameWaiting
        <4> QED
          BY <2>3, <3>1, <3>3, <4>1, CountedKeeps
      <3> QED
        BY <3>2, <3>3
    <2>6. ASSUME NEW d \in Callers PROVE CallerInv(d)'
      <3>1. CASE d = c
        <4>1. CallerInv(c) /\ callers[c].answer = Pending
          BY <1>1 DEF ServiceInv, CallerInv
        <4> QED
          BY <1>1, <1>4, <2>1, <2>3, <3>1, <4>1
             DEF CallerInv, Resting, AnswerHolds, Pending, Failure
      <3>2. CASE d # c
        BY <1>2, <2>1, <2>3, <3>2, CallerKeeps DEF ServiceInv, CallerInv, Resting
      <3> QED
        BY <3>1, <3>2
    <2>7. ServiceTypeOK'
      BY <1>1, <1>2, <2>1, <2>3, <2>4 DEF ServiceTypeOK, Resting
    <2>8. ServiceInv'
      BY <1>2, <1>3, <2>3, <2>4, <2>5, <2>6, <2>7 DEF ServiceInv
    <2>9. Replies /\ Candid
      BY <1>1, <2>1, <2>4, NotReplying, NotSettling DEF Resting
    <2> QED
      BY <2>8, <2>9 DEF Sound
  <1>5. CASE /\ \E k \in {"idempotency_conflict", "scan_already_running"} : Reply(c, Failure(k))
             /\ UNCHANGED flights
    <2>1. PICK a : /\ \E k \in {"idempotency_conflict", "scan_already_running"} : a = Failure(k)
                   /\ callers' = [callers EXCEPT ![c] = [pc |-> "returned", answer |-> a]]
      BY <1>5 DEF Reply
    <2>2. a \in Answers /\ \A s : AnswerHolds(s, a)'
      BY <2>1, AnswerKinds, Silent DEF ErrorKinds, Claimless
    <2>3. /\ callers' \in [Callers -> [pc : {"idle", "waiting", "returned", "crashed"},
                                      answer : Answers]]
          /\ callers'[c].pc = "returned" /\ callers'[c].answer = a
          /\ \A d \in Callers : d # c => callers'[d] = callers[d]
      BY <1>2, <2>1, <2>2, OneCall
    <2>4. ASSUME NEW q \in DOMAIN flights PROVE Resting(q) /\ FlightInv(q)'
      BY <1>2, <1>5, RestingKeeps DEF Resting, ServiceTypeOK
    <2>5. ASSUME NEW q \in DOMAIN flights PROVE Counted(q)'
      <3>1. Waiting(q)' = Waiting(q)
        BY <1>1, <2>3, SameWaiting
      <3> QED
        BY <1>5, <3>1, CountedKeeps DEF ServiceInv
    <2>6. ASSUME NEW d \in Callers PROVE CallerInv(d)'
      <3>1. CASE d = c
        BY <2>2, <2>3, <3>1 DEF CallerInv, AnswerHolds
      <3>2. CASE d # c
        BY <1>2, <1>5, <2>3, <3>2, CallerKeeps DEF ServiceInv, CallerInv
      <3> QED
        BY <3>1, <3>2
    <2>7. ServiceTypeOK'
      BY <1>1, <1>2, <1>5, <2>3 DEF ServiceTypeOK
    <2>8. ServiceInv'
      BY <1>2, <1>3, <1>5, <2>4, <2>5, <2>6, <2>7 DEF ServiceInv
    <2>9. Replies /\ Candid
      BY <1>1, <1>5, <2>3, NotReplying, NotSettling
    <2> QED
      BY <2>8, <2>9 DEF Sound
  <1> QED
    BY <1>4, <1>5 DEF JoinFlight

LEMMA LeaveFlightStep ==
    ASSUME ServiceInv, NEW c \in Callers, LeaveFlight(c) PROVE Sound
  <1> DEFINE h == Home[c]
             a == Failure("context_ended")
  <1>1. /\ callers[c].pc = "waiting"
        /\ callers' = [callers EXCEPT ![c] = [pc |-> "returned", answer |-> a]]
        /\ flights' = [flights EXCEPT ![h] = Left(flights[h])]
        /\ UNCHANGED <<cancelers, draining, storeVars>>
    BY DEF LeaveFlight, Reply
  <1>2. ServiceTypeOK /\ StoreInv /\ StoreStep /\ StoreInv'
    BY <1>1, Unchanged, StoreKeeps DEF ServiceInv
  <1>3. h \in DOMAIN flights /\ flights[h] \in FlightType
    BY <1>1 DEF ServiceInv, CallerInv, ServiceTypeOK
  <1>4. a \in Answers /\ \A s : AnswerHolds(s, a)'
    BY AnswerKinds, Silent DEF ErrorKinds, Claimless
  <1>5. /\ callers' \in [Callers -> [pc : {"idle", "waiting", "returned", "crashed"},
                                    answer : Answers]]
        /\ callers'[c].pc = "returned" /\ callers'[c].answer = a
        /\ \A d \in Callers : d # c => callers'[d] = callers[d]
    BY <1>1, <1>2, <1>4, OneCall
  <1>6. /\ IsFiniteSet(Waiting(h)) /\ flights[h].interested = Cardinality(Waiting(h))
        /\ c \in Waiting(h) /\ Waiting(h)' = Waiting(h) \ {c}
    BY <1>1, <1>3, <1>5 DEF ServiceInv, Counted, Waiting
  <1>7. /\ IsFiniteSet(Waiting(h) \ {c})
        /\ Cardinality(Waiting(h) \ {c}) = flights[h].interested - 1
        /\ Cardinality(Waiting(h) \ {c}) \in Nat
        /\ Waiting(h) \ {c} = {} => flights[h].interested = 1
    <2>1. /\ IsFiniteSet(Waiting(h) \ {c})
          /\ Cardinality(Waiting(h) \ {c}) = Cardinality(Waiting(h)) - 1
      BY <1>6, FS_RemoveElement
    <2>2. Cardinality(Waiting(h) \ {c}) \in Nat
      BY <2>1, FS_CardinalityType
    <2>3. Waiting(h) \ {c} = {} => Cardinality(Waiting(h) \ {c}) = 0
      BY FS_EmptySet
    <2>4. flights[h].interested \in Nat
      BY <1>3 DEF FlightType
    <2> QED
      BY <1>6, <2>1, <2>2, <2>3, <2>4
  <1>8. /\ DOMAIN flights' = DOMAIN flights
        /\ \A q \in DOMAIN flights : q # h => flights'[q] = flights[q]
        /\ flights'[h].interested = flights[h].interested - 1
        /\ flights'[h].ended = (flights[h].ended \/ flights[h].interested = 1)
        /\ Resting(h)
    <2>1. flights' = [flights EXCEPT ![h] =
             [flights[h] EXCEPT !.interested = flights[h].interested - 1,
                                !.ended = flights[h].ended \/ flights[h].interested = 1]]
      BY <1>1 DEF Left
    <2>2. flights[h].interested - 1 \in Nat
      BY <1>7
    <2>3. PICK e \in BOOLEAN : e = (flights[h].ended \/ flights[h].interested = 1)
      BY Zenon
    <2> QED
      BY <1>3, <2>1, <2>2, <2>3 DEF Resting, FlightType
  <1>9. ASSUME NEW q \in DOMAIN flights PROVE Resting(q) /\ FlightInv(q)'
    BY <1>2, <1>8, RestingKeeps DEF Resting, ServiceTypeOK
  <1>10. ASSUME NEW q \in DOMAIN flights PROVE Counted(q)'
    <2>1. CASE q = h
      BY <1>6, <1>7, <1>8, <2>1 DEF Counted
    <2>2. CASE q # h
      <3>1. Waiting(q)' = Waiting(q)
        BY <1>5, <2>2, SameWaiting
      <3> QED
        BY <1>8, <2>2, <3>1, CountedKeeps DEF ServiceInv
    <2> QED
      BY <2>1, <2>2
  <1>11. ASSUME NEW d \in Callers PROVE CallerInv(d)'
    <2>1. CASE d = c
      BY <1>4, <1>5, <2>1 DEF CallerInv, AnswerHolds
    <2>2. CASE d # c
      BY <1>2, <1>5, <1>8, <2>2, CallerKeeps DEF ServiceInv, CallerInv, Resting
    <2> QED
      BY <2>1, <2>2
  <1>12. ASSUME NEW d \in Cancelers PROVE CancelerInv(d)'
    BY <1>1, <1>2, CancelerKeeps
  <1>13. ServiceTypeOK'
    BY <1>1, <1>2, <1>5, <1>8, <1>9 DEF ServiceTypeOK, Resting
  <1>14. ServiceInv'
    BY <1>2, <1>8, <1>9, <1>10, <1>11, <1>12, <1>13 DEF ServiceInv
  <1>15. Replies
    BY <1>5, NotReplying DEF ErrorKinds
  <1>16. Candid
    BY <1>9, NotSettling DEF Resting
  <1> QED
    BY <1>14, <1>15, <1>16 DEF Sound

\* A flight that goes, with the calls that wait for it: settled or crashed.
LEMMA FlightGoes ==
    ASSUME ServiceInv, NEW p \in DOMAIN flights, flights' = Store!Delete(flights, {p}),
           UNCHANGED <<cancelers, draining, storeVars>>,
           callers' \in [Callers -> [pc : {"idle", "waiting", "returned", "crashed"},
                                     answer : Answers]],
           \A c \in Callers \ Waiting(p) : callers'[c] = callers[c],
           \A c \in Waiting(p) :
              /\ callers'[c].pc \in {"returned", "crashed"}
              /\ ~Purged => AnswerHolds(Request[c].scan, callers[c].answer)'
    PROVE  ServiceInv' /\ Candid
  <1>1. ServiceTypeOK /\ StoreInv /\ StoreStep /\ StoreInv'
    BY Unchanged, StoreKeeps DEF ServiceInv
  <1>2. /\ DOMAIN flights' = DOMAIN flights \ {p}
        /\ \A q \in DOMAIN flights' : flights'[q] = flights[q]
    BY DEF Store!Delete
  <1>3. ASSUME NEW q \in DOMAIN flights' PROVE FlightInv(q)' /\ Counted(q)'
    <2>1. q \in DOMAIN flights /\ q # p /\ Counted(q)
      BY <1>2 DEF ServiceInv
    <2>2. Waiting(q)' = Waiting(q)
      <3>1. ASSUME NEW c \in Callers, Home[c] = q PROVE callers'[c] = callers[c]
        BY <2>1, <3>1 DEF Waiting
      <3> QED
        BY <3>1, SameWaiting
    <2>3. FlightInv(q)'
      BY <1>1, <1>2, <2>1, RestingKeeps DEF Resting, ServiceTypeOK
    <2> QED
      BY <1>2, <2>1, <2>2, <2>3, CountedKeeps
  <1>4. ASSUME NEW c \in Callers PROVE CallerInv(c)'
    <2>1. CASE c \in Waiting(p)
      BY <2>1 DEF CallerInv, Purged, storeVars
    <2>2. CASE c \notin Waiting(p)
      <3>1. callers[c].pc = "waiting" => Home[c] # p /\ Home[c] \in DOMAIN flights
        BY <2>2 DEF Waiting, ServiceInv, CallerInv
      <3> QED
        BY <1>1, <1>2, <2>2, <3>1, CallerKeeps
    <2> QED
      BY <2>1, <2>2
  <1>5. ASSUME NEW c \in Cancelers PROVE CancelerInv(c)'
    BY <1>1, CancelerKeeps
  <1>6. ServiceTypeOK'
    BY <1>1, <1>2 DEF ServiceTypeOK
  <1>7. Candid
    BY <1>2, NotSettling
  <1> QED
    BY <1>1, <1>3, <1>4, <1>5, <1>6, <1>7 DEF ServiceInv

LEMMA SettleStep ==
    ASSUME ServiceInv, NEW p \in Slots, Settle(p) PROVE Sound
  <1>1. /\ p \in DOMAIN flights
        /\ callers' = [c \in Callers |-> IF c \in Waiting(p)
              THEN [pc |-> "returned", answer |-> flights[p].answer] ELSE callers[c]]
        /\ flights' = Store!Delete(flights, {p})
        /\ UNCHANGED <<cancelers, draining, storeVars>>
    BY DEF Settle
  <1>2. flights[p].answer \in Answers
    BY <1>1, FlightFields
  <1>3. callers' \in [Callers -> [pc : {"idle", "waiting", "returned", "crashed"},
                                 answer : Answers]]
    BY <1>1, <1>2 DEF ServiceInv, ServiceTypeOK
  <1>4. ASSUME NEW c \in Waiting(p)
        PROVE  /\ c \in Callers /\ Home[c] = p
               /\ callers'[c].pc = "returned" /\ callers'[c].answer = flights[p].answer
               /\ ~Purged => AnswerHolds(Request[c].scan, callers[c].answer)'
    <2>1. c \in Callers /\ Home[c] = p /\ Request[c].scan = flights[p].request.scan
      BY DEF Waiting, ServiceInv, CallerInv
    <2>2. ~Purged => AnswerHolds(flights[p].request.scan, flights[p].answer)
      BY <1>1, FlightFields DEF FlightInv
    <2>3. callers'[c].pc = "returned" /\ callers'[c].answer = flights[p].answer
      BY <1>1, <2>1
    <2>4. ~Purged => AnswerHolds(Request[c].scan, callers[c].answer)'
      BY <1>1, <2>1, <2>2, <2>3 DEF AnswerHolds, storeVars
    <2> QED
      BY <2>1, <2>3, <2>4
  <1>5. \A c \in Callers \ Waiting(p) : callers'[c] = callers[c]
    BY <1>1
  <1>6. ServiceInv' /\ Candid
    BY <1>1, <1>3, <1>4, <1>5, FlightGoes
  <1>7. Replies
    <2>1. ASSUME NEW c \in Callers, callers[c].pc = "waiting", c \notin Waiting(p)
          PROVE  callers'[c].answer.kind # "success"
      BY <1>5, <2>1 DEF ServiceInv, CallerInv, Pending, Failure
    <2> QED
      BY <1>1, <1>4, <2>1 DEF Replies
  <1> QED
    BY <1>6, <1>7 DEF Sound

LEMMA CrashStep ==
    ASSUME ServiceInv, NEW p \in Slots, Crash(p) PROVE Sound
  <1>1. /\ p \in DOMAIN flights
        /\ callers' = [c \in Callers |-> IF c \in Waiting(p)
              THEN [callers[c] EXCEPT !.pc = "crashed"] ELSE callers[c]]
        /\ flights' = Store!Delete(flights, {p})
        /\ UNCHANGED <<cancelers, draining, storeVars>>
    BY DEF Crash
  <1>2. \A c \in Callers :
           callers[c] \in [pc : {"idle", "waiting", "returned", "crashed"}, answer : Answers]
    BY DEF ServiceInv, ServiceTypeOK
  <1>3. ASSUME NEW c \in Callers
        PROVE  /\ callers'[c] \in [pc : {"idle", "waiting", "returned", "crashed"},
                                   answer : Answers]
               /\ callers'[c].answer = callers[c].answer
               /\ c \notin Waiting(p) => callers'[c] = callers[c]
               /\ c \in Waiting(p) => callers'[c].pc = "crashed"
    BY <1>1, <1>2
  <1>4. callers' \in [Callers -> [pc : {"idle", "waiting", "returned", "crashed"},
                                 answer : Answers]]
    BY <1>1, <1>3
  <1>5. ASSUME NEW c \in Waiting(p)
        PROVE  c \in Callers /\ AnswerHolds(Request[c].scan, callers[c].answer)'
    <2>1. c \in Callers /\ callers[c].answer = Pending
      BY DEF Waiting, ServiceInv, CallerInv
    <2> QED
      BY <1>3, <2>1 DEF AnswerHolds, Pending, Failure
  <1>6. ServiceInv' /\ Candid
    BY <1>1, <1>3, <1>4, <1>5, FlightGoes
  <1>7. Replies
    BY <1>3, NotReplying
  <1> QED
    BY <1>6, <1>7 DEF Sound

-----------------------------------------------------------------------------
(* CancelScan, drain and everybody else at the store *)

\* A step beside the calls: flights rest, their contexts may end, the store may
\* move, and a canceler that moves accounts for itself.
LEMMA Aside ==
    ASSUME ServiceInv, StoreStep, UNCHANGED callers, DOMAIN flights' = DOMAIN flights,
           \A q \in DOMAIN flights :
              /\ Resting(q) /\ flights'[q].interested = flights[q].interested
              /\ flights[q].ended => flights'[q].ended,
           draining' \subseteq Slots,
           cancelers' \in [Cancelers -> [pc : {"idle", "signal", "returned"}, answer : Answers]],
           \A c \in Cancelers : cancelers'[c] = cancelers[c] \/ CancelerInv(c)'
    PROVE  Sound
  <1>1. ASSUME NEW q \in DOMAIN flights PROVE FlightInv(q)' /\ Counted(q)'
    <2>1. Waiting(q)' = Waiting(q)
      BY SameWaiting
    <2> QED
      BY <2>1, RestingKeeps, CountedKeeps DEF ServiceInv
  <1>2. ASSUME NEW c \in Callers PROVE CallerInv(c)'
    BY CallerKeeps DEF ServiceInv, CallerInv, Resting
  <1>3. ASSUME NEW c \in Cancelers PROVE CancelerInv(c)'
    BY CancelerKeeps
  <1>4. ServiceTypeOK' /\ StoreInv'
    BY StoreKeeps DEF ServiceInv, ServiceTypeOK, Resting
  <1>5. ServiceInv'
    BY <1>1, <1>2, <1>3, <1>4 DEF ServiceInv
  <1>6. Replies /\ Candid
    BY NotReplying, NotSettling DEF Resting
  <1> QED
    BY <1>5, <1>6 DEF Sound

LEMMA RestingUnchanged ==
    ASSUME ServiceTypeOK, UNCHANGED flights
    PROVE  /\ DOMAIN flights' = DOMAIN flights
           /\ \A q \in DOMAIN flights :
                 /\ Resting(q) /\ flights'[q].interested = flights[q].interested
                 /\ flights[q].ended => flights'[q].ended
  BY DEF ServiceTypeOK, Resting

LEMMA RestingEnded ==
    ASSUME ServiceTypeOK, NEW p \in DOMAIN flights, flights' = [flights EXCEPT ![p].ended = TRUE]
    PROVE  /\ DOMAIN flights' = DOMAIN flights
           /\ \A q \in DOMAIN flights :
                 /\ Resting(q) /\ flights'[q].interested = flights[q].interested
                 /\ flights[q].ended => flights'[q].ended
  <1>1. \A q \in DOMAIN flights : flights[q] \in FlightType
    BY DEF ServiceTypeOK
  <1>2. flights' = [flights EXCEPT ![p] = [flights[p] EXCEPT !.ended = TRUE]]
    OBVIOUS
  <1>3. /\ Resting(p) /\ flights'[p].interested = flights[p].interested
        /\ flights'[p].ended
    <2>1. PICK f \in FlightType : f = flights[p]
      BY <1>1
    <2>2. flights'[p] = [f EXCEPT !.ended = TRUE]
      BY <1>2, <2>1
    <2>3. PICK g : g = [f EXCEPT !.ended = TRUE]
      OBVIOUS
    <2>4. /\ g \in FlightType /\ g.pc = f.pc /\ g.request = f.request /\ g.manifest = f.manifest
          /\ g.target = f.target /\ g.answer = f.answer /\ g.interested = f.interested
      BY <2>3 DEF FlightType
    <2>5. g.ended
      BY <2>1, <2>3 DEF FlightType
    <2> QED
      BY <2>1, <2>2, <2>3, <2>4, <2>5 DEF Resting
  <1>4. \A q \in DOMAIN flights : q # p => flights'[q] = flights[q] /\ Resting(q)
    BY <1>1, <1>2 DEF Resting
  <1> QED
    BY <1>2, <1>3, <1>4

LEMMA OneCancel ==
    ASSUME ServiceTypeOK, NEW c \in Cancelers, NEW pc \in {"idle", "signal", "returned"},
           NEW a \in Answers, cancelers' = [cancelers EXCEPT ![c] = [pc |-> pc, answer |-> a]]
    PROVE  /\ cancelers' \in [Cancelers -> [pc : {"idle", "signal", "returned"}, answer : Answers]]
           /\ cancelers'[c].pc = pc /\ cancelers'[c].answer = a
           /\ \A d \in Cancelers : d # c => cancelers'[d] = cancelers[d]
  BY DEF ServiceTypeOK

\* Store.Cancel wrote the cancellation or found its own, and nothing undoes it.
LEMMA CancelStoreStep ==
    ASSUME ServiceInv, NEW c \in Cancelers, CancelStore(c) PROVE Sound
  <1> DEFINE reason == "caller-canceled"
  <1>1. cancelers[c].pc = "idle" /\ UNCHANGED <<flights, callers, draining>>
    BY DEF CancelStore
  <1>2. PICK s : s = Request[c].scan
    OBVIOUS
  <1>3. s \in Scans /\ reason \in Reasons
    BY <1>2, ServiceAssumption DEF RequestType
  <1>4. ServiceTypeOK /\ StoreInv /\ draining' \subseteq Slots
    BY <1>1 DEF ServiceInv, ServiceTypeOK
  <1>5. Store!CancelScan(Scope, Repository, s, reason) => StoreStep
    BY <1>3, ScanSteps
  <1>6. CASE /\ \/ Store!CancelScan(Scope, Repository, s, reason)
                \/ /\ Store!FinishOutcome(Scope, Repository, s, "cancelled", reason) = "returned"
                   /\ UNCHANGED storeVars
             /\ cancelers' = [cancelers EXCEPT ![c].pc = "signal"]
    <2>1. s \in DOMAIN scans' /\ scans'[s].state = "cancelled"
      <3>1. CASE Store!CancelScan(Scope, Repository, s, reason)
        <4>1. s \in DOMAIN scans /\ scans[s] \in [repository : Repositories, key : Keys,
                 request : Requests, state : {"failed", "cancelled", "succeeded", "running"},
                 reason : Reasons \cup {NoReason}]
          BY <1>4, <3>1, StoreRows DEF Store!CancelScan, Store!FinishScan, Store!FinishOutcome,
             Store!ScanVisible
        <4>2. scans' = [scans EXCEPT ![s] = [scans[s] EXCEPT !.state = "cancelled",
                                                            !.reason = reason]]
          BY <3>1 DEF Store!CancelScan, Store!FinishScan
        <4> QED
          BY <4>1, <4>2
      <3>2. CASE /\ Store!FinishOutcome(Scope, Repository, s, "cancelled", reason) = "returned"
                 /\ UNCHANGED storeVars
        BY <3>2 DEF Store!FinishOutcome, Store!ScanVisible, storeVars
      <3> QED
        BY <1>6, <3>1, <3>2
    <2>2. StoreStep
      BY <1>5, <1>6, Unchanged
    <2>3. cancelers[c] \in [pc : {"idle", "signal", "returned"}, answer : Answers]
      BY <1>4 DEF ServiceTypeOK
    <2>4. cancelers' = [cancelers EXCEPT ![c] = [cancelers[c] EXCEPT !.pc = "signal"]]
      BY <1>6
    <2>5. /\ cancelers' \in [Cancelers -> [pc : {"idle", "signal", "returned"}, answer : Answers]]
          /\ cancelers'[c].pc = "signal" /\ cancelers'[c].answer = cancelers[c].answer
          /\ \A d \in Cancelers : d # c => cancelers'[d] = cancelers[d]
      BY <1>4, <2>3, <2>4 DEF ServiceTypeOK
    <2>6. CancelerInv(c)'
      <3>1. PICK a : a = cancelers[c].answer
        OBVIOUS
      <3>2. ~Purged' => AnswerHolds(s, a)'
        BY <1>2, <1>4, <2>2, <3>1, AnswerStays, StoreKeeps DEF ServiceInv, CancelerInv
      <3> QED
        BY <1>2, <2>1, <2>5, <3>1, <3>2 DEF CancelerInv, AnswerHolds
    <2> QED
      BY <1>1, <1>4, <2>2, <2>5, <2>6, RestingUnchanged, Aside
  <1>7. CASE /\ Store!CancelScan(Scope, Repository, s, reason) \/ UNCHANGED storeVars
             /\ \E k \in {"not_found", "conflict"} \cup StoreErrors : cancelers' =
                   [cancelers EXCEPT ![c] = [pc |-> "returned", answer |-> Failure(k)]]
    <2>1. StoreStep
      BY <1>5, <1>7, Unchanged
    <2>2. PICK k \in {"not_found", "conflict"} \cup StoreErrors : cancelers' =
                   [cancelers EXCEPT ![c] = [pc |-> "returned", answer |-> Failure(k)]]
      BY <1>7
    <2>3. PICK a \in Answers : a = Failure(k) /\ AnswerHolds(s, a)'
      BY AnswerKinds, Silent DEF ErrorKinds, StoreErrors, Claimless
    <2>4. /\ cancelers' \in [Cancelers -> [pc : {"idle", "signal", "returned"}, answer : Answers]]
          /\ cancelers'[c].pc = "returned" /\ cancelers'[c].answer = a
          /\ \A d \in Cancelers : d # c => cancelers'[d] = cancelers[d]
      BY <1>4, <2>2, <2>3, OneCancel
    <2>5. CancelerInv(c)'
      BY <1>2, <2>3, <2>4 DEF CancelerInv, AnswerHolds
    <2> QED
      BY <1>1, <1>4, <2>1, <2>4, <2>5, RestingUnchanged, Aside
  <1> QED
    BY <1>2, <1>6, <1>7, Zenon DEF CancelStore

LEMMA CancelFlightStep ==
    ASSUME ServiceInv, NEW c \in Cancelers, CancelFlight(c) PROVE Sound
  <1>1. /\ cancelers[c].pc = "signal"
        /\ cancelers' = [cancelers EXCEPT ![c] = [pc |-> "returned", answer |-> Failure("canceled")]]
        /\ \/ Home[c] \in DOMAIN flights /\ flights' = [flights EXCEPT ![Home[c]].ended = TRUE]
           \/ UNCHANGED flights
        /\ UNCHANGED <<callers, draining, storeVars>>
    BY DEF CancelFlight
  <1>2. ServiceTypeOK /\ StoreStep /\ draining' \subseteq Slots
    BY <1>1, Unchanged DEF ServiceInv, ServiceTypeOK
  <1>3. PICK s, a : s = Request[c].scan /\ a = Failure("canceled")
    OBVIOUS
  <1>4. a \in Answers /\ a.kind = "canceled"
    BY <1>3, AnswerKinds DEF ErrorKinds
  <1>5. ~Purged' => AnswerHolds(s, a)'
    BY <1>1, <1>3, <1>4 DEF ServiceInv, CancelerInv, AnswerHolds, Purged, storeVars
  <1>6. /\ cancelers' \in [Cancelers -> [pc : {"idle", "signal", "returned"}, answer : Answers]]
        /\ cancelers'[c].pc = "returned" /\ cancelers'[c].answer = a
        /\ \A d \in Cancelers : d # c => cancelers'[d] = cancelers[d]
    BY <1>1, <1>2, <1>3, <1>4, OneCancel
  <1>7. CancelerInv(c)'
    BY <1>3, <1>5, <1>6 DEF CancelerInv, AnswerHolds
  <1> QED
    BY <1>1, <1>2, <1>6, <1>7, RestingUnchanged, RestingEnded, Aside

LEMMA DrainStep ==
    ASSUME ServiceInv, NEW p \in Slots, Drain(p) \/ CancelWork(p) PROVE Sound
  <1>1. /\ UNCHANGED <<callers, cancelers, storeVars>>
        /\ \/ p \in DOMAIN flights /\ flights' = [flights EXCEPT ![p].ended = TRUE]
           \/ UNCHANGED flights
        /\ draining' \subseteq draining \cup {p}
    BY DEF Drain, CancelWork, InMemory, Alone
  <1>2. /\ ServiceTypeOK /\ StoreStep /\ draining' \subseteq Slots
        /\ cancelers' \in [Cancelers -> [pc : {"idle", "signal", "returned"}, answer : Answers]]
    BY <1>1, Unchanged DEF ServiceInv, ServiceTypeOK
  <1> QED
    BY <1>1, <1>2, RestingUnchanged, RestingEnded, Aside

LEMMA OthersStep ==
    ASSUME ServiceInv, Environment \/ UNCHANGED allVars PROVE Sound
  <1>1. StoreStep /\ UNCHANGED serviceVars
    BY EnvironmentStep, Unchanged DEF Environment, allVars
  <1>2. UNCHANGED <<callers, cancelers, draining, flights>>
    BY <1>1 DEF serviceVars
  <1>3. /\ ServiceTypeOK /\ draining' \subseteq Slots
        /\ cancelers' \in [Cancelers -> [pc : {"idle", "signal", "returned"}, answer : Answers]]
    BY <1>2 DEF ServiceInv, ServiceTypeOK
  <1> QED
    BY <1>1, <1>2, <1>3, RestingUnchanged, Aside

-----------------------------------------------------------------------------
(* Every step of the service *)

LEMMA StepSound ==
    ASSUME ServiceInv, [ServiceNext]_allVars PROVE Sound
  <1>1. ASSUME NEW c \in Callers, StartFlight(c) \/ JoinFlight(c) \/ LeaveFlight(c) PROVE Sound
    BY <1>1, StartFlightStep, JoinFlightStep, LeaveFlightStep
  <1>2. ASSUME NEW p \in Slots, FlightNext(p) PROVE Sound
    <2>1. CASE Settle(p)
      BY <2>1, SettleStep
    <2>2. CASE ~Settle(p)
      <3>1. FlightStep(p)
        BY <1>2, <2>2, LeaderStep
      <3> QED
        BY <3>1, LeaderKeeps DEF FlightStep, Only
    <2> QED
      BY <2>1, <2>2
  <1>3. ASSUME NEW p \in Slots, Drain(p) \/ CancelWork(p) \/ Crash(p) PROVE Sound
    BY <1>3, DrainStep, CrashStep
  <1>4. ASSUME NEW c \in Cancelers, CancelStore(c) \/ CancelFlight(c) PROVE Sound
    BY <1>4, CancelStoreStep, CancelFlightStep
  <1>5. ASSUME Environment \/ UNCHANGED allVars PROVE Sound
    BY <1>5, OthersStep
  <1> QED
    BY <1>1, <1>2, <1>3, <1>4, <1>5, Zenon DEF ServiceNext

LEMMA StepStore ==
    ASSUME ServiceInv, [ServiceNext]_allVars PROVE StoreStep
  <1>1. ASSUME NEW c \in Callers, StartFlight(c) \/ JoinFlight(c) \/ LeaveFlight(c)
        PROVE  StoreStep
    BY <1>1, Unchanged DEF StartFlight, JoinFlight, LeaveFlight
  <1>2. ASSUME NEW p \in Slots, FlightNext(p) PROVE StoreStep
    <2>1. CASE Settle(p)
      BY <2>1, Unchanged DEF Settle
    <2> QED
      BY <1>2, <2>1, LeaderStep DEF FlightStep
  <1>3. ASSUME NEW p \in Slots, Drain(p) \/ CancelWork(p) \/ Crash(p) PROVE StoreStep
    BY <1>3, Unchanged DEF Drain, CancelWork, Crash, InMemory
  <1>4. ASSUME NEW c \in Cancelers, CancelStore(c) \/ CancelFlight(c) PROVE StoreStep
    <2>1. Request[c].scan \in Scans /\ "caller-canceled" \in Reasons
      BY ServiceAssumption DEF RequestType
    <2>2. \/ Store!CancelScan(Scope, Repository, Request[c].scan, "caller-canceled")
          \/ UNCHANGED storeVars
      BY <1>4, Zenon DEF CancelStore, CancelFlight
    <2> QED
      BY <2>1, <2>2, ScanSteps, Unchanged
  <1>5. ASSUME Environment \/ UNCHANGED allVars PROVE StoreStep
    BY <1>5, EnvironmentStep, Unchanged DEF allVars
  <1> QED
    BY <1>1, <1>2, <1>3, <1>4, <1>5, Zenon DEF ServiceNext

LEMMA InitSound == ServiceInit => ServiceInv
  <1> SUFFICES ASSUME ServiceInit PROVE ServiceInv
    OBVIOUS
  <1>1. Facts!Consistent
    BY SameInit, Assumed, Facts!InitConsistent DEF Facts!InitConsistent, ServiceInit
  <1>2. Facts!OnlyRepository(Scope, Repository)
    BY DEF ServiceInit, Store!Init, Store!Empty, Facts!OnlyRepository
  <1>3. DOMAIN flights = {}
    BY DEF ServiceInit, Store!Empty
  <1>4. ServiceTypeOK
    BY <1>3, AnswerKinds DEF ServiceInit, ServiceTypeOK
  <1>5. (\A c \in Callers : CallerInv(c)) /\ (\A c \in Cancelers : CancelerInv(c))
    BY DEF ServiceInit, CallerInv, CancelerInv, AnswerHolds, Pending, Failure
  <1> QED
    BY <1>1, <1>2, <1>3, <1>4, <1>5 DEF ServiceInv, StoreInv

LEMMA AlwaysSound == ServiceSpec => []ServiceInv
  <1>1. ServiceInv /\ [ServiceNext]_allVars => ServiceInv'
    BY StepSound DEF Sound
  <1> QED
    BY <1>1, InitSound, PTL DEF ServiceSpec

-----------------------------------------------------------------------------
(* What the service promises *)

\* The flight map, the calls and the drained slots are well formed.
THEOREM ServiceTypeCorrect == ServiceSpec => []ServiceTypeOK
  BY AlwaysSound, InvImplies, PTL

\* Whatever flights, cancelers and crashes do, the database sees transactions
\* of the persistence port only, so every theorem about the store holds under
\* the service.
THEOREM ServiceImplementsStore == ServiceSpec => Store!Spec
  <1>1. ServiceInit => Store!Init
    BY DEF ServiceInit
  <1>2. ServiceInv /\ [ServiceNext]_allVars => [Store!Next]_(Store!vars)
    BY StepStore DEF StoreStep, storeVars, Store!vars
  <1> QED
    BY <1>1, <1>2, AlwaysSound, PTL DEF ServiceSpec, Store!Spec

\* What a caller was told about a scan stays true until the repository is
\* purged (publishedResult, reconcilePublication, failRunning, CancelScan).
THEOREM AnswersAlwaysDurable == ServiceSpec => []AnswersDurable
  BY AlwaysSound, InvImplies, PTL

\* A call waits for a flight of its own request, the flight counts its calls,
\* and an abandoned one is canceled (joinFlight, leaveFlight, runFlight).
THEOREM FlightsAlwaysServeCallers == ServiceSpec => []FlightsServeCallers
  BY AlwaysSound, InvImplies, PTL

\* A leader that leaves a scan running claims nothing about it: it says that it
\* does not know, or how the store failed it (failRunning, mapDependencyError,
\* reconcilePublication), unless a purge replaced the scan under it.
THEOREM NeverOrphansSilently == ServiceSpec => NeverSilentlyOrphaned
  <1>1. ServiceInv /\ [ServiceNext]_allVars => [Candid]_allVars
    BY StepSound DEF Sound
  <1>2. Candid => \A p \in DOMAIN flights :
          LET s == flights[p].request.scan IN
          /\ flights[p].pc \in LeaderSteps /\ p \in DOMAIN flights'
          /\ flights'[p].pc = "settle" /\ Store!Running(s)'
          => \/ flights'[p].answer.kind \in Unsettled
             \/ flights'[p].answer.kind = "integrity_failure" /\ Purged
    BY DEF Candid, Honest
  <1> QED
    BY <1>1, <1>2, AlwaysSound, PTL DEF ServiceSpec, NeverSilentlyOrphaned

\* A success names artifacts that can all be read back with the right bytes
\* when it is given (completedResult, publishedResult, runFlight).
THEOREM SuccessesAlwaysReadable == ServiceSpec => SuccessesReadable
  <1> DEFINE Readable == \A c \in Callers :
          callers[c].pc = "waiting" /\ callers'[c].answer.kind = "success"
          /\ ~Purged' =>
          \A a \in DOMAIN callers'[c].answer.manifest.artifacts :
              /\ a \in DOMAIN envelopes'
              /\ envelopes'[a].payload \in DOMAIN payloads'
              /\ Hash[payloads'[envelopes'[a].payload]]
                    = callers'[c].answer.manifest.artifacts[a]
  <1>1. ASSUME ServiceInv, Replies PROVE Readable
    <2> SUFFICES ASSUME NEW c \in Callers, callers[c].pc = "waiting",
                        callers'[c].answer.kind = "success", ~Purged',
                        NEW a \in DOMAIN callers'[c].answer.manifest.artifacts
                 PROVE  /\ a \in DOMAIN envelopes'
                        /\ envelopes'[a].payload \in DOMAIN payloads'
                        /\ Hash[payloads'[envelopes'[a].payload]]
                              = callers'[c].answer.manifest.artifacts[a]
      BY DEF Readable
    <2>1. /\ Home[c] \in DOMAIN flights /\ callers'[c].answer = flights[Home[c]].answer
          /\ UNCHANGED storeVars
      BY <1>1 DEF Replies
    <2>2. ~Purged
      BY <2>1 DEF Purged, storeVars
    <2>3. PICK s : /\ s \in DOMAIN publications
                   /\ publications[s].manifest = callers'[c].answer.manifest
      BY <1>1, <2>1, <2>2 DEF ServiceInv, FlightInv, AnswerHolds
    <2>4. Facts!PublishedWhole /\ Facts!PayloadsExact /\ Facts!EnvelopesBacked
      BY <1>1 DEF ServiceInv, StoreInv, Facts!Consistent
    <2>5. /\ a \in DOMAIN envelopes
          /\ envelopes[a].payload = callers'[c].answer.manifest.artifacts[a]
      BY <2>3, <2>4 DEF Facts!PublishedWhole, Facts!EnvelopesOf, Facts!ManifestOf
    <2>6. /\ envelopes[a].payload \in DOMAIN payloads
          /\ Hash[payloads[envelopes[a].payload]] = envelopes[a].payload
      BY <2>4, <2>5 DEF Facts!PayloadsExact, Facts!EnvelopesBacked
    <2> QED
      BY <2>1, <2>5, <2>6 DEF storeVars
  <1>2. ServiceInv /\ [ServiceNext]_allVars => [Readable]_allVars
    BY <1>1, StepSound DEF Sound
  <1> QED
    BY <1>2, AlwaysSound, PTL DEF ServiceSpec, SuccessesReadable

=============================================================================
