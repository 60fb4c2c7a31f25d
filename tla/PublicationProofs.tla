---------------------------- MODULE PublicationProofs ----------------------------
(***************************************************************************)
(* Theorems about DependencyPublication for every value of its constants:  *)
(* any number of instances, calls and inventories.                         *)
(*                                                                         *)
(* As under the scan service, everything the bridge does to the store is a *)
(* transaction of the store, so the theorems about PersistenceStore hold   *)
(* (Facts), and the invariant here says what a call may rely on between    *)
(* two transactions.                                                       *)
(***************************************************************************)
EXTENDS DependencyPublication, FiniteSetTheorems, TLAPS

Facts == INSTANCE PersistenceStoreProofs

-----------------------------------------------------------------------------
(* The store as a component *)

\* What the theorems about the store assume, in their words.
LEMMA Assumed ==
    /\ Hash \in [Contents -> Payloads]
    /\ Manifests \subseteq Facts!ManifestType /\ \A m \in Manifests : Facts!ValidGraph(m)
    /\ NoScan \notin Scans /\ NoReason \notin Reasons
    /\ BatchLimit \in Nat \ {0} /\ MaxRegistrations \in Nat /\ MaxCollections \in Nat
  BY PublishedAssumption
     DEF Store!ManifestType, Facts!ManifestType, Store!ValidGraph, Facts!ValidGraph

\* DependencyPublication and the proofs name the same transactions.
LEMMA SameInit == Store!Init <=> Facts!Init
  BY DEF Store!Init, Facts!Init, Store!Empty, Facts!Empty, Store!AuditEvents, Facts!AuditEvents,
     Store!RepositoryEvents, Facts!RepositoryEvents, Store!ScanEvents, Facts!ScanEvents,
     Store!CollectEvent, Facts!CollectEvent

LEMMA SameCollect == Store!Collect \/ Store!DayPasses => Facts!Collect \/ Facts!DayPasses
  <1>1. ASSUME NEW C, Store!SelectGarbage(C) PROVE Facts!SelectGarbage(C)
    BY <1>1 DEF Store!SelectGarbage, Facts!SelectGarbage, Store!Referenced, Facts!Referenced,
       Store!CollectEvent, Facts!CollectEvent, Store!Cardinality, Facts!Cardinality
  <1>2. Store!CommitGarbage => Facts!CommitGarbage
    BY DEF Store!CommitGarbage, Facts!CommitGarbage, Store!CandidatesUnreferenced,
       Facts!CandidatesUnreferenced, Store!Referenced, Facts!Referenced, Store!CollectEvent,
       Facts!CollectEvent, Store!Audit, Facts!Audit, Store!Delete, Facts!Delete
  <1>3. Store!AbortGarbage => Facts!AbortGarbage
    BY DEF Store!AbortGarbage, Facts!AbortGarbage
  <1>4. Store!DayPasses => Facts!DayPasses
    BY DEF Store!DayPasses, Facts!DayPasses
  <1> QED
    BY <1>1, <1>2, <1>3, <1>4 DEF Store!Collect, Facts!Collect

LEMMA SameRepository ==
    ASSUME NEW sc, NEW r
    PROVE  /\ \A k, src : Store!RegisterRepository(sc, r, k, src)
                             => Facts!RegisterRepository(sc, r, k, src)
           /\ Store!ArchiveRepository(sc, r) => Facts!ArchiveRepository(sc, r)
           /\ Store!MarkRepositoryForPurge(sc, r) => Facts!MarkRepositoryForPurge(sc, r)
           /\ \A B : Store!PurgeRepositoryBatch(sc, r, B) => Facts!PurgeRepositoryBatch(sc, r, B)
  <1>1. ASSUME NEW k, NEW src, Store!RegisterRepository(sc, r, k, src)
        PROVE  Facts!RegisterRepository(sc, r, k, src)
    BY <1>1 DEF Store!RegisterRepository, Facts!RegisterRepository, Store!RegisterOutcome,
       Facts!RegisterOutcome, Store!KeyTaken, Facts!KeyTaken, Store!SourceTaken,
       Facts!SourceTaken, Store!Visible, Facts!Visible, Store!Insert, Facts!Insert,
       Store!Audit, Facts!Audit
  <1>2. /\ Store!ArchiveRepository(sc, r) => Facts!ArchiveRepository(sc, r)
        /\ Store!MarkRepositoryForPurge(sc, r) => Facts!MarkRepositoryForPurge(sc, r)
    BY DEF Store!ArchiveRepository, Facts!ArchiveRepository, Store!MarkRepositoryForPurge,
       Facts!MarkRepositoryForPurge, Store!ChangeRepositoryState, Facts!ChangeRepositoryState,
       Store!ChangeStateOutcome, Facts!ChangeStateOutcome, Store!Predecessor, Facts!Predecessor,
       Store!Visible, Facts!Visible, Store!Audit, Facts!Audit
  <1>3. ASSUME NEW B, Store!PurgeRepositoryBatch(sc, r, B)
        PROVE  Facts!PurgeRepositoryBatch(sc, r, B)
    BY <1>3 DEF Store!PurgeRepositoryBatch, Facts!PurgeRepositoryBatch, Store!PurgeBatches,
       Facts!PurgeBatches, Store!PurgedRepositories, Facts!PurgedRepositories,
       Store!Visible, Facts!Visible, Store!Delete, Facts!Delete, Store!Audit, Facts!Audit,
       Store!ScansOf, Facts!ScansOf, Store!Cardinality, Facts!Cardinality
  <1> QED
    BY <1>1, <1>2, <1>3

LEMMA SameScan ==
    ASSUME NEW sc, NEW r, NEW s
    PROVE  /\ \A k, q : Store!BeginScan(sc, r, s, k, q)  => Facts!BeginScan(sc, r, s, k, q)
           /\ \A reason : Store!FailScan(sc, r, s, reason)  => Facts!FailScan(sc, r, s, reason)
           /\ \A reason : Store!CancelScan(sc, r, s, reason)  => Facts!CancelScan(sc, r, s, reason)
           /\ \A d, c : Store!StagePayload(sc, r, s, d, c)  => Facts!StagePayload(sc, r, s, d, c)
           /\ \A m, b : Store!PublishScan(sc, r, s, m, b)  => Facts!PublishScan(sc, r, s, m, b)
  BY DEF Store!BeginScan, Facts!BeginScan, Store!BeginOutcome, Facts!BeginOutcome,
     Store!FailScan, Facts!FailScan, Store!CancelScan, Facts!CancelScan, Store!FinishScan,
     Facts!FinishScan, Store!FinishOutcome, Facts!FinishOutcome, Store!StagePayload,
     Facts!StagePayload, Store!StageOutcome, Facts!StageOutcome, Store!PublishScan,
     Facts!PublishScan, Store!PublishOutcome, Facts!PublishOutcome, Store!ScanVisible,
     Facts!ScanVisible, Store!Visible, Facts!Visible, Store!Insert, Facts!Insert,
     Store!Audit, Facts!Audit, Store!ScansOf, Facts!ScansOf

LEMMA SameNext == [Store!Next]_storeVars => [Facts!Next]_(Facts!vars)
  <1>1. Store!Next => Facts!Next
    <2>1. ASSUME NEW sc \in Scopes, Store!ScopeNext(sc) PROVE Facts!ScopeNext(sc)
      <3>1. ASSUME NEW r \in Repositories,
                   \/ \E k \in Keys, src \in Sources : Store!RegisterRepository(sc, r, k, src)
                   \/ Store!ArchiveRepository(sc, r)
                   \/ Store!MarkRepositoryForPurge(sc, r)
                   \/ \E B \in SUBSET Scans : Store!PurgeRepositoryBatch(sc, r, B)
            PROVE  Facts!ScopeNext(sc)
        BY <3>1, SameRepository, Zenon DEF Facts!ScopeNext
      <3>2. ASSUME NEW r \in Repositories, NEW s \in Scans,
                   \/ \E k \in Keys, q \in Requests : Store!BeginScan(sc, r, s, k, q)
                   \/ \E reason \in Reasons :
                         Store!FailScan(sc, r, s, reason) \/ Store!CancelScan(sc, r, s, reason)
                   \/ \E d \in Payloads, c \in Contents : Store!StagePayload(sc, r, s, d, c)
                   \/ \E m \in Manifests, b \in BOOLEAN : Store!PublishScan(sc, r, s, m, b)
            PROVE  Facts!ScopeNext(sc)
        BY <3>2, SameScan, Zenon DEF Facts!ScopeNext
      <3> QED
        BY <2>1, <3>1, <3>2, Zenon DEF Store!ScopeNext
    <2> QED
      BY <2>1, SameCollect DEF Store!Next, Facts!Next
  <1> QED
    BY <1>1 DEF storeVars, Facts!vars

-----------------------------------------------------------------------------
(* What the bridge relies on in the store *)

\* Nobody else publishes: every scan was begun for the revision, and every
\* publication is one inventory.
OneRevision == \A s \in DOMAIN scans : scans[s].request = Revision
OnlyInventories ==
    \A s \in DOMAIN publications : \E d \in Payloads : publications[s].manifest = ManifestOf(d)

StoreInv ==
    /\ Facts!Consistent /\ Facts!OnlyRepository(Scope, Repository)
    /\ OneRevision /\ OnlyInventories

LEMMA Names ==
    /\ Scope \in Scopes /\ Repository \in Repositories /\ Scan \in Scans
    /\ Artifact \in Artifacts /\ Revision \in Requests
  BY PublishedAssumption DEF Scope, Repository, Scan, Artifact, Revision

LEMMA StoreRows ==
    ASSUME StoreInv
    PROVE  /\ Scan \in DOMAIN scans =>
                /\ ScanVisible /\ scans[Scan].request = Revision
                /\ scans[Scan].state \in {"failed", "cancelled", "succeeded", "running"}
           /\ ScanVisible => Scan \in DOMAIN scans
           /\ Scan \in DOMAIN publications <=>
                 Scan \in DOMAIN scans /\ scans[Scan].state = "succeeded"
           /\ Scan \in DOMAIN publications =>
                 \E d \in Payloads : publications[Scan].manifest = ManifestOf(d)
  <1>1. /\ \A s \in DOMAIN scans :
              /\ s \in Scans /\ Facts!ScanVisible(Scope, Repository, s)
              /\ scans[s].state \in {"failed", "cancelled", "succeeded", "running"}
        /\ \A s \in DOMAIN publications : s \in DOMAIN scans /\ scans[s].state = "succeeded"
        /\ \A s \in DOMAIN scans : scans[s].state = "succeeded" => s \in DOMAIN publications
    BY Assumed, Facts!OneRepositoryRows
       DEF Facts!OneRepositoryRows, StoreInv, Facts!ScanRow, Facts!TerminalStates,
           Facts!FinishedStates
  <1>2. ScanVisible <=> Facts!ScanVisible(Scope, Repository, Scan)
    BY DEF ScanVisible, Store!ScanVisible, Facts!ScanVisible, Store!Visible, Facts!Visible
  <1> QED
    BY <1>1, <1>2 DEF StoreInv, OneRevision, OnlyInventories, Facts!ScanVisible

\* A step that may change the store: a transaction of the store that registers
\* no other repository, begins scans for the revision and publishes inventories.
StoreStep ==
    /\ [Store!Next]_storeVars
    /\ \A r \in DOMAIN repositories' \ DOMAIN repositories :
          r = Repository /\ repositories'[r].scope = Scope
    /\ \A s \in DOMAIN scans' :
          \/ scans'[s].request = Revision
          \/ s \in DOMAIN scans /\ scans'[s].request = scans[s].request
    /\ \A s \in DOMAIN publications' :
          \/ s \in DOMAIN publications /\ publications'[s] = publications[s]
          \/ \E d \in Payloads : publications'[s].manifest = ManifestOf(d)

LEMMA Unchanged == UNCHANGED storeVars => StoreStep
  BY DEF StoreStep, storeVars

LEMMA BeginsRevision ==
    ASSUME NEW c \in Publishers,
           Store!BeginScan(Scope, Repository, Scan, Child(Inventory[c]), Revision)
    PROVE  StoreStep /\ Scan \in DOMAIN scans'
  <1>1. Store!Next
    <2>1. Child(Inventory[c]) \in Keys
      BY PublishedAssumption
    <2> QED
      BY <2>1, Names, Zenon DEF Store!Next, Store!ScopeNext
  <1>2. /\ scans' = Store!Insert(scans, Scan, [repository |-> Repository,
              key |-> Child(Inventory[c]), request |-> Revision,
              state |-> "running", reason |-> NoReason])
        /\ UNCHANGED <<repositories, publications>>
    BY DEF Store!BeginScan
  <1>3. /\ DOMAIN scans' = DOMAIN scans \cup {Scan} /\ scans'[Scan].request = Revision
        /\ \A s \in DOMAIN scans : s # Scan => scans'[s] = scans[s]
    BY <1>2 DEF Store!Insert
  <1> QED
    BY <1>1, <1>2, <1>3 DEF StoreStep

LEMMA FinishesScan ==
    ASSUME StoreInv, \/ Store!CancelScan(Scope, Repository, Scan, "canceled")
                     \/ Store!FailScan(Scope, Repository, Scan, "failed")
    PROVE  /\ StoreStep /\ Scan \in DOMAIN scans'
           /\ scans'[Scan].state \in {"failed", "cancelled"}
  <1>1. Store!Next
    BY Names, BridgeAssumption, Zenon DEF Store!Next, Store!ScopeNext
  <1>2. PICK target \in {"failed", "cancelled"} : \E reason :
           /\ scans' = [scans EXCEPT ![Scan] = [scans[Scan] EXCEPT !.state = target,
                                                                  !.reason = reason]]
           /\ UNCHANGED <<repositories, publications>>
    BY DEF Store!CancelScan, Store!FailScan, Store!FinishScan
  <1>3. Scan \in DOMAIN scans
    BY DEF Store!CancelScan, Store!FailScan, Store!FinishScan, Store!FinishOutcome,
       Store!ScanVisible
  <1>4. scans[Scan] \in Facts!ScanRow
    BY <1>3, Assumed, Facts!OneRepositoryRows DEF Facts!OneRepositoryRows, StoreInv
  <1>5. scans'[Scan].state = target /\ scans'[Scan].request = scans[Scan].request
    BY <1>2, <1>3, <1>4 DEF Facts!ScanRow
  <1> QED
    BY <1>1, <1>2, <1>3, <1>5 DEF StoreStep

LEMMA StagesPayload ==
    ASSUME NEW d \in Payloads, NEW b \in Contents,
           Store!StagePayload(Scope, Repository, Scan, d, b)
    PROVE  StoreStep
  <1>1. Store!Next
    BY Names, Zenon DEF Store!Next, Store!ScopeNext
  <1> QED
    BY <1>1 DEF StoreStep, Store!StagePayload

LEMMA PublishesInventory ==
    ASSUME NEW c \in Publishers,
           Store!PublishScan(Scope, Repository, Scan, ManifestOf(Inventory[c]), FALSE)
    PROVE  /\ StoreStep /\ Scan \in DOMAIN publications'
           /\ publications'[Scan].manifest = ManifestOf(Inventory[c])
  <1> DEFINE m == ManifestOf(Inventory[c])
  <1>1. m \in Manifests /\ Inventory[c] \in Payloads
    BY PublishedAssumption, BridgeAssumption
  <1>2. Store!Next
    BY <1>1, Names, Zenon DEF Store!Next, Store!ScopeNext
  <1>3. /\ publications' = Store!Insert(publications, Scan, [repository |-> Repository, manifest |-> m])
        /\ scans' = [scans EXCEPT ![Scan].state = "succeeded"]
        /\ UNCHANGED repositories
    BY DEF Store!PublishScan
  <1>4. /\ DOMAIN publications' = DOMAIN publications \cup {Scan}
        /\ publications'[Scan].manifest = m
        /\ \A s \in DOMAIN publications : s # Scan => publications'[s] = publications[s]
    BY <1>3 DEF Store!Insert
  <1>5. DOMAIN scans' = DOMAIN scans /\ \A s \in DOMAIN scans : scans'[s].request = scans[s].request
    BY <1>3
  <1> QED
    BY <1>1, <1>2, <1>3, <1>4, <1>5 DEF StoreStep

LEMMA EnvironmentStep == Environment => StoreStep
  <1>1. ASSUME NEW k \in Keys, NEW src \in Sources,
               Store!RegisterRepository(Scope, Repository, k, src)
        PROVE  StoreStep
    <2>1. Store!Next
      BY <1>1, Names, Zenon DEF Store!Next, Store!ScopeNext
    <2>2. /\ repositories' = Store!Insert(repositories, Repository, [scope |-> Scope, key |-> k,
                source |-> src, state |-> "active", current |-> NoScan])
          /\ UNCHANGED <<scans, publications>>
      BY <1>1 DEF Store!RegisterRepository
    <2> QED
      BY <2>1, <2>2 DEF StoreStep, Store!Insert
  <1>2. ASSUME \/ Store!ArchiveRepository(Scope, Repository)
               \/ Store!MarkRepositoryForPurge(Scope, Repository)
        PROVE  StoreStep
    <2>1. Store!Next
      BY <1>2, Names, Zenon DEF Store!Next, Store!ScopeNext
    <2>2. DOMAIN repositories' = DOMAIN repositories /\ UNCHANGED <<scans, publications>>
      BY <1>2 DEF Store!ArchiveRepository, Store!MarkRepositoryForPurge,
         Store!ChangeRepositoryState
    <2> QED
      BY <2>1, <2>2 DEF StoreStep
  <1>3. ASSUME NEW B \in SUBSET Scans, Store!PurgeRepositoryBatch(Scope, Repository, B)
        PROVE  StoreStep
    <2>1. Store!Next
      BY <1>3, Names, Zenon DEF Store!Next, Store!ScopeNext
    <2>2. /\ DOMAIN repositories' \subseteq DOMAIN repositories
          /\ scans' = Store!Delete(scans, B) /\ publications' = Store!Delete(publications, B)
      BY <1>3 DEF Store!PurgeRepositoryBatch, Store!PurgedRepositories, Store!Delete
    <2> QED
      BY <2>1, <2>2 DEF StoreStep, Store!Delete
  <1> QED
    BY <1>1, <1>2, <1>3 DEF Environment

-----------------------------------------------------------------------------
(* What a call may rely on *)

Unsent == {"idle", "acquire", "encode", "seal", "repository", "lookup", "begin", "stage",
           "publish"}
Reconciling == {"reconcile", "get", "compare"}
PublishSteps == (Unsent \ {"idle", "acquire"}) \cup Reconciling \cup {"finish"}
ExportSteps == {"export_scan", "export_list", "export"}
Ending == {"close", "release", "returned"}
CallSteps == Unsent \cup PublishSteps \cup ExportSteps \cup Ending \cup {"crashed"}
Sealed == {"repository", "lookup", "begin", "stage", "publish"} \cup Reconciling

Problems == {"pending", "busy", "unavailable", "canceled", "limit_exceeded", "invalid_input",
             "missing", "conflict", "uncertain", "terminated", "integrity_failure",
             "cleanup_failed"}
CallAnswers == {Receipt(d) : d \in Payloads} \cup {Exported(d) : d \in Payloads}
               \cup {Problem(k) : k \in Problems}

CallType ==
    [pc : CallSteps, ended : BOOLEAN, digest : Payloads \cup {"none"}, begun : BOOLEAN,
     attempted : BOOLEAN, recheck : BOOLEAN, committed : BOOLEAN,
     finish : {"none", "answered", "lost"}, leaked : BOOLEAN, answer : CallAnswers]

\* The digest is the one that is published, or the scan is over.
Stored(d) == Scan \in DOMAIN publications /\ publications[Scan].manifest = ManifestOf(d)
Over == Scan \in DOMAIN scans /\ scans[Scan].state # "running"
Terminated == Scan \in DOMAIN scans /\ scans[Scan].state \in {"failed", "cancelled"}

Holds(a) ==
    /\ a.kind \in {"receipt", "exported"} => Stored(a.digest)
    /\ a.kind = "terminated" => Terminated

\* What the call k of c read, wrote or reported is still so.
Relies(c, k) ==
    /\ Holds(k.answer)
    /\ k.pc \in {"get", "compare", "export_list"} => Scan \in DOMAIN publications
    /\ k.pc = "export" => Stored(k.digest)
    /\ k.begun => Scan \in DOMAIN scans
    /\ k.begun /\ k.pc \in {"close", "release"} =>
          k.answer.kind = "uncertain" \/ k.finish = "lost" \/ Over
    /\ k.committed =>
          /\ Stored(Inventory[c])
          /\ k.pc \in Ending => k.answer.kind \in {"receipt", "uncertain", "cleanup_failed"}

\* The order in which a call gets to know its scan.
Ordered(c, k) ==
    /\ c \notin Publishers => k.pc \notin PublishSteps /\ ~k.begun
    /\ c \notin Exporters => k.pc \notin ExportSteps
    /\ k.pc \in Sealed => k.digest = Inventory[c]
    /\ k.pc \in Unsent => ~k.attempted /\ ~k.recheck /\ ~k.committed
    /\ k.pc \in {"stage", "publish", "finish"} => k.begun
    /\ k.recheck => ~k.attempted
    /\ k.committed => k.attempted /\ k.pc \in Reconciling \cup Ending \cup {"crashed"}

Fits(c, k) == k \in CallType /\ Ordered(c, k) /\ (~Purged => Relies(c, k))

\* One call inside an instance, with the gate, a lease and perhaps a file.
GateInv ==
    /\ \A c \in Calls : Inside(c) => At[c] \in busy
    /\ \A i \in busy : \E c \in Calls : At[c] = i /\ Inside(c)
    /\ \A c, d \in Calls : Inside(c) /\ Inside(d) /\ At[c] = At[d] => c = d
    /\ leases = {c \in Calls : Inside(c) /\ calls[c].pc # "acquire"}
    /\ \A c \in files :
          /\ c \in Calls
          /\ c \in leases \/ calls[c].leaked \/ calls[c].pc = "crashed"
          /\ calls[c].pc = "release" => calls[c].leaked

PublicationInv ==
    /\ StoreInv /\ DOMAIN calls = Calls /\ GateInv
    /\ \A c \in Calls : Fits(c, calls[c])

LEMMA InvImplies == PublicationInv => PublicationAnswersTrue /\ CommitsNotDenied /\ GateServesOne
  <1> SUFFICES ASSUME PublicationInv PROVE PublicationAnswersTrue /\ CommitsNotDenied /\ GateServesOne
    OBVIOUS
  <1>1. \A c \in Calls : ~Purged => Relies(c, calls[c])
    BY DEF PublicationInv, Fits
  <1>2. PublicationAnswersTrue
    BY <1>1 DEF PublicationAnswersTrue, Relies, Holds, Stored, Terminated, Store!FinishedStates
  <1>3. CommitsNotDenied
    BY <1>1 DEF CommitsNotDenied, Relies, Ending, Calls
  <1>4. ASSUME NEW i \in Instances
        PROVE  Cardinality({c \in Calls : At[c] = i /\ Inside(c)}) = IF i \in busy THEN 1 ELSE 0
    <2>1. CASE i \in busy
      <3>1. PICK c \in Calls : At[c] = i /\ Inside(c)
        BY <2>1 DEF PublicationInv, GateInv
      <3>2. {d \in Calls : At[d] = i /\ Inside(d)} = {c}
        BY <3>1 DEF PublicationInv, GateInv
      <3>3. Cardinality({c}) = 1
        BY FS_Singleton
      <3> QED
        BY <2>1, <3>2, <3>3
    <2>2. CASE i \notin busy
      <3>1. {d \in Calls : At[d] = i /\ Inside(d)} = {}
        BY <2>2 DEF PublicationInv, GateInv
      <3> QED
        BY <2>2, <3>1, FS_EmptySet
    <2> QED
      BY <2>1, <2>2
  <1>5. GateServesOne
    BY <1>4 DEF GateServesOne, PublicationInv, GateInv
  <1> QED
    BY <1>2, <1>3, <1>5

\* What the store keeps for the calls until a purge is counted.
LEMMA Lasting ==
    ASSUME StoreInv, StoreStep
    PROVE  /\ StoreInv'
           /\ ~Purged' =>
                /\ ~Purged
                /\ \A d : Stored(d) => Stored(d)'
                /\ Over => Over'
                /\ Terminated => Terminated'
                /\ Scan \in DOMAIN scans => Scan \in DOMAIN scans'
                /\ Scan \in DOMAIN publications => Scan \in DOMAIN publications'
  <1>1. [Facts!Next]_(Facts!vars)
    BY SameNext DEF StoreStep
  <1>2. /\ Facts!Consistent' /\ Facts!OnlyRepository(Scope, Repository)'
        /\ Purged => Purged'
        /\ ~Purged' => \A s \in DOMAIN scans : Facts!Stays(s)
    BY <1>1, Names, Assumed, Facts!OneRepositoryKeeps
       DEF Facts!OneRepositoryKeeps, StoreInv, StoreStep, Facts!PurgeEvents, Purged
  <1>3. OneRevision' /\ OnlyInventories'
    BY DEF StoreStep, StoreInv, OneRevision, OnlyInventories
  <1>4. Over => Facts!Recorded(Scan)
    BY StoreRows DEF Over, Facts!Recorded, Facts!TerminalStates, Facts!FinishedStates
  <1>5. ASSUME ~Purged', Scan \in DOMAIN scans
        PROVE  /\ Scan \in DOMAIN scans'
               /\ Over => /\ scans'[Scan] = scans[Scan]
                          /\ Scan \in DOMAIN publications => Scan \in DOMAIN publications'
                                /\ publications'[Scan] = publications[Scan]
    BY <1>2, <1>4, <1>5 DEF Facts!Stays
  <1>6. Scan \in DOMAIN publications => Scan \in DOMAIN scans /\ Over
    BY StoreRows DEF Over
  <1> QED
    BY <1>2, <1>3, <1>5, <1>6 DEF StoreInv, Stored, Over, Terminated

LEMMA PublishedIsOver == StoreInv => (Scan \in DOMAIN publications => Over)
  BY StoreRows DEF Over

LEMMA HoldsLast ==
    ASSUME StoreInv, StoreStep, ~Purged', NEW a, Holds(a) PROVE Holds(a)'
  BY Lasting DEF Holds

\* A call that does nothing still relies on the same things.
LEMMA ReliesLast ==
    ASSUME StoreInv, StoreStep, ~Purged', NEW c, NEW k, Relies(c, k) PROVE Relies(c, k)'
  <1>1. PICK d : d = Inventory[c]
    OBVIOUS
  <1> QED
    BY <1>1, Lasting DEF Relies, Holds

LEMMA FitsLast ==
    ASSUME StoreInv, StoreStep, NEW c, NEW k, Fits(c, k) PROVE Fits(c, k)'
  BY Lasting, ReliesLast DEF Fits, Ordered

-----------------------------------------------------------------------------
(* A step inside an instance *)

LEMMA CallsKeep ==
    ASSUME PublicationInv, StoreStep, GateInv', NEW c \in Calls, NEW g, DOMAIN calls' = Calls,
           calls'[c] = g, \A d \in Calls : d # c => calls'[d] = calls[d],
           g \in CallType, Ordered(c, g), ~Purged' => Relies(c, g)'
    PROVE  PublicationInv'
  <1>1. ASSUME NEW d \in Calls PROVE Fits(d, calls[d])'
    <2>1. CASE d = c
      <3>1. Fits(c, g)'
        BY DEF Fits, Ordered
      <3> QED
        BY <2>1, <3>1
    <2>2. CASE d # c
      <3>1. PICK h : h = calls[d]
        OBVIOUS
      <3>2. Fits(d, h)'
        BY <3>1, FitsLast DEF PublicationInv
      <3> QED
        BY <2>2, <3>1, <3>2
    <2> QED
      BY <2>1, <2>2
  <1> QED
    BY <1>1, Lasting DEF PublicationInv

\* A call that holds its lease and moves to g, which is neither its first nor
\* its last step, keeps the invariant when g fits.
LEMMA InnerKeeps ==
    ASSUME PublicationInv, StoreStep, NEW c \in Calls, NEW g,
           Inside(c), calls[c].pc # "acquire", calls' = [calls EXCEPT ![c] = g],
           g.pc \notin {"idle", "acquire", "returned", "crashed"},
           calls[c].leaked => g.leaked, g.pc = "release" /\ c \in files' => g.leaked,
           UNCHANGED <<busy, leases>>, files' \subseteq files \cup {c},
           g \in CallType, Ordered(c, g), ~Purged' => Relies(c, g)'
    PROVE  PublicationInv'
  <1>1. /\ calls'[c] = g /\ DOMAIN calls' = Calls
        /\ \A d \in Calls : d # c => calls'[d] = calls[d]
    BY DEF PublicationInv
  <1>2. \A d \in Calls : Inside(d)' <=> Inside(d)
    BY <1>1 DEF Inside
  <1>3. c \in leases
    BY DEF PublicationInv, GateInv
  <1>4. GateInv'
    <2>1. /\ \A d \in Calls : Inside(d)' => At[d] \in busy'
          /\ \A i \in busy' : \E d \in Calls : At[d] = i /\ Inside(d)'
          /\ \A d, e \in Calls : Inside(d)' /\ Inside(e)' /\ At[d] = At[e] => d = e
          /\ leases' = {d \in Calls : Inside(d)' /\ calls'[d].pc # "acquire"}
      BY <1>1, <1>2, <1>3 DEF PublicationInv, GateInv
    <2>2. ASSUME NEW d \in files'
          PROVE  /\ d \in Calls
                 /\ d \in leases' \/ calls'[d].leaked \/ calls'[d].pc = "crashed"
                 /\ calls'[d].pc = "release" => calls'[d].leaked
      BY <1>1, <1>3, <2>2 DEF PublicationInv, GateInv
    <2> QED
      BY <2>1, <2>2 DEF GateInv
  <1> QED
    BY <1>1, <1>4, CallsKeep

\* A call that concludes with an answer that is true, and that it may give of
\* what it began and committed.
LEMMA ConcludeKeeps ==
    ASSUME PublicationInv, StoreStep, NEW c \in Calls, NEW a \in CallAnswers,
           calls[c].pc \in PublishSteps \cup ExportSteps, Conclude(c, a),
           UNCHANGED <<busy, leases>>, files' \subseteq files \cup {c},
           ~Purged' =>
              /\ Holds(a)'
              /\ calls[c].begun /\ calls[c].attempted => a.kind \in {"receipt", "uncertain"} \/ Over'
              /\ calls[c].committed => a.kind \in {"receipt", "uncertain"}
    PROVE  PublicationInv'
  <1>1. PICK k : k = calls[c]
    OBVIOUS
  <1> DEFINE g == [k EXCEPT !.pc = AfterAnswer(k, a), !.answer = a]
  <1>2. Fits(c, k) /\ k \in CallType
    BY <1>1 DEF PublicationInv, Fits
  <1>3. calls' = [calls EXCEPT ![c] = g]
    BY <1>1 DEF Conclude
  <1>4. AfterAnswer(k, a) \in {"finish", "close"}
    BY DEF AfterAnswer
  <1>5. g \in CallType
    BY <1>2, <1>4 DEF CallType, CallSteps, PublishSteps, Ending
  <1>6. /\ g.pc = AfterAnswer(k, a) /\ g.answer = a /\ g.begun = k.begun
        /\ g.attempted = k.attempted /\ g.committed = k.committed /\ g.recheck = k.recheck
        /\ g.leaked = k.leaked /\ g.finish = k.finish
    BY <1>2 DEF CallType
  <1>7. Ordered(c, g)
    BY <1>2, <1>4, <1>6 DEF Fits, Ordered, AfterAnswer, Ending, PublishSteps, ExportSteps, Unsent,
       Reconciling, Sealed, Calls
  <1>8. ASSUME ~Purged' PROVE Relies(c, g)'
    <2>1. Relies(c, k)
      BY <1>2, <1>8, Lasting DEF Fits, PublicationInv
    <2>2. k.begun => (Scan \in DOMAIN scans)'
      BY <1>8, <2>1, Lasting DEF Relies, PublicationInv
    <2>3. PICK d : d = Inventory[c]
      OBVIOUS
    <2>4. k.committed => Stored(d)'
      BY <1>8, <2>1, <2>3, Lasting DEF Relies, PublicationInv
    <2>5. a.kind = "receipt" => Over'
      <3>1. StoreInv'
        BY Lasting DEF PublicationInv
      <3>2. (Scan \in DOMAIN publications => Over)'
        BY <3>1, PublishedIsOver, PTL
      <3> QED
        BY <1>8, <3>2 DEF Holds, Stored
    <2>6. k.begun /\ g.pc = "close" => a.kind = "uncertain" \/ Over'
      BY <1>1, <1>6, <1>8, <2>5 DEF AfterAnswer
    <2> HIDE DEF g
    <2> QED
      BY <1>1, <1>4, <1>6, <1>8, <2>2, <2>3, <2>4, <2>6 DEF Relies, Ending
  <1>9. Inside(c) /\ calls[c].pc # "acquire"
    BY DEF Inside, PublishSteps, ExportSteps, Unsent, Reconciling
  <1> HIDE DEF g
  <1> QED
    BY <1>1, <1>3, <1>4, <1>5, <1>6, <1>7, <1>8, <1>9, InnerKeeps

Working == (Unsent \ {"idle", "acquire"}) \cup ExportSteps

\* A call that has not asked for a publication may give up at any time.
LEMMA ProblemKeeps ==
    ASSUME PublicationInv, StoreStep, NEW c \in Calls, calls[c].pc \in Working,
           NEW e \in Problems \ {"terminated"}, Conclude(c, Problem(e)),
           UNCHANGED <<busy, leases>>, files' \subseteq files \cup {c}
    PROVE  PublicationInv'
  <1>1. Problem(e) \in CallAnswers /\ Problem(e).kind = e
    BY DEF CallAnswers, Problem
  <1>2. Ordered(c, calls[c])
    BY DEF PublicationInv, Fits
  <1>3. ~calls[c].committed /\ ~(calls[c].begun /\ calls[c].attempted)
    BY <1>2, BridgeAssumption DEF Ordered, Working, Calls, Unsent, ExportSteps, Reconciling, Ending
  <1>4. Holds(Problem(e))'
    BY <1>1 DEF Holds, Problems
  <1>5. calls[c].pc \in PublishSteps \cup ExportSteps
    BY DEF Working, PublishSteps
  <1> QED
    BY <1>1, <1>3, <1>4, <1>5, ConcludeKeeps

LEMMA InterruptKeeps ==
    ASSUME PublicationInv, StoreStep, NEW c \in Calls, calls[c].pc \in Working, Interrupt(c),
           UNCHANGED <<busy, leases>>, files' \subseteq files \cup {c}
    PROVE  PublicationInv'
  <1>1. PICK e \in {"canceled", "unavailable"} : Conclude(c, Problem(e))
    BY DEF Interrupt
  <1>2. e \in Problems \ {"terminated"}
    BY DEF Problems
  <1> QED
    BY <1>1, <1>2, ProblemKeeps

\* A call that goes on to p.
LEMMA MoveKeeps ==
    ASSUME PublicationInv, StoreStep, NEW c \in Calls,
           NEW p \in (PublishSteps \ {"finish"}) \cup (ExportSteps \ {"export"}),
           calls[c].pc \in PublishSteps \cup ExportSteps, Step(c, p),
           UNCHANGED <<busy, leases>>, files' \subseteq files \cup {c},
           IF p \in PublishSteps THEN c \in Publishers ELSE c \in Exporters,
           p \in Sealed => calls[c].digest = Inventory[c],
           p \in Unsent => calls[c].pc \in Unsent,
           p \in {"stage", "publish"} => calls[c].begun,
           calls[c].committed => p \in Reconciling,
           ~Purged' => (p \in {"get", "compare", "export_list"} => Scan \in DOMAIN publications')
    PROVE  PublicationInv'
  <1>1. PICK k : k = calls[c]
    OBVIOUS
  <1> DEFINE g == [k EXCEPT !.pc = p]
  <1>2. Fits(c, k) /\ k \in CallType
    BY <1>1 DEF PublicationInv, Fits
  <1>3. calls' = [calls EXCEPT ![c] = g]
    BY <1>1 DEF Step
  <1>4. /\ p \in PublishSteps => p \notin ExportSteps
        /\ p \notin {"idle", "acquire", "returned", "crashed", "close", "release", "export", "finish"}
        /\ p \in CallSteps
    BY DEF CallSteps, PublishSteps, ExportSteps, Reconciling, Unsent
  <1>5. g \in CallType
    BY <1>2, <1>4 DEF CallType
  <1>6. /\ g.pc = p /\ g.answer = k.answer /\ g.begun = k.begun /\ g.digest = k.digest
        /\ g.attempted = k.attempted /\ g.committed = k.committed /\ g.recheck = k.recheck
        /\ g.leaked = k.leaked /\ g.finish = k.finish
    BY <1>2 DEF CallType
  <1> HIDE DEF g
  <1>7. Ordered(c, g)
    BY <1>1, <1>2, <1>4, <1>6, BridgeAssumption DEF Fits, Ordered, Calls
  <1>8. ASSUME ~Purged' PROVE Relies(c, g)'
    <2>1. Relies(c, k)
      BY <1>2, <1>8, Lasting DEF Fits, PublicationInv
    <2>2. k.begun => (Scan \in DOMAIN scans)'
      BY <1>8, <2>1, Lasting DEF Relies, PublicationInv
    <2>3. PICK d, a : d = Inventory[c] /\ a = k.answer
      OBVIOUS
    <2>4. k.committed => Stored(d)'
      BY <1>8, <2>1, <2>3, Lasting DEF Relies, PublicationInv
    <2>5. Holds(a)'
      BY <1>8, <2>1, <2>3, HoldsLast DEF Relies, PublicationInv
    <2> QED
      BY <1>4, <1>6, <1>8, <2>2, <2>3, <2>4, <2>5 DEF Relies, Ending
  <1>9. Inside(c) /\ calls[c].pc # "acquire"
    BY DEF Inside, PublishSteps, ExportSteps, Unsent, Reconciling
  <1> QED
    BY <1>1, <1>3, <1>4, <1>5, <1>6, <1>7, <1>8, <1>9, InnerKeeps

-----------------------------------------------------------------------------
(* The steps of a Publish call *)

\* Where a call stands, in terms of the steps above.
LEMMA Standing ==
    ASSUME PublicationInv, NEW c \in Calls
    PROVE  /\ calls[c] \in CallType /\ Ordered(c, calls[c])
           /\ ~Purged => Relies(c, calls[c])
           /\ calls[c].pc \in PublishSteps => c \in Publishers /\ c \notin Exporters
           /\ calls[c].pc \in ExportSteps => c \in Exporters /\ c \notin Publishers /\ ~calls[c].begun
           /\ c \in Publishers =>
                 Inventory[c] \in Payloads /\ (calls[c].pc \in Sealed => calls[c].digest = Inventory[c])
           /\ calls[c].pc \in Unsent \cup ExportSteps => ~calls[c].committed
  BY BridgeAssumption
     DEF PublicationInv, Fits, Ordered, Calls, Unsent, ExportSteps, Reconciling, Ending

LEMMA EncodeKeeps == ASSUME PublicationInv, NEW c \in Calls, Encode(c) PROVE PublicationInv'
  <1>1. StoreStep /\ UNCHANGED <<busy, leases>> /\ files' \subseteq files \cup {c}
    BY Unchanged DEF Encode, Spill
  <1>2. calls[c].pc = "encode" /\ calls[c].pc \in Working /\ calls[c].pc \in PublishSteps
        /\ calls[c].pc \in Unsent
    BY DEF Encode, Working, Unsent, PublishSteps
  <1>3. CASE Step(c, "seal")
    BY <1>1, <1>2, <1>3, Standing, MoveKeeps DEF PublishSteps, Unsent, Sealed, Reconciling, ExportSteps
  <1>4. ASSUME NEW e \in {"limit_exceeded", "invalid_input"}, Conclude(c, Problem(e))
        PROVE  PublicationInv'
    BY <1>1, <1>2, <1>4, ProblemKeeps DEF Problems
  <1>5. CASE Interrupt(c)
    BY <1>1, <1>2, <1>5, InterruptKeeps
  <1> QED
    BY <1>3, <1>4, <1>5 DEF Encode

LEMMA SealKeeps == ASSUME PublicationInv, NEW c \in Calls, Seal(c) PROVE PublicationInv'
  <1>1. StoreStep /\ UNCHANGED <<busy, leases>> /\ files' = files
    BY Unchanged DEF Seal, InMemory, StoreOnly
  <1>2. calls[c].pc = "seal" /\ calls[c].pc \in Working /\ calls[c].pc \in PublishSteps
        /\ calls[c].pc \in Unsent
    BY DEF Seal, Working, Unsent, PublishSteps
  <1>3. ASSUME calls' = [calls EXCEPT ![c].pc = "repository", ![c].digest = Inventory[c]]
        PROVE  PublicationInv'
    <2>1. PICK k : k = calls[c]
      OBVIOUS
    <2> DEFINE g == [k EXCEPT !.pc = "repository", !.digest = Inventory[c]]
    <2>2. /\ k \in CallType /\ Ordered(c, k) /\ c \in Publishers /\ c \notin Exporters
          /\ ~k.committed /\ Inventory[c] \in Payloads
      BY <1>2, <2>1, Standing
    <2>3. g \in CallType
      BY <2>2 DEF CallType, CallSteps, Unsent
    <2>4. /\ g.pc = "repository" /\ g.digest = Inventory[c] /\ g.answer = k.answer
          /\ g.begun = k.begun /\ g.attempted = k.attempted /\ g.committed = k.committed
          /\ g.recheck = k.recheck /\ g.leaked = k.leaked
      BY <2>2 DEF CallType
    <2>5. calls' = [calls EXCEPT ![c] = g]
      BY <1>3, <2>1
    <2> HIDE DEF g
    <2>6. Ordered(c, g)
      BY <1>2, <2>1, <2>2, <2>4
         DEF Ordered, PublishSteps, ExportSteps, Unsent, Reconciling, Ending, Sealed
    <2>7. ASSUME ~Purged' PROVE Relies(c, g)'
      <3>1. Relies(c, k)
        BY <2>1, <2>7, <1>1, Lasting, Standing DEF PublicationInv
      <3>2. Relies(c, g)
        BY <1>2, <2>1, <2>2, <2>4, <3>1 DEF Relies, Ending
      <3> QED
        BY <3>2, <2>7, <1>1, ReliesLast DEF PublicationInv
    <2>8. Inside(c)
      BY <1>2 DEF Inside
    <2> QED
      BY <1>1, <1>2, <2>1, <2>3, <2>4, <2>5, <2>6, <2>7, <2>8, InnerKeeps
  <1>4. CASE Interrupt(c)
    BY <1>1, <1>2, <1>4, InterruptKeeps
  <1>5. CASE Conclude(c, Problem("unavailable"))
    BY <1>1, <1>2, <1>5, ProblemKeeps DEF Problems
  <1> QED
    BY <1>3, <1>4, <1>5 DEF Seal

LEMMA CheckRepositoryKeeps ==
    ASSUME PublicationInv, NEW c \in Calls, CheckRepository(c) PROVE PublicationInv'
  <1>1. StoreStep /\ UNCHANGED <<busy, leases>> /\ files' = files
    BY Unchanged DEF CheckRepository, InMemory, StoreOnly
  <1>2. calls[c].pc = "repository" /\ calls[c].pc \in Working /\ calls[c].pc \in PublishSteps
        /\ calls[c].pc \in Unsent /\ calls[c].pc \in Sealed
    BY DEF CheckRepository, Working, Unsent, PublishSteps, Sealed
  <1>3. CASE Step(c, "lookup")
    BY <1>1, <1>2, <1>3, Standing, MoveKeeps DEF PublishSteps, Unsent, Reconciling, ExportSteps
  <1>4. ASSUME NEW e \in {"missing", "conflict"}, Conclude(c, Problem(e)) PROVE PublicationInv'
    BY <1>1, <1>2, <1>4, ProblemKeeps DEF Problems
  <1>5. CASE Interrupt(c)
    BY <1>1, <1>2, <1>5, InterruptKeeps
  <1> QED
    BY <1>3, <1>4, <1>5 DEF CheckRepository

LEMMA LookupKeeps == ASSUME PublicationInv, NEW c \in Calls, Lookup(c) PROVE PublicationInv'
  <1>1. StoreStep /\ UNCHANGED <<busy, leases>> /\ files' = files
    BY Unchanged DEF Lookup, InMemory, StoreOnly
  <1>2. calls[c].pc = "lookup" /\ calls[c].pc \in Working /\ calls[c].pc \in PublishSteps
        /\ calls[c].pc \in Unsent /\ calls[c].pc \in Sealed
    BY DEF Lookup, Working, Unsent, PublishSteps, Sealed
  <1>3. ASSUME NEW p \in {"reconcile", "begin"}, Step(c, p) PROVE PublicationInv'
    BY <1>1, <1>2, <1>3, Standing, MoveKeeps DEF PublishSteps, Unsent, Reconciling, ExportSteps
  <1>4. CASE Interrupt(c)
    BY <1>1, <1>2, <1>4, InterruptKeeps
  <1> QED
    BY <1>3, <1>4 DEF Lookup

LEMMA BeginKeeps == ASSUME PublicationInv, NEW c \in Calls, Begin(c) PROVE PublicationInv'
  <1>1. UNCHANGED <<busy, leases>> /\ files' = files
    BY DEF Begin, StoreOnly
  <1>2. calls[c].pc = "begin" /\ calls[c].pc \in PublishSteps
        /\ calls[c].pc \in Unsent /\ calls[c].pc \in Sealed
    BY DEF Begin, Unsent, PublishSteps, Sealed
  <1>3. PICK k : k = calls[c]
    OBVIOUS
  <1>4. /\ k \in CallType /\ Ordered(c, k) /\ c \in Publishers /\ c \notin Exporters
        /\ ~k.committed /\ k.digest = Inventory[c]
    BY <1>2, <1>3, Standing
  <1>5. StoreStep /\ (calls'[c].pc = "stage" /\ ~Purged' => Scan \in DOMAIN scans')
    <2>1. CASE Store!BeginScan(Scope, Repository, Scan, Child(k.digest), Revision)
      BY <2>1, <1>4, BeginsRevision
    <2>2. CASE /\ UNCHANGED storeVars
               /\ ~Store!BeginScan(Scope, Repository, Scan, Child(k.digest), Revision)
      <3>1. ASSUME scans[Scan].state = "running",
                   Store!BeginOutcome(Scope, Repository, Scan, Child(k.digest), Revision) = "returned"
            PROVE  Scan \in DOMAIN scans
        BY <3>1 DEF Store!BeginOutcome, Store!ScansOf
      <3>2. calls'[c].pc = "stage" => Scan \in DOMAIN scans
        BY <1>3, <1>4, <2>2, <3>1 DEF Begin, Step, PublicationInv, CallType
      <3> QED
        BY <2>2, <3>2, Unchanged DEF storeVars
    <2> QED
      BY <1>3, <2>1, <2>2 DEF Begin
  <1>6. CASE Step(c, "reconcile")
    BY <1>1, <1>2, <1>4, <1>3, <1>5, <1>6, MoveKeeps
       DEF PublishSteps, Unsent, Reconciling, ExportSteps
  <1>7. CASE calls' = [calls EXCEPT ![c].pc = "stage", ![c].begun = TRUE]
    <2> DEFINE g == [k EXCEPT !.pc = "stage", !.begun = TRUE]
    <2>1. g \in CallType
      BY <1>4 DEF CallType, CallSteps, Unsent
    <2>2. /\ g.pc = "stage" /\ g.digest = k.digest /\ g.answer = k.answer
          /\ g.begun /\ g.attempted = k.attempted /\ g.committed = k.committed
          /\ g.recheck = k.recheck /\ g.leaked = k.leaked
      BY <1>4 DEF CallType
    <2>3. calls' = [calls EXCEPT ![c] = g]
      BY <1>3, <1>7
    <2> HIDE DEF g
    <2>4. Ordered(c, g)
      BY <1>2, <1>3, <1>4, <2>2
         DEF Ordered, PublishSteps, ExportSteps, Unsent, Reconciling, Ending, Sealed
    <2>5. ASSUME ~Purged' PROVE Relies(c, g)'
      <3>1. Relies(c, k)
        BY <1>3, <1>5, <2>5, Lasting, Standing DEF PublicationInv
      <3>2. PICK a : a = k.answer
        OBVIOUS
      <3>3. Holds(a)'
        BY <1>5, <2>5, <3>1, <3>2, HoldsLast DEF Relies, PublicationInv
      <3>4. (Scan \in DOMAIN scans)'
        BY <1>5, <2>2, <2>3, <2>5 DEF PublicationInv
      <3> QED
        BY <1>4, <2>2, <3>2, <3>3, <3>4 DEF Relies
    <2>6. Inside(c)
      BY <1>2 DEF Inside
    <2> QED
      BY <1>1, <1>2, <1>3, <1>5, <2>1, <2>2, <2>3, <2>4, <2>5, <2>6, InnerKeeps
  <1> QED
    BY <1>6, <1>7 DEF Begin

LEMMA StageKeeps == ASSUME PublicationInv, NEW c \in Calls, Stage(c) PROVE PublicationInv'
  <1>1. UNCHANGED <<busy, leases>> /\ files' = files
    BY DEF Stage, StoreOnly
  <1>2. calls[c].pc = "stage" /\ calls[c].pc \in Working /\ calls[c].pc \in PublishSteps
        /\ calls[c].pc \in Unsent /\ calls[c].pc \in Sealed
    BY DEF Stage, Working, Unsent, PublishSteps, Sealed
  <1>3. PICK k : k = calls[c]
    OBVIOUS
  <1>4. /\ k \in CallType /\ Ordered(c, k) /\ c \in Publishers /\ c \notin Exporters
        /\ ~k.committed /\ k.digest = Inventory[c] /\ Inventory[c] \in Payloads
    BY <1>2, <1>3, Standing
  <1>5. StoreStep
    <2>1. ASSUME NEW bytes \in Contents,
                 Store!StagePayload(Scope, Repository, Scan, k.digest, bytes)
          PROVE  StoreStep
      BY <1>4, <2>1, StagesPayload
    <2> QED
      BY <1>3, <2>1, Unchanged DEF Stage
  <1>6. CASE Step(c, "publish")
    BY <1>1, <1>2, <1>4, <1>3, <1>5, <1>6, MoveKeeps
       DEF PublishSteps, Unsent, Reconciling, ExportSteps, Ordered
  <1>7. CASE Interrupt(c)
    BY <1>1, <1>2, <1>5, <1>7, InterruptKeeps
  <1>8. CASE calls' = [calls EXCEPT ![c].pc = "reconcile", ![c].recheck = TRUE]
    <2> DEFINE g == [k EXCEPT !.pc = "reconcile", !.recheck = TRUE]
    <2>1. g \in CallType
      BY <1>4 DEF CallType, CallSteps, PublishSteps, Reconciling
    <2>2. /\ g.pc = "reconcile" /\ g.digest = k.digest /\ g.answer = k.answer
          /\ g.begun = k.begun /\ g.attempted = k.attempted /\ g.committed = k.committed
          /\ g.recheck /\ g.leaked = k.leaked
      BY <1>4 DEF CallType
    <2>3. calls' = [calls EXCEPT ![c] = g]
      BY <1>3, <1>8
    <2> HIDE DEF g
    <2>4. Ordered(c, g)
      BY <1>2, <1>3, <1>4, <2>2
         DEF Ordered, PublishSteps, ExportSteps, Unsent, Reconciling, Ending, Sealed
    <2>5. ASSUME ~Purged' PROVE Relies(c, g)'
      <3>1. Relies(c, k)
        BY <1>3, <1>5, <2>5, Lasting, Standing DEF PublicationInv
      <3>2. Relies(c, g)
        BY <1>4, <2>2, <3>1 DEF Relies
      <3> QED
        BY <1>5, <2>5, <3>2, ReliesLast DEF PublicationInv
    <2>6. Inside(c)
      BY <1>2 DEF Inside
    <2> QED
      BY <1>1, <1>2, <1>3, <1>5, <2>1, <2>2, <2>3, <2>4, <2>5, <2>6, InnerKeeps
  <1> QED
    BY <1>6, <1>7, <1>8 DEF Stage

LEMMA PublishKeeps == ASSUME PublicationInv, NEW c \in Calls, Publish(c) PROVE PublicationInv'
  <1>1. UNCHANGED <<busy, leases>> /\ files' = files
    BY DEF Publish, StoreOnly
  <1>2. calls[c].pc = "publish" /\ calls[c].pc \in PublishSteps
        /\ calls[c].pc \in Unsent /\ calls[c].pc \in Sealed
    BY DEF Publish, Unsent, PublishSteps, Sealed
  <1>3. PICK k : k = calls[c]
    OBVIOUS
  <1>4. /\ k \in CallType /\ Ordered(c, k) /\ c \in Publishers /\ c \notin Exporters
        /\ ~k.committed /\ ~k.recheck /\ k.digest = Inventory[c]
    BY <1>2, <1>3, Standing DEF Ordered
  <1>5. PICK d : d = Inventory[c]
    OBVIOUS
  <1>6. PICK b \in BOOLEAN :
           /\ StoreStep /\ (b => Stored(d)')
           /\ calls' = [calls EXCEPT ![c].pc = "reconcile", ![c].attempted = TRUE, ![c].committed = b]
    <2>1. ASSUME Store!PublishScan(Scope, Repository, Scan, ManifestOf(k.digest), FALSE)
          PROVE  StoreStep /\ Stored(d)'
      BY <1>4, <1>5, <2>1, PublishesInventory DEF Stored
    <2> QED
      BY <1>3, <2>1, Unchanged DEF Publish
  <1> DEFINE g == [k EXCEPT !.pc = "reconcile", !.attempted = TRUE, !.committed = b]
  <1>7. g \in CallType
    BY <1>4, <1>6 DEF CallType, CallSteps, PublishSteps, Reconciling
  <1>8. /\ g.pc = "reconcile" /\ g.digest = k.digest /\ g.answer = k.answer
        /\ g.begun = k.begun /\ g.attempted /\ g.committed = b
        /\ g.recheck = k.recheck /\ g.leaked = k.leaked
    BY <1>4 DEF CallType
  <1>9. calls' = [calls EXCEPT ![c] = g]
    BY <1>3, <1>6
  <1> HIDE DEF g
  <1>10. Ordered(c, g)
    BY <1>2, <1>3, <1>4, <1>8
       DEF Ordered, PublishSteps, ExportSteps, Unsent, Reconciling, Ending, Sealed
  <1>11. ASSUME ~Purged' PROVE Relies(c, g)'
    <2>1. Relies(c, k)
      BY <1>3, <1>6, <1>11, Lasting, Standing DEF PublicationInv
    <2>2. Relies(c, k)'
      BY <1>6, <1>11, <2>1, ReliesLast DEF PublicationInv
    <2> QED
      BY <1>4, <1>5, <1>6, <1>8, <2>2 DEF Relies, Ending
  <1>12. Inside(c)
    BY <1>2 DEF Inside
  <1> QED
    BY <1>1, <1>2, <1>3, <1>6, <1>7, <1>8, <1>9, <1>10, <1>11, <1>12, InnerKeeps

LEMMA FinishKeeps == ASSUME PublicationInv, NEW c \in Calls, Finish(c) PROVE PublicationInv'
  <1>1. UNCHANGED <<busy, leases>> /\ files' = files
    BY DEF Finish, StoreOnly
  <1>2. calls[c].pc = "finish" /\ calls[c].pc \in PublishSteps
    BY DEF Finish, PublishSteps
  <1>3. PICK k : k = calls[c]
    OBVIOUS
  <1>4. /\ k \in CallType /\ Ordered(c, k) /\ k.begun /\ ~k.committed
    BY <1>2, <1>3, Standing DEF Ordered, Reconciling, Ending
  <1>5. PICK f \in {"answered", "lost"} :
           /\ StoreStep /\ (f = "answered" /\ ~Purged' => Over')
           /\ calls' = [calls EXCEPT ![c].pc = "close", ![c].finish = f]
    <2>1. ASSUME \/ Store!CancelScan(Scope, Repository, Scan, "canceled")
                 \/ Store!FailScan(Scope, Repository, Scan, "failed")
          PROVE  StoreStep /\ Over'
      BY <2>1, FinishesScan DEF Over, PublicationInv
    <2>2. ASSUME ~Store!Running(Scan), UNCHANGED storeVars, ~Purged'
          PROVE  Over'
      <3>1. Relies(c, k)
        BY <1>3, <2>2, Standing DEF storeVars, Purged
      <3> QED
        BY <1>4, <2>2, <3>1 DEF Relies, Store!Running, Over, storeVars
    <2> QED
      BY <2>1, <2>2, Unchanged DEF Finish
  <1> DEFINE g == [k EXCEPT !.pc = "close", !.finish = f]
  <1>6. g \in CallType
    BY <1>4, <1>5 DEF CallType, CallSteps, Ending
  <1>7. /\ g.pc = "close" /\ g.digest = k.digest /\ g.answer = k.answer
        /\ g.begun = k.begun /\ g.attempted = k.attempted /\ g.committed = k.committed
        /\ g.recheck = k.recheck /\ g.leaked = k.leaked /\ g.finish = f
    BY <1>4 DEF CallType
  <1>8. calls' = [calls EXCEPT ![c] = g]
    BY <1>3, <1>5
  <1> HIDE DEF g
  <1>9. Ordered(c, g)
    BY <1>2, <1>3, <1>4, <1>7
       DEF Ordered, PublishSteps, ExportSteps, Unsent, Reconciling, Ending, Sealed
  <1>10. ASSUME ~Purged' PROVE Relies(c, g)'
    <2>1. Relies(c, k)
      BY <1>3, <1>5, <1>10, Lasting, Standing DEF PublicationInv
    <2>2. Relies(c, k)'
      BY <1>5, <1>10, <2>1, ReliesLast DEF PublicationInv
    <2> QED
      BY <1>4, <1>5, <1>7, <1>10, <2>2 DEF Relies
  <1>11. Inside(c)
    BY <1>2 DEF Inside
  <1> QED
    BY <1>1, <1>2, <1>3, <1>5, <1>6, <1>7, <1>8, <1>9, <1>10, <1>11, InnerKeeps

-----------------------------------------------------------------------------
(* Reconciliation *)

LEMMA SettleKeeps ==
    ASSUME PublicationInv, UNCHANGED storeVars, StoreOnly, NEW c \in Calls, NEW a \in CallAnswers,
           calls[c].pc \in Reconciling, Settle(c, a),
           ~Purged =>
              /\ Holds(a)
              /\ calls[c].begun /\ calls[c].attempted => a.kind \in {"receipt", "uncertain"} \/ Over
              /\ calls[c].committed => a.kind \in {"receipt", "uncertain"}
    PROVE  PublicationInv'
  <1>1. PICK b \in CallAnswers :
           /\ Conclude(c, b)
           /\ \/ b = a
              \/ calls[c].recheck /\ b = Problem("missing")
    BY DEF Settle, CallAnswers, Problems
  <1>2. Ordered(c, calls[c])
    BY Standing
  <1>3. calls[c].recheck => ~calls[c].attempted /\ ~calls[c].committed
    BY <1>2 DEF Ordered
  <1>4. StoreStep /\ UNCHANGED <<busy, leases>> /\ files' = files
    BY Unchanged DEF StoreOnly
  <1>5. ASSUME ~Purged'
        PROVE  /\ Holds(b)'
               /\ calls[c].begun /\ calls[c].attempted => b.kind \in {"receipt", "uncertain"} \/ Over'
               /\ calls[c].committed => b.kind \in {"receipt", "uncertain"}
    <2>1. ~Purged /\ Holds(b)
      BY <1>1, <1>5 DEF Holds, Problem, storeVars, Purged
    <2>2. Holds(b)' /\ (Over => Over')
      BY <1>4, <1>5, <2>1, HoldsLast, Lasting DEF PublicationInv
    <2> QED
      BY <1>1, <1>3, <2>1, <2>2
  <1>6. calls[c].pc \in PublishSteps \cup ExportSteps
    BY DEF PublishSteps
  <1> QED
    BY <1>1, <1>4, <1>5, <1>6, ConcludeKeeps

LEMMA UnprovedKeeps ==
    ASSUME PublicationInv, UNCHANGED storeVars, StoreOnly, NEW c \in Calls,
           calls[c].pc \in Reconciling, Settle(c, Unproved)
    PROVE  PublicationInv'
  <1>1. Unproved \in CallAnswers /\ Unproved.kind = "uncertain"
    BY DEF Unproved, CallAnswers, Problems, Problem
  <1> QED
    BY <1>1, SettleKeeps DEF Holds

LEMMA ReconcileKeeps == ASSUME PublicationInv, NEW c \in Calls, Reconcile(c) PROVE PublicationInv'
  <1> DEFINE state == IF ScanVisible THEN scans[Scan].state ELSE "missing"
  <1>1. UNCHANGED storeVars /\ StoreOnly /\ UNCHANGED <<busy, leases>> /\ files' = files
    BY DEF Reconcile, InMemory, StoreOnly
  <1>2. calls[c].pc = "reconcile" /\ calls[c].pc \in Reconciling /\ calls[c].pc \in PublishSteps
    BY DEF Reconcile, Reconciling, PublishSteps
  <1>3. /\ ScanVisible => Scan \in DOMAIN scans /\ scans[Scan].request = Revision
        /\ Scan \in DOMAIN publications <=> state = "succeeded"
    BY StoreRows DEF PublicationInv
  <1>4. CASE state = "succeeded" /\ Step(c, "get")
    <2>1. StoreStep /\ Scan \in DOMAIN publications'
      BY <1>1, <1>3, <1>4, Unchanged DEF storeVars
    <2> QED
      BY <1>1, <1>2, <1>4, <2>1, Standing, MoveKeeps
         DEF PublishSteps, Unsent, Reconciling, ExportSteps, Sealed
  <1>5. CASE state # "succeeded" /\ Settle(c, Reconciled(state))
    <2> DEFINE a == Reconciled(state)
    <2>1. a \in CallAnswers /\ a.kind \in {"terminated", "uncertain"}
      BY DEF Reconciled, CallAnswers, Problems, Problem
    <2>2. a.kind = "terminated" => Terminated /\ Over
      BY <1>3 DEF Reconciled, Problem, Store!FinishedStates, Terminated, Over
    <2>3. ~Purged => ~calls[c].committed
      BY <1>3, <1>5, Standing DEF Relies, Stored
    <2> HIDE DEF a
    <2>4. Holds(a)
      BY <2>1, <2>2 DEF Holds
    <2>5. ~Purged => /\ Holds(a)
                     /\ calls[c].begun /\ calls[c].attempted
                           => a.kind \in {"receipt", "uncertain"} \/ Over
                     /\ calls[c].committed => a.kind \in {"receipt", "uncertain"}
      BY <2>1, <2>2, <2>3, <2>4
    <2>6. Settle(c, a)
      BY <1>5 DEF a
    <2> QED
      BY <1>1, <1>2, <2>1, <2>5, <2>6, SettleKeeps
  <1>6. CASE Settle(c, Unproved)
    BY <1>1, <1>2, <1>6, UnprovedKeeps
  <1> QED
    BY <1>3, <1>4, <1>5, <1>6 DEF Reconcile

LEMMA GetScanKeeps == ASSUME PublicationInv, NEW c \in Calls, GetScan(c) PROVE PublicationInv'
  <1>1. UNCHANGED storeVars /\ StoreOnly /\ UNCHANGED <<busy, leases>> /\ files' = files
    BY DEF GetScan, InMemory, StoreOnly
  <1>2. calls[c].pc = "get" /\ calls[c].pc \in Reconciling /\ calls[c].pc \in PublishSteps
    BY DEF GetScan, Reconciling, PublishSteps
  <1>3. ~Purged => Scan \in DOMAIN publications /\ ScanVisible
    BY <1>2, Standing, StoreRows DEF Relies, PublicationInv
  <1>4. CASE Step(c, "compare")
    <2>1. StoreStep /\ (~Purged' => Scan \in DOMAIN publications')
      BY <1>1, <1>3, Unchanged DEF storeVars, Purged
    <2> QED
      BY <1>1, <1>2, <1>4, <2>1, Standing, MoveKeeps
         DEF PublishSteps, Unsent, Reconciling, ExportSteps, Sealed
  <1>5. CASE ~ScanVisible /\ Settle(c, Problem("missing"))
    <2>1. Problem("missing") \in CallAnswers
      BY DEF CallAnswers, Problems
    <2> QED
      BY <1>1, <1>2, <1>3, <1>5, <2>1, SettleKeeps
  <1>6. CASE Settle(c, Unproved)
    BY <1>1, <1>2, <1>6, UnprovedKeeps
  <1> QED
    BY <1>4, <1>5, <1>6 DEF GetScan

LEMMA InventoryRead ==
    ASSUME StoreInv, NEW d \in Payloads, Scan \in DOMAIN publications,
           Listed = ManifestOf(d).artifacts
    PROVE  Stored(d)
  <1>1. PICK e \in Payloads : publications[Scan].manifest = ManifestOf(e)
    BY StoreRows
  <1>2. Listed = [a \in {Artifact} |-> e] /\ Listed = [a \in {Artifact} |-> d]
    BY <1>1 DEF Listed, ManifestOf
  <1>3. e = d
    BY <1>2
  <1> QED
    BY <1>1, <1>3 DEF Stored

LEMMA CompareKeeps == ASSUME PublicationInv, NEW c \in Calls, Compare(c) PROVE PublicationInv'
  <1>1. UNCHANGED storeVars /\ StoreOnly
    BY DEF Compare, InMemory, StoreOnly
  <1>2. calls[c].pc = "compare" /\ calls[c].pc \in Reconciling /\ calls[c].pc \in PublishSteps
        /\ calls[c].pc \in Sealed
    BY DEF Compare, Reconciling, PublishSteps, Sealed
  <1>3. CASE Settle(c, Compared(calls[c].digest))
    <2>1. PICK d : d = Inventory[c]
      OBVIOUS
    <2>2. d \in Payloads /\ calls[c].digest = d
      BY <1>2, <2>1, Standing
    <2> DEFINE a == Compared(d)
    <2>3. /\ a \in CallAnswers
          /\ IF Listed = ManifestOf(d).artifacts
             THEN a.kind = "receipt" /\ a.digest = d ELSE a.kind = "integrity_failure"
      BY <2>2 DEF Compared, CallAnswers, Problems, Problem, Receipt
    <2> HIDE DEF a
    <2>4. ASSUME ~Purged
          PROVE  /\ Holds(a)
                 /\ Over
                 /\ calls[c].committed => a.kind \in {"receipt", "uncertain"}
      <3>1. Relies(c, calls[c])
        BY <2>4, Standing
      <3>2. Scan \in DOMAIN publications /\ Over
        BY <1>2, <3>1, PublishedIsOver DEF Relies, PublicationInv
      <3>3. Listed = ManifestOf(d).artifacts => Stored(d)
        BY <2>2, <3>2, InventoryRead DEF PublicationInv
      <3>4. Stored(d) => Listed = ManifestOf(d).artifacts
        BY DEF Stored, Listed
      <3> QED
        BY <2>1, <2>3, <3>1, <3>2, <3>3, <3>4 DEF Relies, Holds
    <2>5. Settle(c, a)
      BY <1>3, <2>2 DEF a
    <2> QED
      BY <1>1, <1>2, <2>3, <2>4, <2>5, SettleKeeps
  <1>4. CASE Settle(c, Unproved)
    BY <1>1, <1>2, <1>4, UnprovedKeeps
  <1> QED
    BY <1>3, <1>4 DEF Compare

-----------------------------------------------------------------------------
(* The steps of an Export call, and the end of a call *)

LEMMA ExportScanKeeps == ASSUME PublicationInv, NEW c \in Calls, ExportScan(c) PROVE PublicationInv'
  <1>1. UNCHANGED storeVars /\ StoreStep /\ UNCHANGED <<busy, leases>> /\ files' = files
    BY Unchanged DEF ExportScan, InMemory, StoreOnly
  <1>2. calls[c].pc = "export_scan" /\ calls[c].pc \in Working /\ calls[c].pc \in ExportSteps
    BY DEF ExportScan, Working, ExportSteps
  <1>3. CASE ScanVisible /\ scans[Scan].state = "succeeded" /\ Step(c, "export_list")
    <2>1. Scan \in DOMAIN publications'
      BY <1>1, <1>3, StoreRows DEF PublicationInv, storeVars
    <2> QED
      BY <1>1, <1>2, <1>3, <2>1, Standing, MoveKeeps
         DEF PublishSteps, Unsent, Reconciling, ExportSteps, Sealed
  <1>4. ASSUME NEW e \in {"missing", "conflict"}, Conclude(c, Problem(e)) PROVE PublicationInv'
    BY <1>1, <1>2, <1>4, ProblemKeeps DEF Problems
  <1>5. CASE Interrupt(c)
    BY <1>1, <1>2, <1>5, InterruptKeeps
  <1> QED
    BY <1>3, <1>4, <1>5 DEF ExportScan

LEMMA ExportListKeeps == ASSUME PublicationInv, NEW c \in Calls, ExportList(c) PROVE PublicationInv'
  <1>1. UNCHANGED storeVars /\ StoreStep /\ UNCHANGED <<busy, leases>> /\ files' = files
    BY Unchanged DEF ExportList, InMemory, StoreOnly
  <1>2. calls[c].pc = "export_list" /\ calls[c].pc \in Working /\ calls[c].pc \in ExportSteps
    BY DEF ExportList, Working, ExportSteps
  <1>3. ASSUME Artifact \in DOMAIN Listed,
               calls' = [calls EXCEPT ![c].pc = "export", ![c].digest = Listed[Artifact]]
        PROVE  PublicationInv'
    <2>1. PICK k : k = calls[c]
      OBVIOUS
    <2>2. Scan \in DOMAIN publications
      BY <1>3 DEF Listed, Store!Empty
    <2>3. PICK d \in Payloads : publications[Scan].manifest = ManifestOf(d)
      BY <2>2, StoreRows DEF PublicationInv
    <2>4. Listed[Artifact] = d /\ Stored(d)
      BY <2>2, <2>3 DEF Listed, ManifestOf, Stored
    <2> DEFINE g == [k EXCEPT !.pc = "export", !.digest = d]
    <2>5. /\ k \in CallType /\ Ordered(c, k) /\ c \in Exporters /\ c \notin Publishers
          /\ ~k.begun /\ ~k.committed
      BY <1>2, <2>1, Standing
    <2>6. g \in CallType
      BY <2>5 DEF CallType, CallSteps, ExportSteps
    <2>7. /\ g.pc = "export" /\ g.digest = d /\ g.answer = k.answer
          /\ g.begun = k.begun /\ g.attempted = k.attempted /\ g.committed = k.committed
          /\ g.recheck = k.recheck /\ g.leaked = k.leaked
      BY <2>5 DEF CallType
    <2>8. calls' = [calls EXCEPT ![c] = g]
      BY <1>3, <2>1, <2>4
    <2> HIDE DEF g
    <2>9. Ordered(c, g)
      BY <2>5, <2>7 DEF Ordered, PublishSteps, ExportSteps, Unsent, Reconciling, Ending, Sealed
    <2>10. ASSUME ~Purged' PROVE Relies(c, g)'
      <3>1. Relies(c, k)
        BY <1>1, <2>1, <2>10, Lasting, Standing DEF PublicationInv
      <3>2. Relies(c, g)
        BY <2>4, <2>5, <2>7, <3>1 DEF Relies
      <3> QED
        BY <1>1, <2>10, <3>2, ReliesLast DEF PublicationInv
    <2>11. Inside(c)
      BY <1>2 DEF Inside
    <2> QED
      BY <1>1, <1>2, <2>1, <2>6, <2>7, <2>8, <2>9, <2>10, <2>11, InnerKeeps
  <1>4. CASE Conclude(c, Problem("integrity_failure"))
    BY <1>1, <1>2, <1>4, ProblemKeeps DEF Problems
  <1>5. CASE Interrupt(c)
    BY <1>1, <1>2, <1>5, InterruptKeeps
  <1> QED
    BY <1>3, <1>4, <1>5 DEF ExportList

LEMMA ExportPayloadKeeps ==
    ASSUME PublicationInv, NEW c \in Calls, ExportPayload(c) PROVE PublicationInv'
  <1>1. /\ UNCHANGED storeVars /\ StoreStep /\ UNCHANGED <<busy, leases>>
        /\ files' \subseteq files \cup {c}
    BY Unchanged DEF ExportPayload, Spill
  <1>2. calls[c].pc = "export" /\ calls[c].pc \in Working /\ calls[c].pc \in ExportSteps
    BY DEF ExportPayload, Working, ExportSteps
  <1>3. ASSUME NEW b \in Contents, Conclude(c, Exported(Hash[b])), Hash[b] = calls[c].digest
        PROVE  PublicationInv'
    <2>1. PICK a : a = Exported(Hash[b])
      OBVIOUS
    <2>2. /\ a \in CallAnswers /\ a.kind = "exported" /\ a.digest = Hash[b]
      BY <2>1, PublishedAssumption DEF CallAnswers, Exported
    <2>3. ASSUME ~Purged' PROVE Holds(a)'
      <3>1. Stored(Hash[b])
        BY <1>1, <1>2, <1>3, <2>3, Lasting, Standing DEF PublicationInv, Relies
      <3>2. Holds(a)
        BY <2>2, <3>1 DEF Holds
      <3> QED
        BY <1>1, <2>3, <3>2, HoldsLast DEF PublicationInv
    <2>4. ~calls[c].begun /\ ~calls[c].committed
      BY <1>2, Standing
    <2> QED
      BY <1>1, <1>2, <1>3, <2>1, <2>2, <2>3, <2>4, ConcludeKeeps
  <1>4. ASSUME NEW e \in {"missing", "integrity_failure"}, Conclude(c, Problem(e))
        PROVE  PublicationInv'
    BY <1>1, <1>2, <1>4, ProblemKeeps DEF Problems
  <1>5. CASE Interrupt(c)
    BY <1>1, <1>2, <1>5, InterruptKeeps
  <1> QED
    BY <1>3, <1>4, <1>5 DEF ExportPayload, Delivered

LEMMA CloseKeeps == ASSUME PublicationInv, NEW c \in Calls, Close(c) PROVE PublicationInv'
  <1>1. /\ UNCHANGED storeVars /\ StoreStep /\ UNCHANGED <<busy, leases>>
        /\ calls[c].pc = "close" /\ files' \subseteq files
    BY Unchanged DEF Close, Removed
  <1>2. PICK k : k = calls[c]
    OBVIOUS
  <1>3. k \in CallType /\ Ordered(c, k)
    BY <1>2, Standing
  <1>4. PICK l \in BOOLEAN, a \in CallAnswers :
           /\ calls' = [calls EXCEPT ![c] = [k EXCEPT !.pc = "release", !.leaked = l, !.answer = a]]
           /\ k.leaked => l
           /\ c \in files' => l
           /\ \/ a = k.answer
              \/ k.answer.kind \in {"receipt", "exported"} /\ a = Problem("cleanup_failed")
    <2>1. CASE files' = Removed(c) /\ Step(c, "release")
      <3>1. [k EXCEPT !.pc = "release", !.leaked = k.leaked, !.answer = k.answer]
               = [k EXCEPT !.pc = "release"]
        BY <1>3 DEF CallType
      <3>2. calls' = [calls EXCEPT ![c] = [k EXCEPT !.pc = "release", !.leaked = k.leaked,
                                                    !.answer = k.answer]]
        <4>1. calls' = [calls EXCEPT ![c] = [k EXCEPT !.pc = "release"]]
          BY <1>2, <2>1 DEF Step
        <4> QED
          BY <3>1, <4>1, Zenon
      <3>3. k.leaked \in BOOLEAN /\ k.answer \in CallAnswers /\ c \notin files'
        BY <1>3, <2>1 DEF CallType, Removed
      <3> QED
        BY <3>2, <3>3
    <2>2. CASE ~(files' = Removed(c) /\ Step(c, "release"))
      <3> DEFINE a == IF k.answer.kind \in {"receipt", "exported"}
                      THEN Problem("cleanup_failed") ELSE k.answer
      <3>1. calls' = [calls EXCEPT ![c] = [k EXCEPT !.pc = "release", !.leaked = TRUE, !.answer = a]]
        BY <1>2, <2>2 DEF Close
      <3>2. a \in CallAnswers
        BY <1>3 DEF CallAnswers, Problems, CallType
      <3>3. \/ a = k.answer
            \/ k.answer.kind \in {"receipt", "exported"} /\ a = Problem("cleanup_failed")
        OBVIOUS
      <3> HIDE DEF a
      <3> QED
        BY <3>1, <3>2, <3>3
    <2> QED
      BY <2>1, <2>2
  <1> DEFINE g == [k EXCEPT !.pc = "release", !.leaked = l, !.answer = a]
  <1>6. g \in CallType
    BY <1>3, <1>4 DEF CallType, CallSteps, Ending
  <1>7. /\ g.pc = "release" /\ g.digest = k.digest /\ g.answer = a
        /\ g.begun = k.begun /\ g.attempted = k.attempted /\ g.committed = k.committed
        /\ g.recheck = k.recheck /\ g.leaked = l /\ g.finish = k.finish
    BY <1>3 DEF CallType
  <1>8. calls' = [calls EXCEPT ![c] = g]
    BY <1>4
  <1> HIDE DEF g
  <1>9. Ordered(c, g)
    BY <1>1, <1>2, <1>3, <1>7
       DEF Ordered, PublishSteps, ExportSteps, Unsent, Reconciling, Ending, Sealed
  <1>10. ASSUME ~Purged' PROVE Relies(c, g)'
    <2>1. Relies(c, k)
      BY <1>1, <1>2, <1>10, Lasting, Standing DEF PublicationInv
    <2>2. a.kind = "uncertain" <=> k.answer.kind = "uncertain"
      BY <1>4 DEF Problem
    <2>3. Relies(c, g)
      <3>1. Holds(a)
        BY <1>4, <2>1 DEF Relies, Holds, Problem
      <3>2. k.committed => a.kind \in {"receipt", "uncertain", "cleanup_failed"}
        BY <1>1, <1>2, <1>4, <2>1 DEF Relies, Ending, Problem
      <3> QED
        BY <1>1, <1>2, <1>7, <2>1, <2>2, <3>1, <3>2 DEF Relies
    <2> QED
      BY <1>1, <1>10, <2>3, ReliesLast DEF PublicationInv
  <1>11. Inside(c)
    BY <1>1 DEF Inside
  <1> QED
    BY <1>1, <1>2, <1>4, <1>6, <1>7, <1>8, <1>9, <1>10, <1>11, InnerKeeps

-----------------------------------------------------------------------------
(* The gate *)

Outward == {"acquire", "encode", "export_scan", "returned", "crashed"}

\* A call that is outside, or about to be, relies on what it did before.
LEMMA OuterFits ==
    ASSUME PublicationInv, UNCHANGED storeVars, NEW c \in Calls, NEW a \in CallAnswers,
           NEW p \in Outward,
           \/ p \in {"acquire", "encode", "export_scan"} /\ calls[c].pc \in {"idle", "acquire"}
           \/ p = "returned" /\ calls[c].pc \in {"idle", "acquire", "release"}
           \/ p = "crashed",
           p = "encode" => c \in Publishers, p = "export_scan" => c \in Exporters,
           \/ a = calls[c].answer
           \/ calls[c].pc \in {"idle", "acquire"} /\ a.kind \in {"busy", "unavailable"}
    PROVE  LET g == [calls[c] EXCEPT !.pc = p, !.answer = a] IN
           /\ g \in CallType /\ Ordered(c, g) /\ g.pc = p /\ g.leaked = calls[c].leaked
           /\ \A h : h = g => (~Purged' => Relies(c, h)')
  <1> PICK g : g = [calls[c] EXCEPT !.pc = p, !.answer = a]
    OBVIOUS
  <1>1. PICK k : k = calls[c]
    OBVIOUS
  <1>2. /\ k \in CallType /\ Ordered(c, k)
        /\ calls[c].pc \in {"idle", "acquire"} => ~k.committed
    BY <1>1, Standing DEF Unsent
  <1>3. g \in CallType
    BY <1>1, <1>2 DEF Outward, CallType, CallSteps, Unsent, PublishSteps, ExportSteps, Ending
  <1>4. /\ g.pc = p /\ g.digest = k.digest /\ g.answer = a
        /\ g.begun = k.begun /\ g.attempted = k.attempted /\ g.committed = k.committed
        /\ g.recheck = k.recheck /\ g.leaked = k.leaked /\ g.finish = k.finish
    BY <1>1, <1>2 DEF CallType
  <1>5. Ordered(c, g)
    BY <1>1, <1>2, <1>4, BridgeAssumption
       DEF Outward, Ordered, PublishSteps, ExportSteps, Unsent, Reconciling, Ending, Sealed
  <1>6. ASSUME ~Purged' PROVE Relies(c, g)'
    <2>1. ~Purged
      BY <1>6 DEF storeVars, Purged
    <2>2. Relies(c, k)
      BY <1>1, <2>1, Standing
    <2>3. Relies(c, g)
      BY <1>1, <1>2, <1>4, <2>2 DEF Outward, Relies, Holds, Ending
    <2> QED
      BY <1>6, <2>3, Unchanged, ReliesLast DEF PublicationInv
  <1> QED
    BY <1>1, <1>3, <1>4, <1>5, <1>6

LEMMA StepsTo ==
    ASSUME PublicationInv, NEW c \in Calls, NEW p, Step(c, p)
    PROVE  /\ calls[c].answer \in CallAnswers /\ DOMAIN calls' = Calls
           /\ calls'[c] = [calls[c] EXCEPT !.pc = p, !.answer = calls[c].answer]
           /\ \A d \in Calls : d # c => calls'[d] = calls[d]
  <1>1. calls[c] \in CallType
    BY Standing
  <1>2. [calls[c] EXCEPT !.pc = p, !.answer = calls[c].answer] = [calls[c] EXCEPT !.pc = p]
    BY <1>1 DEF CallType
  <1>3. calls'[c] = [calls[c] EXCEPT !.pc = p]
    BY DEF PublicationInv, Step
  <1>4. DOMAIN calls' = Calls /\ \A d \in Calls : d # c => calls'[d] = calls[d]
    BY DEF PublicationInv, Step
  <1>5. calls[c].answer \in CallAnswers
    BY <1>1 DEF CallType
  <1> QED
    BY <1>2, <1>3, <1>4, <1>5, Zenon

LEMMA OuterStep ==
    ASSUME PublicationInv, UNCHANGED storeVars, NEW c \in Calls,
           NEW p \in Outward, Step(c, p),
           \/ p \in {"acquire", "encode", "export_scan"} /\ calls[c].pc \in {"idle", "acquire"}
           \/ p = "returned" /\ calls[c].pc \in {"idle", "acquire", "release"}
           \/ p = "crashed",
           p = "encode" => c \in Publishers, p = "export_scan" => c \in Exporters
    PROVE  LET g == [calls[c] EXCEPT !.pc = p, !.answer = calls[c].answer] IN
           /\ calls'[c] = g /\ DOMAIN calls' = Calls
           /\ \A d \in Calls : d # c => calls'[d] = calls[d]
           /\ g \in CallType /\ Ordered(c, g) /\ g.pc = p /\ g.leaked = calls[c].leaked
           /\ \A h : h = g => (~Purged' => Relies(c, h)')
  <1> DEFINE g == [calls[c] EXCEPT !.pc = p, !.answer = calls[c].answer]
  <1>1. /\ calls[c].answer \in CallAnswers /\ calls'[c] = g /\ DOMAIN calls' = Calls
        /\ \A d \in Calls : d # c => calls'[d] = calls[d]
    BY StepsTo
  <1>2. /\ g \in CallType /\ Ordered(c, g) /\ g.pc = p /\ g.leaked = calls[c].leaked
        /\ \A h : h = g => (~Purged' => Relies(c, h)')
    BY <1>1, OuterFits
  <1> QED
    BY <1>1, <1>2, Zenon

LEMMA AdmitKeeps == ASSUME PublicationInv, NEW c \in Calls, Admit(c) PROVE PublicationInv'
  <1>1. /\ UNCHANGED storeVars /\ StoreStep /\ UNCHANGED <<leases, files>>
        /\ calls[c].pc = "idle" /\ ~Inside(c)
    BY Unchanged DEF Admit, Inside
  <1>2. c \notin leases
    BY <1>1 DEF PublicationInv, GateInv
  <1>3. CASE At[c] \in busy
    <2> DEFINE a == Problem("busy")
    <2>1. calls' = [calls EXCEPT ![c] = [calls[c] EXCEPT !.pc = "returned", !.answer = a]]
          /\ UNCHANGED busy
      BY <1>3 DEF Admit, Return
    <2>2. a \in CallAnswers /\ a.kind = "busy"
      BY DEF CallAnswers, Problems, Problem
    <2> HIDE DEF a
    <2>3. PICK g : g = [calls[c] EXCEPT !.pc = "returned", !.answer = a]
      OBVIOUS
    <2>4. g \in CallType /\ Ordered(c, g) /\ (~Purged' => Relies(c, g)')
          /\ g.pc = "returned" /\ g.leaked = calls[c].leaked
      BY <1>1, <2>2, <2>3, OuterFits DEF Outward
    <2>5. calls'[c] = g /\ DOMAIN calls' = Calls /\ \A d \in Calls : d # c => calls'[d] = calls[d]
      BY <2>1, <2>3 DEF PublicationInv
    <2>6. \A d \in Calls : Inside(d)' <=> Inside(d)
      BY <1>1, <2>4, <2>5 DEF Inside
    <2>7. GateInv'
      BY <1>1, <1>2, <2>1, <2>4, <2>5, <2>6 DEF PublicationInv, GateInv
    <2> QED
      BY <1>1, <2>4, <2>5, <2>7, CallsKeep
  <1>4. CASE At[c] \notin busy
    <2>1. Step(c, "acquire") /\ busy' = busy \cup {At[c]}
      BY <1>4 DEF Admit
    <2>2. PICK g : g = [calls[c] EXCEPT !.pc = "acquire", !.answer = calls[c].answer]
      OBVIOUS
    <2>3. /\ calls'[c] = g /\ DOMAIN calls' = Calls
          /\ \A d \in Calls : d # c => calls'[d] = calls[d]
          /\ g \in CallType /\ Ordered(c, g) /\ (~Purged' => Relies(c, g)')
          /\ g.pc = "acquire" /\ g.leaked = calls[c].leaked
      BY <1>1, <2>1, <2>2, OuterStep DEF Outward
    <2>4. Inside(c)' /\ \A d \in Calls : d # c => (Inside(d)' <=> Inside(d))
      BY <2>3 DEF Inside
    <2>5. GateInv'
      BY <1>1, <1>2, <1>4, <2>1, <2>3, <2>4 DEF PublicationInv, GateInv
    <2> QED
      BY <1>1, <2>3, <2>5, CallsKeep
  <1> QED
    BY <1>3, <1>4

\* A call that returns gives back its lease and the gate.
LEMMA Leaves ==
    ASSUME PublicationInv, NEW c \in Calls, Inside(c), NEW g,
           calls'[c] = g, \A d \in Calls : d # c => calls'[d] = calls[d],
           g.pc = "returned", g.leaked = calls[c].leaked,
           busy' = busy \ {At[c]}, UNCHANGED files,
           \/ calls[c].pc = "acquire" /\ UNCHANGED leases
           \/ leases' = leases \ {c} /\ (c \in files => calls[c].leaked)
    PROVE  GateInv'
  <1>1. ~Inside(c)' /\ \A d \in Calls : d # c => (Inside(d)' <=> Inside(d))
    BY DEF Inside
  <1>2. \A d \in Calls : d # c /\ Inside(d) => At[d] # At[c]
    BY DEF PublicationInv, GateInv
  <1>3. leases' = leases \ {c}
    BY DEF PublicationInv, GateInv
  <1>4. leases' = {d \in Calls : Inside(d)' /\ calls'[d].pc # "acquire"}
    BY <1>1, <1>3 DEF PublicationInv, GateInv
  <1>5. /\ \A d \in Calls : Inside(d)' => At[d] \in busy'
        /\ \A i \in busy' : \E d \in Calls : At[d] = i /\ Inside(d)'
        /\ \A d, e \in Calls : Inside(d)' /\ Inside(e)' /\ At[d] = At[e] => d = e
    BY <1>1, <1>2 DEF PublicationInv, GateInv
  <1>6. ASSUME NEW d \in files'
        PROVE  /\ d \in Calls
               /\ d \in leases' \/ calls'[d].leaked \/ calls'[d].pc = "crashed"
               /\ calls'[d].pc = "release" => calls'[d].leaked
    <2>1. d \in files
      BY <1>6
    <2> QED
      BY <1>3, <2>1 DEF PublicationInv, GateInv, Inside
  <1> QED
    BY <1>4, <1>5, <1>6 DEF GateInv

LEMMA AcquireKeeps == ASSUME PublicationInv, NEW c \in Calls, Acquire(c) PROVE PublicationInv'
  <1>1. /\ UNCHANGED storeVars /\ StoreStep /\ UNCHANGED files
        /\ calls[c].pc = "acquire" /\ Inside(c) /\ c \in Publishers \cup Exporters
    BY Unchanged DEF Acquire, Inside, Calls
  <1>2. c \notin leases
    BY <1>1 DEF PublicationInv, GateInv
  <1>3. CASE /\ Step(c, IF c \in Publishers THEN "encode" ELSE "export_scan")
             /\ leases' = leases \cup {c} /\ UNCHANGED busy
    <2>1. PICK p \in {"encode", "export_scan"} :
             /\ Step(c, p) /\ (p = "encode" => c \in Publishers)
             /\ (p = "export_scan" => c \in Exporters)
      BY <1>1, <1>3
    <2>2. PICK g : g = [calls[c] EXCEPT !.pc = p, !.answer = calls[c].answer]
      OBVIOUS
    <2>3. /\ calls'[c] = g /\ DOMAIN calls' = Calls
          /\ \A d \in Calls : d # c => calls'[d] = calls[d]
          /\ g \in CallType /\ Ordered(c, g) /\ (~Purged' => Relies(c, g)')
          /\ g.pc = p /\ g.leaked = calls[c].leaked
      BY <1>1, <2>1, <2>2, OuterStep DEF Outward
    <2>4. \A d \in Calls : Inside(d)' <=> Inside(d)
      BY <1>1, <2>1, <2>3 DEF Inside
    <2>5. GateInv'
      BY <1>1, <1>2, <1>3, <2>1, <2>3, <2>4 DEF PublicationInv, GateInv
    <2> QED
      BY <1>1, <2>3, <2>5, CallsKeep
  <1>4. CASE Return(c, Problem("unavailable")) /\ busy' = busy \ {At[c]} /\ UNCHANGED leases
    <2> DEFINE a == Problem("unavailable")
    <2>1. calls' = [calls EXCEPT ![c] = [calls[c] EXCEPT !.pc = "returned", !.answer = a]]
      BY <1>4 DEF Return
    <2>2. a \in CallAnswers /\ a.kind = "unavailable"
      BY DEF CallAnswers, Problems, Problem
    <2> HIDE DEF a
    <2>3. PICK g : g = [calls[c] EXCEPT !.pc = "returned", !.answer = a]
      OBVIOUS
    <2>4. g \in CallType /\ Ordered(c, g) /\ (~Purged' => Relies(c, g)')
          /\ g.pc = "returned" /\ g.leaked = calls[c].leaked
      BY <1>1, <2>2, <2>3, OuterFits DEF Outward
    <2>5. calls'[c] = g /\ DOMAIN calls' = Calls /\ \A d \in Calls : d # c => calls'[d] = calls[d]
      BY <2>1, <2>3 DEF PublicationInv
    <2>6. GateInv'
      BY <1>1, <1>2, <1>4, <2>4, <2>5, Leaves
    <2> QED
      BY <1>1, <2>4, <2>5, <2>6, CallsKeep
  <1> QED
    BY <1>3, <1>4 DEF Acquire

LEMMA ReleaseKeeps == ASSUME PublicationInv, NEW c \in Calls, Release(c) PROVE PublicationInv'
  <1>1. /\ UNCHANGED storeVars /\ StoreStep /\ UNCHANGED files /\ calls[c].pc = "release"
        /\ Inside(c) /\ Step(c, "returned") /\ leases' = leases \ {c} /\ busy' = busy \ {At[c]}
    BY Unchanged DEF Release, Inside
  <1>2. PICK g : g = [calls[c] EXCEPT !.pc = "returned", !.answer = calls[c].answer]
    OBVIOUS
  <1>3. /\ calls'[c] = g /\ DOMAIN calls' = Calls
        /\ \A d \in Calls : d # c => calls'[d] = calls[d]
        /\ g \in CallType /\ Ordered(c, g) /\ (~Purged' => Relies(c, g)')
        /\ g.pc = "returned" /\ g.leaked = calls[c].leaked
    BY <1>1, <1>2, OuterStep DEF Outward
  <1>4. c \in files => calls[c].leaked
    BY <1>1 DEF PublicationInv, GateInv
  <1>5. GateInv'
    BY <1>1, <1>3, <1>4, Leaves
  <1> QED
    BY <1>1, <1>3, <1>5, CallsKeep

LEMMA EndWorkKeeps == ASSUME PublicationInv, NEW c \in Calls, EndWork(c) PROVE PublicationInv'
  <1>1. PICK k : k = calls[c]
    OBVIOUS
  <1>2. k \in CallType /\ Ordered(c, k)
    BY <1>1, Standing
  <1> DEFINE g == [k EXCEPT !.ended = TRUE]
  <1>3. g \in CallType
    BY <1>2 DEF CallType
  <1>4. /\ g.pc = k.pc /\ g.digest = k.digest /\ g.answer = k.answer /\ g.begun = k.begun
        /\ g.attempted = k.attempted /\ g.committed = k.committed /\ g.recheck = k.recheck
        /\ g.leaked = k.leaked /\ g.finish = k.finish
    BY <1>2 DEF CallType
  <1>5. calls'[c] = g /\ DOMAIN calls' = Calls /\ \A d \in Calls : d # c => calls'[d] = calls[d]
    BY <1>1 DEF EndWork, PublicationInv
  <1> HIDE DEF g
  <1>6. Ordered(c, g)
    BY <1>2, <1>4 DEF Ordered
  <1>7. UNCHANGED storeVars /\ StoreStep /\ UNCHANGED <<busy, leases, files>>
    BY Unchanged DEF EndWork, InMemory, StoreOnly
  <1>8. ASSUME ~Purged' PROVE Relies(c, g)'
    <2>1. ~Purged
      BY <1>7, <1>8 DEF storeVars, Purged
    <2>2. Relies(c, k)
      BY <1>1, <2>1, Standing
    <2>3. Relies(c, g)
      BY <1>4, <2>2 DEF Relies
    <2> QED
      BY <1>7, <1>8, <2>3, ReliesLast DEF PublicationInv
  <1>9. GateInv'
    <2>1. \A d \in Calls : calls'[d].pc = calls[d].pc /\ calls'[d].leaked = calls[d].leaked
      BY <1>1, <1>4, <1>5
    <2>2. \A d \in Calls : Inside(d)' <=> Inside(d)
      BY <2>1 DEF Inside
    <2> QED
      BY <1>7, <2>1, <2>2 DEF PublicationInv, GateInv
  <1> QED
    BY <1>3, <1>5, <1>6, <1>7, <1>8, <1>9, CallsKeep

LEMMA CrashKeeps ==
    ASSUME PublicationInv, NEW i \in Instances, Crash(i) PROVE PublicationInv'
  <1>1. /\ UNCHANGED storeVars /\ StoreStep /\ UNCHANGED files /\ busy' = busy \ {i}
        /\ leases' = {c \in leases : At[c] # i}
    BY Unchanged DEF Crash
  <1>2. DOMAIN calls' = Calls
    BY DEF Crash
  <1>3. ASSUME NEW c \in Calls
        PROVE  /\ Fits(c, calls[c])'
               /\ calls'[c].leaked = calls[c].leaked
               /\ IF At[c] = i /\ Inside(c) THEN calls'[c].pc = "crashed"
                  ELSE calls'[c].pc = calls[c].pc
    <2>1. CASE At[c] = i /\ Inside(c)
      <3>1. PICK k : k = calls[c]
        OBVIOUS
      <3>2. k \in CallType /\ Ordered(c, k)
        BY <3>1, Standing
      <3>3. PICK g : g = [k EXCEPT !.pc = "crashed"]
        OBVIOUS
      <3>4. g \in CallType
        BY <3>2, <3>3 DEF CallType, CallSteps
      <3>5. /\ g.pc = "crashed" /\ g.digest = k.digest /\ g.answer = k.answer /\ g.begun = k.begun
            /\ g.attempted = k.attempted /\ g.committed = k.committed /\ g.recheck = k.recheck
            /\ g.leaked = k.leaked /\ g.finish = k.finish
        BY <3>2, <3>3 DEF CallType
      <3>6. calls'[c] = g
        BY <2>1, <3>1, <3>3 DEF Crash
      <3>7. Ordered(c, g)
        BY <3>2, <3>5 DEF Ordered, PublishSteps, ExportSteps, Unsent, Reconciling, Ending, Sealed
      <3>8. ASSUME ~Purged PROVE Relies(c, g)
        <4>1. Relies(c, k)
          BY <3>1, <3>8, Standing
        <4> QED
          BY <3>5, <4>1 DEF Relies, Ending
      <3>9. Fits(c, g)'
        BY <1>1, <3>4, <3>7, <3>8, FitsLast DEF PublicationInv, Fits
      <3> QED
        BY <2>1, <3>1, <3>5, <3>6, <3>9
    <2>2. CASE ~(At[c] = i /\ Inside(c))
      <3>1. PICK k : k = calls[c]
        OBVIOUS
      <3>2. Fits(c, k)'
        BY <1>1, <3>1, FitsLast DEF PublicationInv
      <3>3. calls'[c] = k
        BY <2>2, <3>1 DEF Crash
      <3> QED
        BY <2>2, <3>1, <3>2, <3>3
    <2> QED
      BY <2>1, <2>2
  <1>4. \A c \in Calls : Inside(c)' <=> Inside(c) /\ At[c] # i
    BY <1>3 DEF Inside
  <1>5. GateInv'
    BY <1>1, <1>3, <1>4 DEF PublicationInv, GateInv
  <1> QED
    BY <1>1, <1>2, <1>3, <1>5, Lasting DEF PublicationInv

LEMMA EnvironmentKeeps == ASSUME PublicationInv, Environment PROVE PublicationInv'
  <1>1. StoreStep /\ UNCHANGED bridgeVars
    BY EnvironmentStep DEF Environment
  <1>2. ASSUME NEW c \in Calls PROVE Fits(c, calls[c])'
    <2>1. PICK k : k = calls[c]
      OBVIOUS
    <2>2. Fits(c, k)'
      BY <1>1, <2>1, FitsLast DEF PublicationInv
    <2> QED
      BY <1>1, <2>1, <2>2 DEF bridgeVars
  <1>3. GateInv' /\ DOMAIN calls' = Calls
    BY <1>1 DEF PublicationInv, GateInv, bridgeVars, Inside
  <1> QED
    BY <1>1, <1>2, <1>3, Lasting DEF PublicationInv

-----------------------------------------------------------------------------
(* Every step *)

LEMMA InitSound == PublicationInit => PublicationInv
  <1> SUFFICES ASSUME PublicationInit PROVE PublicationInv
    OBVIOUS
  <1>1. StoreInv
    <2>1. Facts!Init
      BY SameInit DEF PublicationInit
    <2>2. Facts!Consistent
      BY <2>1, Assumed, Facts!InitConsistent DEF Facts!InitConsistent
    <2>3. scans = Store!Empty /\ repositories = Store!Empty /\ publications = Store!Empty
      BY DEF PublicationInit, Store!Init
    <2>4. Facts!OnlyRepository(Scope, Repository)
      BY <2>3 DEF Facts!OnlyRepository, Store!Empty
    <2> QED
      BY <2>2, <2>3, <2>4 DEF StoreInv, OneRevision, OnlyInventories, Store!Empty
  <1>2. GateInv
    BY DEF PublicationInit, GateInv, Inside, Idle
  <1>3. ASSUME NEW c \in Calls PROVE Fits(c, calls[c])
    <2>1. calls[c] = Idle
      BY DEF PublicationInit
    <2>2. Problem("pending") \in CallAnswers
      BY DEF CallAnswers, Problems
    <2>3. Idle \in CallType
      BY <2>2 DEF Idle, CallType, CallSteps, Unsent
    <2>4. Ordered(c, Idle)
      BY DEF Ordered, Idle, PublishSteps, ExportSteps, Unsent, Reconciling, Sealed
    <2>5. Relies(c, Idle)
      BY DEF Relies, Holds, Idle, Problem
    <2> QED
      BY <2>1, <2>3, <2>4, <2>5 DEF Fits
  <1> QED
    BY <1>1, <1>2, <1>3 DEF PublicationInv, PublicationInit

LEMMA NextSound == PublicationInv /\ [PublicationNext]_publicationVars => PublicationInv'
  <1> SUFFICES ASSUME PublicationInv, [PublicationNext]_publicationVars PROVE PublicationInv'
    OBVIOUS
  <1>1. ASSUME NEW c \in Calls, CallNext(c) PROVE PublicationInv'
    BY <1>1, AcquireKeeps, EncodeKeeps, SealKeeps, CheckRepositoryKeeps, LookupKeeps, BeginKeeps,
       StageKeeps, PublishKeeps, ReconcileKeeps, GetScanKeeps, CompareKeeps, FinishKeeps,
       ExportScanKeeps, ExportListKeeps, ExportPayloadKeeps, CloseKeeps, ReleaseKeeps, Zenon
       DEF CallNext
  <1>2. CASE UNCHANGED publicationVars
    <2>1. StoreStep /\ UNCHANGED bridgeVars
      BY <1>2, Unchanged DEF publicationVars
    <2>2. ASSUME NEW c \in Calls PROVE Fits(c, calls[c])'
      <3>1. PICK k : k = calls[c]
        OBVIOUS
      <3>2. Fits(c, k)'
        BY <2>1, <3>1, FitsLast DEF PublicationInv
      <3> QED
        BY <2>1, <3>1, <3>2 DEF bridgeVars
    <2>3. GateInv' /\ DOMAIN calls' = Calls
      BY <2>1 DEF PublicationInv, GateInv, bridgeVars, Inside
    <2> QED
      BY <2>1, <2>2, <2>3, Lasting DEF PublicationInv
  <1> QED
    BY <1>1, <1>2, AdmitKeeps, EndWorkKeeps, CrashKeeps, EnvironmentKeeps, Zenon
       DEF PublicationNext

LEMMA AlwaysSound == PublicationSpec => []PublicationInv
  BY InitSound, NextSound, PTL DEF PublicationSpec

\* Every step of the bridge is a transaction of the store, or none.
LEMMA StepStore == PublicationInv /\ [PublicationNext]_publicationVars => [Store!Next]_storeVars
  <1> SUFFICES ASSUME PublicationInv, [PublicationNext]_publicationVars
               PROVE  Store!Next \/ UNCHANGED storeVars
    OBVIOUS
  <1>1. ASSUME NEW c \in Calls, Begin(c) PROVE StoreStep
    <2>1. c \in Publishers /\ calls[c].digest = Inventory[c]
      BY <1>1, Standing DEF Begin, PublishSteps, Unsent, Sealed
    <2> QED
      BY <1>1, <2>1, BeginsRevision, Unchanged DEF Begin
  <1>2. ASSUME NEW c \in Calls, Stage(c) PROVE StoreStep
    <2>1. calls[c].digest \in Payloads
      BY <1>2, Standing DEF Stage, PublishSteps, Unsent, Sealed
    <2> QED
      BY <1>2, <2>1, StagesPayload, Unchanged DEF Stage
  <1>3. ASSUME NEW c \in Calls, Publish(c) PROVE StoreStep
    <2>1. c \in Publishers /\ calls[c].digest = Inventory[c]
      BY <1>3, Standing DEF Publish, PublishSteps, Unsent, Sealed
    <2> QED
      BY <1>3, <2>1, PublishesInventory, Unchanged DEF Publish
  <1>4. ASSUME NEW c \in Calls, Finish(c) PROVE StoreStep
    BY <1>4, FinishesScan, Unchanged DEF Finish, PublicationInv
  <1>5. ASSUME NEW c \in Calls,
               \/ Admit(c) \/ EndWork(c) \/ Acquire(c) \/ Encode(c) \/ Seal(c)
               \/ CheckRepository(c) \/ Lookup(c) \/ Reconcile(c) \/ GetScan(c) \/ Compare(c)
               \/ ExportScan(c) \/ ExportList(c) \/ ExportPayload(c) \/ Close(c) \/ Release(c)
        PROVE  UNCHANGED storeVars
    BY <1>5 DEF Admit, EndWork, Acquire, Encode, Seal, CheckRepository, Lookup, Reconcile, GetScan,
       Compare, ExportScan, ExportList, ExportPayload, Close, Release, InMemory
  <1>6. ASSUME NEW i \in Instances, Crash(i) PROVE UNCHANGED storeVars
    BY <1>6 DEF Crash
  <1>7. UNCHANGED publicationVars => UNCHANGED storeVars
    BY DEF publicationVars
  <1>8. StoreStep => Store!Next \/ UNCHANGED storeVars
    BY DEF StoreStep
  <1> QED
    BY <1>1, <1>2, <1>3, <1>4, <1>5, <1>6, <1>7, <1>8, EnvironmentStep, Zenon
       DEF PublicationNext, CallNext

-----------------------------------------------------------------------------
(* What the bridge promises *)

\* The bridge only makes transactions of the persistence port, so every theorem
\* about the store holds under it.
THEOREM PublicationImplementsStore == PublicationSpec => Store!Spec
  <1>1. PublicationInit => Store!Init
    BY DEF PublicationInit
  <1>2. PublicationInv /\ [PublicationNext]_publicationVars => [Store!Next]_(Store!vars)
    BY StepStore DEF storeVars, Store!vars
  <1> QED
    BY <1>1, <1>2, AlwaysSound, PTL DEF PublicationSpec, Store!Spec

\* What a receipt, an export or a terminated scan says stays true until the
\* repository is purged (reconcileDetached, Export).
THEOREM PublicationAnswersAlwaysTrue == PublicationSpec => []PublicationAnswersTrue
  BY AlwaysSound, InvImplies, PTL

\* A call whose own publication committed never denies it, whatever was lost
\* between the commit and the answer (Publish, reconcileDetached).
THEOREM CommitsNeverDenied == PublicationSpec => []CommitsNotDenied
  BY AlwaysSound, InvImplies, PTL

\* An instance serves one call at a time, with a lease, and leaves no file
\* behind but one it could not remove or crashed on (admit, spool.close).
THEOREM GateAlwaysServesOne == PublicationSpec => []GateServesOne
  BY AlwaysSound, InvImplies, PTL

\* A call that leaves the scan it began running says that it does not know, or
\* asked the store to finish it and got no answer (the deferred calls of Publish).
THEOREM NeverSilentOrphans == PublicationSpec => NoSilentOrphans
  <1>1. ASSUME PublicationInv, NEW c \in Publishers, calls[c].pc = "release", calls[c].begun,
               calls[c].answer.kind # "uncertain", Store!Running(Scan), ~Purged
        PROVE  calls[c].finish = "lost"
    <2>1. Relies(c, calls[c])
      BY <1>1, Standing DEF Calls
    <2> QED
      BY <1>1, <2>1 DEF Relies, Over, Store!Running
  <1>2. PublicationInv =>
           \A c \in Publishers :
              /\ calls[c].pc = "release" /\ calls'[c].pc = "returned"
              /\ calls[c].begun /\ calls[c].answer.kind # "uncertain" /\ Store!Running(Scan)
              /\ ~Purged
              => calls[c].finish = "lost"
    BY <1>1
  <1> QED
    BY <1>2, AlwaysSound, PTL DEF NoSilentOrphans

=============================================================================
