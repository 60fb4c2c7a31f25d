----------------------- MODULE PersistenceStoreProofs -----------------------
(***************************************************************************)
(* Theorems about PersistenceStore for every value of its constants: first *)
(* the invariants of the tables, then, over the invariant Consistent, what *)
(* a step may change.  Repositories move forward, finished scans never     *)
(* change, request ids stay unique, scopes do not reach each other, and    *)
(* the store keeps the promise of the port.                                *)
(***************************************************************************)
EXTENDS PersistenceStore, TLAPS

-----------------------------------------------------------------------------
(* Tables *)

\* A table is a function whose keys and rows have the declared types.
LEMMA TableElim ==
    ASSUME NEW K, NEW R, NEW t \in Table(K, R)
    PROVE  /\ t = [x \in DOMAIN t |-> t[x]]
           /\ DOMAIN t \subseteq K
           /\ \A x \in DOMAIN t : t[x] \in R
  BY DEF Table

LEMMA TableIntro ==
    ASSUME NEW K, NEW R, NEW t, t = [x \in DOMAIN t |-> t[x]],
           DOMAIN t \subseteq K, \A x \in DOMAIN t : t[x] \in R
    PROVE  t \in Table(K, R)
  <1>1. t \in [DOMAIN t -> R]
    OBVIOUS
  <1> QED
    BY <1>1 DEF Table

\* What the write operations of a table do to its keys and rows.
LEMMA InsertTable ==
    ASSUME NEW K, NEW R, NEW t \in Table(K, R), NEW k \in K, NEW row \in R
    PROVE  /\ Insert(t, k, row) \in Table(K, R)
           /\ DOMAIN Insert(t, k, row) = DOMAIN t \cup {k}
           /\ \A x \in DOMAIN t \cup {k} :
                Insert(t, k, row)[x] = IF x = k THEN row ELSE t[x]
  <1> DEFINE i == Insert(t, k, row)
  <1>1. /\ DOMAIN i = DOMAIN t \cup {k}
        /\ i = [x \in DOMAIN i |-> i[x]]
        /\ \A x \in DOMAIN t \cup {k} : i[x] = IF x = k THEN row ELSE t[x]
    BY DEF Insert
  <1>2. i \in Table(K, R)
    <2> HIDE DEF i
    <2> QED BY <1>1, TableElim, TableIntro
  <1> QED
    BY <1>1, <1>2

LEMMA DeleteTable ==
    ASSUME NEW K, NEW R, NEW t \in Table(K, R), NEW S
    PROVE  /\ Delete(t, S) \in Table(K, R)
           /\ DOMAIN Delete(t, S) = DOMAIN t \ S
           /\ \A x \in DOMAIN t \ S : Delete(t, S)[x] = t[x]
  <1> DEFINE d == Delete(t, S)
  <1>1. /\ DOMAIN d = DOMAIN t \ S
        /\ d = [x \in DOMAIN d |-> d[x]]
        /\ \A x \in DOMAIN t \ S : d[x] = t[x]
    BY DEF Delete
  <1>2. d \in Table(K, R)
    <2> HIDE DEF d
    <2> QED BY <1>1, TableElim, TableIntro
  <1> QED
    BY <1>1, <1>2

LEMMA UpdateTable ==
    ASSUME NEW K, NEW R, NEW t \in Table(K, R), NEW k \in DOMAIN t, NEW row \in R
    PROVE  /\ [t EXCEPT ![k] = row] \in Table(K, R)
           /\ DOMAIN [t EXCEPT ![k] = row] = DOMAIN t
           /\ \A x \in DOMAIN t :
                [t EXCEPT ![k] = row][x] = IF x = k THEN row ELSE t[x]
  <1> DEFINE u == [t EXCEPT ![k] = row]
  <1>1. /\ DOMAIN u = DOMAIN t
        /\ u = [x \in DOMAIN u |-> u[x]]
        /\ \A x \in DOMAIN t : u[x] = IF x = k THEN row ELSE t[x]
    OBVIOUS
  <1>2. u \in Table(K, R)
    <2> HIDE DEF u
    <2> QED BY <1>1, TableElim, TableIntro
  <1> QED
    BY <1>1, <1>2

LEMMA EmptyTable ==
    ASSUME NEW K, NEW R
    PROVE  Empty \in Table(K, R) /\ DOMAIN Empty = {}
  <1>1. DOMAIN Empty = {} /\ Empty = [x \in DOMAIN Empty |-> Empty[x]]
    BY DEF Empty
  <1> QED
    BY <1>1, TableIntro

\* The envelope rows a publication writes.
Enveloped(s, m) == [a \in DOMAIN envelopes \cup DOMAIN m.artifacts |->
    IF a \in DOMAIN m.artifacts
    THEN [scan |-> s, payload |-> m.artifacts[a]] ELSE envelopes[a]]

LEMMA ManifestArtifacts ==
    ASSUME NEW m \in Manifests
    PROVE  /\ DOMAIN m.artifacts \subseteq Artifacts
           /\ \A a \in DOMAIN m.artifacts : m.artifacts[a] \in Payloads
           /\ m.dependencies \subseteq Artifacts \X Artifacts
  <1>1. m \in ManifestType
    BY ManifestAssumption
  <1>2. PICK D \in SUBSET Artifacts : m.artifacts \in [D -> Payloads]
    BY <1>1 DEF ManifestType
  <1>3. m.dependencies \subseteq Artifacts \X Artifacts
    BY <1>1 DEF ManifestType
  <1>4. DOMAIN m.artifacts \subseteq Artifacts
    BY <1>2
  <1>5. \A a \in DOMAIN m.artifacts : m.artifacts[a] \in Payloads
    BY <1>2
  <1> QED
    BY <1>3, <1>4, <1>5

LEMMA PublishedEnvelopes ==
    ASSUME NEW s \in Scans, NEW m \in Manifests,
           envelopes \in Table(Artifacts, EnvelopeRow)
    PROVE  Enveloped(s, m) \in Table(Artifacts, EnvelopeRow)
  <1> DEFINE e == Enveloped(s, m)
  <1>1. /\ DOMAIN e = DOMAIN envelopes \cup DOMAIN m.artifacts
        /\ e = [a \in DOMAIN e |-> e[a]]
        /\ \A a \in DOMAIN e : e[a] = IF a \in DOMAIN m.artifacts
              THEN [scan |-> s, payload |-> m.artifacts[a]] ELSE envelopes[a]
    BY DEF Enveloped
  <1>2. \A a \in DOMAIN m.artifacts : [scan |-> s, payload |-> m.artifacts[a]] \in EnvelopeRow
    BY ManifestArtifacts DEF EnvelopeRow
  <1> HIDE DEF e
  <1>3. DOMAIN envelopes \subseteq Artifacts /\ \A a \in DOMAIN envelopes : envelopes[a] \in EnvelopeRow
    BY TableElim
  <1>4. \A a \in DOMAIN e : e[a] \in EnvelopeRow
    BY <1>1, <1>2, <1>3
  <1>5. DOMAIN e \subseteq Artifacts
    BY <1>1, <1>3, ManifestArtifacts
  <1>6. e \in Table(Artifacts, EnvelopeRow)
    BY <1>1, <1>4, <1>5, TableIntro
  <1> QED
    BY <1>6 DEF e

-----------------------------------------------------------------------------
(* Type correctness *)

LEMMA AuditType ==
    ASSUME audit \in [AuditEvents -> Nat], NEW event, NEW target, Audit(event, target)
    PROVE  audit' \in [AuditEvents -> Nat]
  <1>1. audit' = [audit EXCEPT ![<<event, target>>] = audit[<<event, target>>] + 1]
    BY DEF Audit
  <1>2. CASE <<event, target>> \in AuditEvents
    <2>1. audit[<<event, target>>] + 1 \in Nat
      BY <1>2
    <2> HIDE DEF AuditEvents
    <2> QED
      BY <1>1, <2>1
  <1>3. CASE <<event, target>> \notin AuditEvents
    BY <1>1, <1>3
  <1> QED
    BY <1>2, <1>3

\* The keys and rows of the tables, as the steps below use them.
LEMMA Rows ==
    ASSUME TypeOK
    PROVE  /\ DOMAIN repositories \subseteq Repositories
           /\ \A r \in DOMAIN repositories : repositories[r] \in RepositoryRow
           /\ DOMAIN scans \subseteq Scans
           /\ \A s \in DOMAIN scans : scans[s] \in ScanRow
           /\ DOMAIN publications \subseteq Scans
           /\ \A s \in DOMAIN publications : publications[s] \in PublicationRow
           /\ DOMAIN envelopes \subseteq Artifacts
           /\ \A a \in DOMAIN envelopes : envelopes[a] \in EnvelopeRow
           /\ DOMAIN payloads \subseteq Payloads
           /\ \A d \in DOMAIN payloads : payloads[d] \in Contents
  BY TableElim DEF TypeOK

\* The rows that the updates write.
LEMMA RepositoryUpdate ==
    ASSUME TypeOK, NEW r \in DOMAIN repositories
    PROVE  /\ \A target \in RepositoryStates :
                [repositories EXCEPT ![r].state = target] \in Table(Repositories, RepositoryRow)
           /\ \A s \in Scans \cup {NoScan} :
                [repositories EXCEPT ![r].current = s] \in Table(Repositories, RepositoryRow)
  <1>1. repositories[r] \in RepositoryRow
    BY Rows
  <1>2. repositories \in Table(Repositories, RepositoryRow)
    BY DEF TypeOK
  <1>3. ASSUME NEW target \in RepositoryStates
        PROVE  [repositories EXCEPT ![r].state = target] \in Table(Repositories, RepositoryRow)
    <2>1. [repositories[r] EXCEPT !.state = target] \in RepositoryRow
      BY <1>1 DEF RepositoryRow
    <2> QED
      BY <1>2, <2>1, UpdateTable
  <1>4. ASSUME NEW s \in Scans \cup {NoScan}
        PROVE  [repositories EXCEPT ![r].current = s] \in Table(Repositories, RepositoryRow)
    <2>1. [repositories[r] EXCEPT !.current = s] \in RepositoryRow
      BY <1>1 DEF RepositoryRow
    <2> QED
      BY <1>2, <2>1, UpdateTable
  <1> QED
    BY <1>3, <1>4

LEMMA ScanUpdate ==
    ASSUME TypeOK, NEW s \in DOMAIN scans, NEW target \in TerminalStates,
           NEW reason \in Reasons
    PROVE  /\ [scans EXCEPT ![s].state = target] \in Table(Scans, ScanRow)
           /\ [scans EXCEPT ![s].state = target, ![s].reason = reason]
                \in Table(Scans, ScanRow)
  <1>1. scans[s] \in ScanRow
    BY Rows
  <1>2. scans \in Table(Scans, ScanRow)
    BY DEF TypeOK
  <1>3. /\ [scans[s] EXCEPT !.state = target] \in ScanRow
        /\ [scans[s] EXCEPT !.state = target, !.reason = reason] \in ScanRow
    BY <1>1 DEF ScanRow
  <1>4. [scans EXCEPT ![s].state = target] \in Table(Scans, ScanRow)
    BY <1>2, <1>3, UpdateTable
  <1>5. [scans EXCEPT ![s] = [scans[s] EXCEPT !.state = target, !.reason = reason]]
          \in Table(Scans, ScanRow)
    BY <1>2, <1>3, UpdateTable
  <1>6. [scans EXCEPT ![s].state = target, ![s].reason = reason]
          = [scans EXCEPT ![s] = [scans[s] EXCEPT !.state = target, !.reason = reason]]
    OBVIOUS
  <1> QED
    BY <1>4, <1>5, <1>6

LEMMA InitType == Init => TypeOK
  BY EmptyTable DEF Init, TypeOK

\* One case per action; each names the table lemma of the rows it writes.
LEMMA StepType == TypeOK /\ [Next]_vars => TypeOK'
  <1> SUFFICES ASSUME TypeOK, [Next]_vars PROVE TypeOK'
    OBVIOUS
  <1>0. /\ repositories \in Table(Repositories, RepositoryRow)
        /\ scans \in Table(Scans, ScanRow)
        /\ publications \in Table(Scans, PublicationRow)
        /\ envelopes \in Table(Artifacts, EnvelopeRow)
        /\ payloads \in Table(Payloads, Contents)
        /\ audit \in [AuditEvents -> Nat]
    BY DEF TypeOK
  <1>1. ASSUME NEW sc \in Scopes, NEW r \in Repositories, NEW k \in Keys, NEW src \in Sources,
               RegisterRepository(sc, r, k, src)
        PROVE  TypeOK'
    <2> DEFINE row == [scope |-> sc, key |-> k, source |-> src,
                       state |-> "active", current |-> NoScan]
    <2>1. row \in RepositoryRow
      BY DEF RepositoryRow, RepositoryStates
    <2>2. Insert(repositories, r, row) \in Table(Repositories, RepositoryRow)
      BY <1>0, <2>1, InsertTable
    <2>3. audit' \in [AuditEvents -> Nat]
      BY <1>0, <1>1, AuditType DEF RegisterRepository
    <2> QED
      BY <1>1, <2>2, <2>3 DEF RegisterRepository, TypeOK
  <1>2. ASSUME NEW sc \in Scopes, NEW r \in Repositories, NEW event,
               NEW target \in RepositoryStates, ChangeRepositoryState(sc, r, target, event)
        PROVE  TypeOK'
    <2>1. r \in DOMAIN repositories
      BY <1>2 DEF ChangeRepositoryState, ChangeStateOutcome, Visible
    <2>2. repositories' \in Table(Repositories, RepositoryRow)
      BY <1>2, <2>1, RepositoryUpdate DEF ChangeRepositoryState
    <2>3. audit' \in [AuditEvents -> Nat]
      BY <1>0, <1>2, AuditType DEF ChangeRepositoryState
    <2> QED
      BY <1>2, <2>2, <2>3 DEF ChangeRepositoryState, TypeOK
  <1>3. ASSUME NEW sc \in Scopes, NEW r \in Repositories, NEW s \in Scans, NEW k \in Keys,
               NEW q \in Requests, BeginScan(sc, r, s, k, q)
        PROVE  TypeOK'
    <2> DEFINE row == [repository |-> r, key |-> k, request |-> q, state |-> "running",
                       reason |-> NoReason]
    <2>1. row \in ScanRow
      BY DEF ScanRow
    <2>2. Insert(scans, s, row) \in Table(Scans, ScanRow)
      BY <1>0, <2>1, InsertTable
    <2>3. audit' \in [AuditEvents -> Nat]
      BY <1>0, <1>3, AuditType DEF BeginScan
    <2> QED
      BY <1>3, <2>2, <2>3 DEF BeginScan, TypeOK
  <1>4. ASSUME NEW sc \in Scopes, NEW r \in Repositories, NEW s \in Scans, NEW event,
               NEW target \in FinishedStates, NEW reason \in Reasons,
               FinishScan(sc, r, s, target, event, reason)
        PROVE  TypeOK'
    <2>1. s \in DOMAIN scans
      BY <1>4 DEF FinishScan, FinishOutcome, ScanVisible
    <2>2. scans' \in Table(Scans, ScanRow)
      BY <1>4, <2>1, ScanUpdate DEF FinishScan, TerminalStates
    <2>3. audit' \in [AuditEvents -> Nat]
      BY <1>0, <1>4, AuditType DEF FinishScan
    <2> QED
      BY <1>4, <2>2, <2>3 DEF FinishScan, TypeOK
  <1>5. ASSUME NEW sc \in Scopes, NEW r \in Repositories, NEW s \in Scans,
               NEW d \in Payloads, NEW c \in Contents, StagePayload(sc, r, s, d, c)
        PROVE  TypeOK'
    <2>1. Insert(payloads, d, c) \in Table(Payloads, Contents)
      BY <1>0, InsertTable
    <2>2. DOMAIN Insert(payloads, d, c) = DOMAIN payloads \cup {d}
      BY DEF Insert
    <2> QED
      BY <1>5, <2>1, <2>2 DEF StagePayload, TypeOK
  <1>6. ASSUME NEW sc \in Scopes, NEW r \in Repositories, NEW s \in Scans,
               NEW m \in Manifests, NEW b \in BOOLEAN, PublishScan(sc, r, s, m, b)
        PROVE  TypeOK'
    <2>1. /\ r \in DOMAIN repositories
          /\ s \in DOMAIN scans
      BY <1>6 DEF PublishScan, PublishOutcome, ScanVisible, Visible
    <2>2. scans' \in Table(Scans, ScanRow)
      <3>1. [scans[s] EXCEPT !.state = "succeeded"] \in ScanRow
        BY <2>1, Rows DEF ScanRow, TerminalStates
      <3>2. [scans EXCEPT ![s].state = "succeeded"] \in Table(Scans, ScanRow)
        BY <1>0, <2>1, <3>1, UpdateTable
      <3> QED
        BY <1>6, <3>2 DEF PublishScan
    <2>3. publications' \in Table(Scans, PublicationRow)
      <3>1. [repository |-> r, manifest |-> m] \in PublicationRow
        BY DEF PublicationRow
      <3>2. Insert(publications, s, [repository |-> r, manifest |-> m])
              \in Table(Scans, PublicationRow)
        BY <1>0, <3>1, InsertTable
      <3> QED
        BY <1>6, <3>2 DEF PublishScan
    <2>4. envelopes' \in Table(Artifacts, EnvelopeRow)
      BY <1>0, <1>6, PublishedEnvelopes DEF PublishScan, Enveloped
    <2>5. dependencies' \subseteq DependencyRow
      <3>1. m.dependencies \subseteq Artifacts \X Artifacts
        BY ManifestArtifacts
      <3>2. dependencies \subseteq DependencyRow
        BY DEF TypeOK
      <3> QED
        BY <1>6, <3>1, <3>2 DEF PublishScan, DependencyRow
    <2>6. repositories' \in Table(Repositories, RepositoryRow)
      BY <1>0, <1>6, <2>1, RepositoryUpdate DEF PublishScan
    <2>7. audit' \in [AuditEvents -> Nat]
      BY <1>0, <1>6, AuditType DEF PublishScan
    <2>8. UNCHANGED <<payloads, fresh, recent, collection>>
      BY <1>6 DEF PublishScan
    <2> QED
      BY <2>2, <2>3, <2>4, <2>5, <2>6, <2>7, <2>8 DEF TypeOK
  <1>7. ASSUME NEW sc \in Scopes, NEW r \in Repositories, NEW B \in SUBSET Scans,
               PurgeRepositoryBatch(sc, r, B)
        PROVE  TypeOK'
    <2>1. r \in DOMAIN repositories
      BY <1>7 DEF PurgeRepositoryBatch, Visible
    <2>2. repositories' \in Table(Repositories, RepositoryRow)
      <3>1. Delete(repositories, {r}) \in Table(Repositories, RepositoryRow)
        BY <1>0, DeleteTable
      <3>2. [repositories EXCEPT ![r].current = NoScan] \in Table(Repositories, RepositoryRow)
        BY <2>1, RepositoryUpdate
      <3> QED
        BY <1>7, <3>1, <3>2 DEF PurgeRepositoryBatch, PurgedRepositories
    <2>3. /\ scans' \in Table(Scans, ScanRow)
          /\ publications' \in Table(Scans, PublicationRow)
          /\ envelopes' \in Table(Artifacts, EnvelopeRow)
      BY <1>0, <1>7, DeleteTable DEF PurgeRepositoryBatch
    <2>4. audit' \in [AuditEvents -> Nat]
      BY <1>0, <1>7, AuditType DEF PurgeRepositoryBatch
    <2> QED
      BY <1>7, <2>2, <2>3, <2>4 DEF PurgeRepositoryBatch, TypeOK
  <1>8. ASSUME NEW C \in SUBSET Payloads, SelectGarbage(C)
        PROVE  TypeOK'
    BY <1>8 DEF SelectGarbage, TypeOK
  <1>9. CASE CommitGarbage
    <2>1. Delete(payloads, collection.candidates) \in Table(Payloads, Contents)
      BY <1>0, DeleteTable
    <2>2. DOMAIN Delete(payloads, collection.candidates) = DOMAIN payloads \ collection.candidates
      BY DEF Delete
    <2>3. audit' \in [AuditEvents -> Nat]
      BY <1>0, <1>9, AuditType DEF CommitGarbage
    <2> QED
      BY <1>9, <2>1, <2>2, <2>3 DEF CommitGarbage, TypeOK
  <1>10. CASE AbortGarbage
    BY <1>10 DEF AbortGarbage, TypeOK
  <1>11. CASE DayPasses
    BY <1>11 DEF DayPasses, TypeOK
  <1>12. CASE UNCHANGED vars
    BY <1>12 DEF vars, TypeOK
  <1> QED
    BY <1>1, <1>2, <1>3, <1>4, <1>5, <1>6, <1>7, <1>8, <1>9, <1>10, <1>11, <1>12
       DEF Next, ScopeNext, Collect, ArchiveRepository, MarkRepositoryForPurge,
           FailScan, CancelScan, RepositoryStates, FinishedStates

\* Every table always holds rows of its columns' types.
THEOREM TypeCorrect == Spec => []TypeOK
  BY InitType, StepType, PTL DEF Spec

-----------------------------------------------------------------------------
(* What each operation that writes a table does to it, row by row *)

Registered(r) ==
    /\ r \notin DOMAIN repositories
    /\ DOMAIN repositories' = DOMAIN repositories \cup {r}
    /\ \A q \in DOMAIN repositories : repositories'[q] = repositories[q]
    /\ repositories'[r].current = NoScan
    /\ UNCHANGED <<scans, publications, envelopes, dependencies, payloads>>

LEMMA RegisterEffect ==
    ASSUME NEW sc, NEW r, NEW k, NEW src, RegisterRepository(sc, r, k, src)
    PROVE  Registered(r)
  <1>1. r \notin DOMAIN repositories
    BY DEF RegisterRepository, RegisterOutcome
  <1>2. repositories' = Insert(repositories, r,
          [scope |-> sc, key |-> k, source |-> src, state |-> "active", current |-> NoScan])
    BY DEF RegisterRepository
  <1> QED
    BY <1>1, <1>2 DEF Registered, RegisterRepository, Insert

Changed ==
    /\ DOMAIN repositories' = DOMAIN repositories
    /\ \A q \in DOMAIN repositories : repositories'[q].current = repositories[q].current
    /\ UNCHANGED <<scans, publications, envelopes, dependencies, payloads>>

LEMMA ChangeEffect ==
    ASSUME TypeOK, NEW sc, NEW r, NEW target, NEW event,
           ChangeRepositoryState(sc, r, target, event)
    PROVE  Changed
  <1>1. \A q \in DOMAIN repositories : repositories[q] \in RepositoryRow
    BY Rows
  <1>2. repositories' = [repositories EXCEPT ![r] = [repositories[r] EXCEPT !.state = target]]
    BY DEF ChangeRepositoryState
  <1>3. \A q \in DOMAIN repositories : [repositories[q] EXCEPT !.state = target].current
                                          = repositories[q].current
    BY <1>1 DEF RepositoryRow
  <1> QED
    BY <1>2, <1>3 DEF Changed, ChangeRepositoryState

Begun(r, s) ==
    /\ r \in DOMAIN repositories
    /\ s \notin DOMAIN scans
    /\ DOMAIN scans' = DOMAIN scans \cup {s}
    /\ \A t \in DOMAIN scans : scans'[t] = scans[t]
    /\ scans'[s].repository = r /\ scans'[s].state = "running"
    /\ UNCHANGED <<repositories, publications, envelopes, dependencies, payloads>>

LEMMA BeginEffect ==
    ASSUME NEW sc, NEW r, NEW s, NEW k, NEW q, BeginScan(sc, r, s, k, q)
    PROVE  Begun(r, s)
  <1>1. r \in DOMAIN repositories /\ s \notin DOMAIN scans
    BY DEF BeginScan, BeginOutcome, Visible
  <1>2. scans' = Insert(scans, s, [repository |-> r, key |-> k, request |-> q,
                                   state |-> "running", reason |-> NoReason])
    BY DEF BeginScan
  <1> QED
    BY <1>1, <1>2 DEF Begun, BeginScan, Insert

Finished(s, target) ==
    /\ s \in DOMAIN scans /\ scans[s].state = "running"
    /\ DOMAIN scans' = DOMAIN scans
    /\ \A t \in DOMAIN scans \ {s} : scans'[t] = scans[t]
    /\ scans'[s].repository = scans[s].repository /\ scans'[s].state = target
    /\ UNCHANGED <<repositories, publications, envelopes, dependencies, payloads>>

LEMMA FinishEffect ==
    ASSUME TypeOK, NEW sc, NEW r, NEW s, NEW target, NEW event, NEW reason,
           FinishScan(sc, r, s, target, event, reason)
    PROVE  Finished(s, target)
  <1>1. s \in DOMAIN scans /\ scans[s].state = "running"
    BY DEF FinishScan, FinishOutcome, ScanVisible
  <1>2. scans' = [scans EXCEPT ![s] = [scans[s] EXCEPT !.state = target, !.reason = reason]]
    BY <1>1 DEF FinishScan
  <1>3. scans[s] \in ScanRow
    BY <1>1, Rows
  <1>4. /\ [scans[s] EXCEPT !.state = target, !.reason = reason].repository
             = scans[s].repository
        /\ [scans[s] EXCEPT !.state = target, !.reason = reason].state = target
    BY <1>3 DEF ScanRow
  <1> QED
    BY <1>1, <1>2, <1>4 DEF Finished, FinishScan

Stored(d, c) ==
    /\ DOMAIN payloads' = DOMAIN payloads \cup {d}
    /\ \A x \in DOMAIN payloads : payloads'[x] = payloads[x]
    /\ d \notin DOMAIN payloads => payloads'[d] = c
    /\ Hash[c] = d
    /\ UNCHANGED <<repositories, scans, publications, envelopes, dependencies>>

LEMMA StageEffect ==
    ASSUME NEW sc, NEW r, NEW s, NEW d, NEW c, StagePayload(sc, r, s, d, c)
    PROVE  Stored(d, c)
  <1>1. Hash[c] = d
    BY DEF StagePayload, StageOutcome
  <1>2. CASE d \in DOMAIN payloads
    BY <1>1, <1>2 DEF Stored, StagePayload
  <1>3. CASE d \notin DOMAIN payloads
    BY <1>1, <1>3 DEF Stored, StagePayload, Insert
  <1> QED
    BY <1>2, <1>3

PublishedBy(r, s, m) ==
    /\ r \in DOMAIN repositories
    /\ s \in DOMAIN scans /\ scans[s].repository = r /\ scans[s].state = "running"
    /\ DOMAIN m.artifacts \cap DOMAIN envelopes = {}
    /\ \A a \in DOMAIN m.artifacts : m.artifacts[a] \in DOMAIN payloads
    /\ DOMAIN scans' = DOMAIN scans
    /\ \A t \in DOMAIN scans \ {s} : scans'[t] = scans[t]
    /\ scans'[s].repository = r /\ scans'[s].state = "succeeded"
    /\ DOMAIN publications' = DOMAIN publications \cup {s}
    /\ \A t \in DOMAIN publications \ {s} : publications'[t] = publications[t]
    /\ publications'[s] = [repository |-> r, manifest |-> m]
    /\ DOMAIN envelopes' = DOMAIN envelopes \cup DOMAIN m.artifacts
    /\ \A a \in DOMAIN envelopes : envelopes'[a] = envelopes[a]
    /\ \A a \in DOMAIN m.artifacts :
         envelopes'[a].scan = s /\ envelopes'[a].payload = m.artifacts[a]
    /\ DOMAIN repositories' = DOMAIN repositories
    /\ \A q \in DOMAIN repositories :
         \/ repositories'[q].current = repositories[q].current
         \/ q = r /\ repositories'[q].current = s
    /\ dependencies' = dependencies \cup
          {[scan |-> s, consumer |-> d[1], source |-> d[2]] : d \in m.dependencies}
    /\ UNCHANGED payloads

LEMMA PublishEffect ==
    ASSUME TypeOK, NEW sc, NEW r, NEW s, NEW m, NEW b, PublishScan(sc, r, s, m, b)
    PROVE  PublishedBy(r, s, m)
  <1>1. /\ r \in DOMAIN repositories
        /\ s \in DOMAIN scans /\ scans[s].repository = r /\ scans[s].state = "running"
        /\ \A a \in DOMAIN m.artifacts : m.artifacts[a] \in DOMAIN payloads
        /\ DOMAIN m.artifacts \cap DOMAIN envelopes = {}
    BY DEF PublishScan, PublishOutcome, ScanVisible, Visible
  <1>2. /\ DOMAIN scans' = DOMAIN scans
        /\ \A t \in DOMAIN scans \ {s} : scans'[t] = scans[t]
        /\ scans'[s].repository = r /\ scans'[s].state = "succeeded"
    <2>1. scans' = [scans EXCEPT ![s] = [scans[s] EXCEPT !.state = "succeeded"]]
      BY DEF PublishScan
    <2>2. scans[s] \in ScanRow
      BY <1>1, Rows
    <2>3. /\ [scans[s] EXCEPT !.state = "succeeded"].repository = scans[s].repository
          /\ [scans[s] EXCEPT !.state = "succeeded"].state = "succeeded"
      BY <2>2 DEF ScanRow
    <2> QED
      BY <1>1, <2>1, <2>3
  <1>3. /\ DOMAIN publications' = DOMAIN publications \cup {s}
        /\ \A t \in DOMAIN publications \ {s} : publications'[t] = publications[t]
        /\ publications'[s] = [repository |-> r, manifest |-> m]
    BY DEF PublishScan, Insert
  <1>4. /\ DOMAIN envelopes' = DOMAIN envelopes \cup DOMAIN m.artifacts
        /\ \A a \in DOMAIN envelopes : envelopes'[a] = envelopes[a]
        /\ \A a \in DOMAIN m.artifacts :
             envelopes'[a].scan = s /\ envelopes'[a].payload = m.artifacts[a]
    BY <1>1 DEF PublishScan
  <1>5. /\ DOMAIN repositories' = DOMAIN repositories
        /\ \A q \in DOMAIN repositories :
             \/ repositories'[q].current = repositories[q].current
             \/ q = r /\ repositories'[q].current = s
    <2>1. CASE repositories' = repositories
      BY <2>1
    <2>2. CASE repositories' = [repositories EXCEPT ![r] = [repositories[r] EXCEPT !.current = s]]
      <3>1. repositories[r] \in RepositoryRow
        BY <1>1, Rows
      <3>2. [repositories[r] EXCEPT !.current = s].current = s
        BY <3>1 DEF RepositoryRow
      <3> QED
        BY <1>1, <2>2, <3>2
    <2> QED
      BY <2>1, <2>2 DEF PublishScan
  <1>6. /\ dependencies' = dependencies \cup
             {[scan |-> s, consumer |-> d[1], source |-> d[2]] : d \in m.dependencies}
        /\ UNCHANGED payloads
    BY DEF PublishScan
  <1> QED
    BY <1>1, <1>2, <1>3, <1>4, <1>5, <1>6 DEF PublishedBy

PurgedFrom(r, B) ==
    /\ r \in DOMAIN repositories
    /\ B \subseteq ScansOf(r)
    /\ DOMAIN scans' = DOMAIN scans \ B
    /\ \A t \in DOMAIN scans \ B : scans'[t] = scans[t]
    /\ DOMAIN publications' = DOMAIN publications \ B
    /\ \A t \in DOMAIN publications \ B : publications'[t] = publications[t]
    /\ DOMAIN envelopes' = {a \in DOMAIN envelopes : envelopes[a].scan \notin B}
    /\ \A a \in DOMAIN envelopes' : envelopes'[a] = envelopes[a]
    /\ dependencies' = {d \in dependencies : d.scan \notin B}
    /\ \A q \in DOMAIN repositories \ {r} :
         q \in DOMAIN repositories' /\ repositories'[q] = repositories[q]
    /\ DOMAIN repositories' \subseteq DOMAIN repositories
    /\ r \in DOMAIN repositories' => repositories'[r].current = NoScan
    /\ r \notin DOMAIN repositories' => B = ScansOf(r)
    /\ UNCHANGED payloads

LEMMA PurgeEffect ==
    ASSUME TypeOK, NEW sc, NEW r, NEW B, PurgeRepositoryBatch(sc, r, B)
    PROVE  PurgedFrom(r, B)
  <1>1. r \in DOMAIN repositories /\ B \subseteq ScansOf(r)
    BY DEF PurgeRepositoryBatch, PurgeBatches, Visible
  <1>2. /\ DOMAIN scans' = DOMAIN scans \ B
        /\ \A t \in DOMAIN scans \ B : scans'[t] = scans[t]
        /\ DOMAIN publications' = DOMAIN publications \ B
        /\ \A t \in DOMAIN publications \ B : publications'[t] = publications[t]
    BY DEF PurgeRepositoryBatch, Delete
  <1>3. /\ DOMAIN envelopes' = {a \in DOMAIN envelopes : envelopes[a].scan \notin B}
        /\ \A a \in DOMAIN envelopes' : envelopes'[a] = envelopes[a]
    BY DEF PurgeRepositoryBatch, Delete
  <1>4. CASE B = ScansOf(r)
    <2>1. repositories' = Delete(repositories, {r})
      BY <1>4 DEF PurgeRepositoryBatch, PurgedRepositories
    <2>2. /\ DOMAIN repositories' = DOMAIN repositories \ {r}
          /\ \A q \in DOMAIN repositories \ {r} : repositories'[q] = repositories[q]
      BY <2>1 DEF Delete
    <2> QED
      BY <1>1, <1>2, <1>3, <1>4, <2>2 DEF PurgedFrom, PurgeRepositoryBatch
  <1>5. CASE B # ScansOf(r)
    <2>1. repositories' = [repositories EXCEPT ![r] = [repositories[r] EXCEPT !.current = NoScan]]
      BY <1>5 DEF PurgeRepositoryBatch, PurgedRepositories
    <2>2. repositories[r] \in RepositoryRow
      BY <1>1, Rows
    <2>3. [repositories[r] EXCEPT !.current = NoScan].current = NoScan
      BY <2>2 DEF RepositoryRow
    <2>4. /\ DOMAIN repositories' = DOMAIN repositories
          /\ \A q \in DOMAIN repositories \ {r} : repositories'[q] = repositories[q]
          /\ repositories'[r].current = NoScan
      BY <1>1, <2>1, <2>3
    <2> QED
      BY <1>1, <1>2, <1>3, <1>5, <2>4 DEF PurgedFrom, PurgeRepositoryBatch
  <1> QED
    BY <1>4, <1>5

Collected ==
    /\ collection.candidates \cap Referenced = {}
    /\ DOMAIN payloads' = DOMAIN payloads \ collection.candidates
    /\ \A d \in DOMAIN payloads' : payloads'[d] = payloads[d]
    /\ UNCHANGED <<repositories, scans, publications, envelopes, dependencies>>

LEMMA CommitEffect ==
    ASSUME CommitGarbage
    PROVE  Collected
  BY DEF Collected, CommitGarbage, CandidatesUnreferenced, Delete

-----------------------------------------------------------------------------
(* Consistency of the tables *)

\* Every stored payload hashes to its digest, and every envelope's payload is
\* stored: what makes ExportsExact inductive.
PayloadsExact == \A d \in DOMAIN payloads : Hash[payloads[d]] = d
EnvelopesBacked == \A a \in DOMAIN envelopes : envelopes[a].payload \in DOMAIN payloads

Consistent ==
    /\ TypeOK
    /\ ScansOwned
    /\ CertifiedExactly
    /\ PublishedWhole
    /\ CurrentPublished
    /\ PayloadsExact
    /\ EnvelopesBacked

LEMMA InitConsistent == Init => Consistent
  <1> SUFFICES ASSUME Init PROVE Consistent
    OBVIOUS
  <1>1. TypeOK
    BY InitType
  <1>2. /\ DOMAIN repositories = {} /\ DOMAIN scans = {} /\ DOMAIN publications = {}
        /\ DOMAIN envelopes = {} /\ DOMAIN payloads = {} /\ dependencies = {}
    BY DEF Init, Empty
  <1> QED
    BY <1>1, <1>2 DEF Consistent, ScansOwned, CertifiedExactly, PublishedWhole,
       CurrentPublished, PayloadsExact, EnvelopesBacked

\* The parts of Consistent that only some tables take part in.
LEMMA FrameOwned ==
    ASSUME ScansOwned, UNCHANGED scans, DOMAIN repositories \subseteq DOMAIN repositories'
    PROVE  ScansOwned'
  BY DEF ScansOwned

LEMMA FrameCertified ==
    ASSUME CertifiedExactly, UNCHANGED <<scans, publications>>
    PROVE  CertifiedExactly'
  BY DEF CertifiedExactly

LEMMA FrameWhole ==
    ASSUME PublishedWhole, UNCHANGED <<publications, envelopes, dependencies>>
    PROVE  PublishedWhole'
  BY DEF PublishedWhole, ManifestOf, EnvelopesOf

LEMMA FrameBacked ==
    ASSUME PayloadsExact, EnvelopesBacked, UNCHANGED <<envelopes, payloads>>
    PROVE  PayloadsExact' /\ EnvelopesBacked'
  BY DEF PayloadsExact, EnvelopesBacked

LEMMA RegisterConsistent ==
    ASSUME Consistent, TypeOK', NEW sc, NEW r, NEW k, NEW src,
           RegisterRepository(sc, r, k, src)
    PROVE  Consistent'
  <1>e. Registered(r)
    BY RegisterEffect
  <1>1. CurrentPublished'
    BY <1>e DEF Registered, Consistent, CurrentPublished
  <1> QED
    BY <1>1, <1>e, FrameOwned, FrameCertified, FrameWhole, FrameBacked
       DEF Registered, Consistent

LEMMA ChangeConsistent ==
    ASSUME Consistent, TypeOK', NEW sc, NEW r, NEW target, NEW event,
           ChangeRepositoryState(sc, r, target, event)
    PROVE  Consistent'
  <1>e. Changed
    BY ChangeEffect DEF Consistent
  <1>0. TypeOK
    BY DEF Consistent
  <1>1. CurrentPublished'
    BY <1>0, <1>e DEF Changed, Consistent, CurrentPublished
  <1> QED
    BY <1>0, <1>1, <1>e, FrameOwned, FrameCertified, FrameWhole, FrameBacked
       DEF Changed, Consistent

LEMMA BeginConsistent ==
    ASSUME Consistent, TypeOK', NEW sc, NEW r, NEW s, NEW k, NEW q,
           BeginScan(sc, r, s, k, q)
    PROVE  Consistent'
  <1>e. Begun(r, s)
    BY BeginEffect
  <1>1. ScansOwned'
    BY <1>e DEF Begun, Consistent, ScansOwned
  <1>2. CertifiedExactly'
    <2>1. DOMAIN publications \subseteq Scans
      BY Rows DEF Consistent
    <2> QED
      BY <2>1, <1>e DEF Begun, Consistent, CertifiedExactly
  <1>3. CurrentPublished'
    BY <1>e DEF Begun, Consistent, CurrentPublished
  <1> QED
    BY <1>1, <1>2, <1>3, <1>e, FrameWhole, FrameBacked DEF Begun, Consistent

LEMMA FinishConsistent ==
    ASSUME Consistent, TypeOK', NEW sc, NEW r, NEW s, NEW target \in FinishedStates,
           NEW event, NEW reason, FinishScan(sc, r, s, target, event, reason)
    PROVE  Consistent'
  <1>e. Finished(s, target)
    BY FinishEffect DEF Consistent
  <1>0. TypeOK
    BY DEF Consistent
  <1>1. ScansOwned'
    BY <1>0, <1>e DEF Finished, Consistent, ScansOwned
  <1>2. CertifiedExactly'
    <2>1. DOMAIN publications \subseteq Scans
      BY Rows DEF Consistent
    <2> QED
      BY <1>0, <2>1, <1>e DEF Finished, Consistent, CertifiedExactly, FinishedStates
  <1>3. CurrentPublished'
    BY <1>0, <1>e DEF Finished, Consistent, CurrentPublished
  <1> QED
    BY <1>0, <1>1, <1>2, <1>3, <1>e, FrameWhole, FrameBacked DEF Finished, Consistent

LEMMA StageConsistent ==
    ASSUME Consistent, TypeOK', NEW sc, NEW r, NEW s, NEW d, NEW c,
           StagePayload(sc, r, s, d, c)
    PROVE  Consistent'
  <1>e. Stored(d, c)
    BY StageEffect
  <1>1. PayloadsExact'
    BY <1>e DEF Stored, Consistent, PayloadsExact
  <1>2. EnvelopesBacked'
    BY <1>e DEF Stored, Consistent, EnvelopesBacked
  <1>3. CurrentPublished'
    BY <1>e DEF Stored, Consistent, CurrentPublished
  <1> QED
    BY <1>1, <1>2, <1>3, <1>e, FrameOwned, FrameCertified, FrameWhole DEF Stored, Consistent

\* The dependency rows of the scans a publication does not touch stay, and its
\* own are those of its manifest.
LEMMA PublishedDependencies ==
    ASSUME NEW s \in Scans, NEW m \in Manifests, dependencies \subseteq DependencyRow,
           \A e \in dependencies : e.scan # s,
           dependencies' = dependencies \cup
              {[scan |-> s, consumer |-> d[1], source |-> d[2]] : d \in m.dependencies}
    PROVE  /\ \A t : t # s => {e \in dependencies' : e.scan = t}
                                = {e \in dependencies : e.scan = t}
           /\ {<<e.consumer, e.source>> : e \in {f \in dependencies' : f.scan = s}}
                = m.dependencies
  <1> DEFINE row(d) == [scan |-> s, consumer |-> d[1], source |-> d[2]]
  <1>1. \A d \in m.dependencies : d = <<d[1], d[2]>>
    BY ManifestArtifacts
  <1>2. \A d : row(d).scan = s /\ row(d).consumer = d[1] /\ row(d).source = d[2]
    OBVIOUS
  <1>3. {f \in dependencies' : f.scan = s} = {row(d) : d \in m.dependencies}
    BY <1>2
  <1>4. ASSUME NEW t, t # s
        PROVE  {e \in dependencies' : e.scan = t} = {e \in dependencies : e.scan = t}
    BY <1>2, <1>4
  <1>5. {<<e.consumer, e.source>> : e \in {row(d) : d \in m.dependencies}} = m.dependencies
    <2>1. ASSUME NEW d \in m.dependencies
          PROVE  <<row(d).consumer, row(d).source>> = d
      BY <1>1, <1>2
    <2> HIDE DEF row
    <2> QED
      BY <2>1
  <1> QED
    BY <1>3, <1>4, <1>5

LEMMA PublishConsistent ==
    ASSUME Consistent, TypeOK', NEW sc, NEW r, NEW s \in Scans, NEW m \in Manifests, NEW b,
           PublishScan(sc, r, s, m, b)
    PROVE  Consistent'
  <1>e. PublishedBy(r, s, m)
    BY PublishEffect DEF Consistent
  <1>0. TypeOK /\ DOMAIN publications \subseteq Scans /\ s \notin DOMAIN publications
    BY <1>e, Rows DEF PublishedBy, Consistent, CertifiedExactly
  <1>1. ScansOwned'
    BY <1>0, <1>e DEF PublishedBy, Consistent, ScansOwned
  <1>2. CertifiedExactly'
    BY <1>0, <1>e DEF PublishedBy, Consistent, CertifiedExactly
  <1>3. CurrentPublished'
    BY <1>0, <1>e DEF PublishedBy, Consistent, CurrentPublished
  <1>4. PublishedWhole'
    <2>1. /\ \A a \in DOMAIN envelopes : envelopes[a].scan \in DOMAIN publications
          /\ \A d \in dependencies : d.scan \in DOMAIN publications
      BY DEF Consistent, PublishedWhole
    <2>2. /\ \A t : t # s => {e \in dependencies' : e.scan = t}
                                = {e \in dependencies : e.scan = t}
          /\ {<<e.consumer, e.source>> : e \in {f \in dependencies' : f.scan = s}}
               = m.dependencies
      BY <1>0, <2>1, PublishedDependencies DEF PublishScan, TypeOK
    <2>3. \A a \in DOMAIN envelopes' : envelopes'[a].scan \in DOMAIN publications'
      BY <1>0, <2>1, <1>e DEF PublishedBy
    <2>4. \A d \in dependencies' : d.scan \in DOMAIN publications'
      BY <1>0, <2>1, <1>e DEF PublishedBy
    <2>5. ASSUME NEW t \in DOMAIN publications', t # s
          PROVE  /\ EnvelopesOf(t)' = DOMAIN ManifestOf(t)'.artifacts
                 /\ \A a \in EnvelopesOf(t)' :
                      envelopes'[a].payload = ManifestOf(t)'.artifacts[a]
                 /\ {<<d.consumer, d.source>> : d \in {e \in dependencies' : e.scan = t}}
                      = ManifestOf(t)'.dependencies
      <3>1. t \in DOMAIN publications /\ ManifestOf(t)' = ManifestOf(t)
        BY <1>0, <2>5, <1>e DEF PublishedBy, ManifestOf
      <3>2. EnvelopesOf(t)' = EnvelopesOf(t)
        BY <1>0, <2>5, <1>e DEF PublishedBy, EnvelopesOf
      <3>3. \A a \in EnvelopesOf(t) : envelopes'[a] = envelopes[a]
        BY <1>0, <1>e DEF PublishedBy, EnvelopesOf
      <3>4. /\ EnvelopesOf(t) = DOMAIN ManifestOf(t).artifacts
            /\ \A a \in EnvelopesOf(t) : envelopes[a].payload = ManifestOf(t).artifacts[a]
            /\ {<<d.consumer, d.source>> : d \in {e \in dependencies : e.scan = t}}
                 = ManifestOf(t).dependencies
        BY <3>1 DEF Consistent, PublishedWhole
      <3>5. \A a \in EnvelopesOf(t)' : envelopes'[a].payload = ManifestOf(t)'.artifacts[a]
        BY <3>1, <3>2, <3>3, <3>4
      <3>6. {e \in dependencies' : e.scan = t} = {e \in dependencies : e.scan = t}
        BY <2>2, <2>5
      <3> QED
        BY <3>1, <3>2, <3>4, <3>5, <3>6
    <2>6. /\ EnvelopesOf(s)' = DOMAIN ManifestOf(s)'.artifacts
          /\ \A a \in EnvelopesOf(s)' :
               envelopes'[a].payload = ManifestOf(s)'.artifacts[a]
          /\ {<<d.consumer, d.source>> : d \in {e \in dependencies' : e.scan = s}}
               = ManifestOf(s)'.dependencies
      <3>1. ManifestOf(s)' = m
        BY <1>0, <1>e DEF PublishedBy, ManifestOf
      <3>2. \A a \in DOMAIN envelopes : envelopes[a].scan # s
        BY <1>0, <2>1
      <3>3. EnvelopesOf(s)' = DOMAIN m.artifacts
        BY <1>0, <3>2, <1>e DEF PublishedBy, EnvelopesOf
      <3>4. \A a \in DOMAIN m.artifacts : envelopes'[a].payload = m.artifacts[a]
        BY <1>0, <1>e DEF PublishedBy
      <3> QED
        BY <2>2, <3>1, <3>3, <3>4
    <2> QED
      BY <2>3, <2>4, <2>5, <2>6 DEF PublishedWhole
  <1>5. PayloadsExact' /\ EnvelopesBacked'
    BY <1>0, <1>e DEF PublishedBy, Consistent, PayloadsExact, EnvelopesBacked
  <1> QED
    BY <1>1, <1>2, <1>3, <1>4, <1>5 DEF Consistent

LEMMA PurgeConsistent ==
    ASSUME Consistent, TypeOK', NEW sc, NEW r, NEW B, PurgeRepositoryBatch(sc, r, B)
    PROVE  Consistent'
  <1>e. PurgedFrom(r, B)
    BY PurgeEffect DEF Consistent
  <1>0. TypeOK /\ DOMAIN publications \subseteq Scans
    BY Rows DEF Consistent
  <1>1. ScansOwned'
    BY <1>0, <1>e DEF PurgedFrom, Consistent, ScansOwned, ScansOf
  <1>2. CertifiedExactly'
    BY <1>0, <1>e DEF PurgedFrom, Consistent, CertifiedExactly
  <1>3. CurrentPublished'
    <2> SUFFICES ASSUME NEW q \in DOMAIN repositories', repositories'[q].current # NoScan
                 PROVE  /\ repositories'[q].current \in DOMAIN publications'
                        /\ publications'[repositories'[q].current].repository = q
      BY DEF CurrentPublished
    <2>1. q # r /\ q \in DOMAIN repositories /\ repositories'[q] = repositories[q]
      BY <1>0, <1>e DEF PurgedFrom
    <2> DEFINE t == repositories[q].current
    <2>2. t \in DOMAIN publications /\ publications[t].repository = q
      BY <2>1 DEF Consistent, CurrentPublished
    <2>3. t \notin B
      BY <1>0, <2>1, <2>2, <1>e DEF PurgedFrom, Consistent, CertifiedExactly, ScansOf
    <2> QED
      BY <1>0, <2>1, <2>2, <2>3, <1>e DEF PurgedFrom
  <1>4. PublishedWhole'
    <2>1. \A a \in DOMAIN envelopes' : envelopes'[a].scan \in DOMAIN publications'
      BY <1>0, <1>e DEF PurgedFrom, Consistent, PublishedWhole
    <2>2. \A d \in dependencies' : d.scan \in DOMAIN publications'
      BY <1>0, <1>e DEF PurgedFrom, Consistent, PublishedWhole
    <2>3. ASSUME NEW t \in DOMAIN publications'
          PROVE  /\ EnvelopesOf(t)' = DOMAIN ManifestOf(t)'.artifacts
                 /\ \A a \in EnvelopesOf(t)' :
                      envelopes'[a].payload = ManifestOf(t)'.artifacts[a]
                 /\ {<<d.consumer, d.source>> : d \in {e \in dependencies' : e.scan = t}}
                      = ManifestOf(t)'.dependencies
      <3>1. t \in DOMAIN publications /\ t \notin B /\ ManifestOf(t)' = ManifestOf(t)
        BY <1>0, <1>e DEF PurgedFrom, ManifestOf
      <3>2. EnvelopesOf(t)' = EnvelopesOf(t)
        BY <1>0, <3>1, <1>e DEF PurgedFrom, EnvelopesOf
      <3>3. \A a \in EnvelopesOf(t) : envelopes'[a] = envelopes[a]
        BY <1>0, <3>1, <1>e DEF PurgedFrom, EnvelopesOf
      <3>4. {e \in dependencies' : e.scan = t} = {e \in dependencies : e.scan = t}
        BY <1>0, <3>1, <1>e DEF PurgedFrom
      <3>5. /\ EnvelopesOf(t) = DOMAIN ManifestOf(t).artifacts
            /\ \A a \in EnvelopesOf(t) : envelopes[a].payload = ManifestOf(t).artifacts[a]
            /\ {<<d.consumer, d.source>> : d \in {e \in dependencies : e.scan = t}}
                 = ManifestOf(t).dependencies
        BY <3>1 DEF Consistent, PublishedWhole
      <3>6. \A a \in EnvelopesOf(t)' : envelopes'[a].payload = ManifestOf(t)'.artifacts[a]
        BY <3>1, <3>2, <3>3, <3>5
      <3> QED
        BY <3>1, <3>2, <3>4, <3>5, <3>6
    <2> QED
      BY <2>1, <2>2, <2>3 DEF PublishedWhole
  <1>5. PayloadsExact' /\ EnvelopesBacked'
    BY <1>0, <1>e DEF PurgedFrom, Consistent, PayloadsExact, EnvelopesBacked
  <1> QED
    BY <1>1, <1>2, <1>3, <1>4, <1>5 DEF Consistent

LEMMA CommitConsistent ==
    ASSUME Consistent, TypeOK', CommitGarbage
    PROVE  Consistent'
  <1>e. Collected
    BY CommitEffect
  <1>1. PayloadsExact'
    BY <1>e DEF Collected, Consistent, PayloadsExact
  <1>2. EnvelopesBacked'
    BY <1>e DEF Collected, Consistent, EnvelopesBacked, Referenced
  <1>3. CurrentPublished'
    BY <1>e DEF Collected, Consistent, CurrentPublished
  <1> QED
    BY <1>1, <1>2, <1>3, <1>e, FrameOwned, FrameCertified, FrameWhole DEF Collected, Consistent

LEMMA StepConsistent == Consistent /\ [Next]_vars => Consistent'
  <1> SUFFICES ASSUME Consistent, [Next]_vars PROVE Consistent'
    OBVIOUS
  <1>0. TypeOK'
    BY StepType DEF Consistent
  <1>1. ASSUME UNCHANGED <<repositories, scans, publications, envelopes, dependencies, payloads>>
        PROVE  Consistent'
    <2>1. CurrentPublished'
      BY <1>1 DEF Consistent, CurrentPublished
    <2> QED
      BY <1>0, <1>1, <2>1, FrameOwned, FrameCertified, FrameWhole, FrameBacked DEF Consistent
  <1>2. CASE \E C \in SUBSET Payloads : SelectGarbage(C)
    BY <1>1, <1>2 DEF SelectGarbage
  <1>3. CASE AbortGarbage
    BY <1>1, <1>3 DEF AbortGarbage
  <1>4. CASE DayPasses
    BY <1>1, <1>4 DEF DayPasses
  <1>5. CASE UNCHANGED vars
    BY <1>1, <1>5 DEF vars
  <1>6. CASE CommitGarbage
    BY <1>0, <1>6, CommitConsistent
  <1>7. CASE \E sc \in Scopes : ScopeNext(sc)
    BY <1>0, <1>7, RegisterConsistent, ChangeConsistent, BeginConsistent, FinishConsistent,
       StageConsistent, PublishConsistent, PurgeConsistent
       DEF ScopeNext, ArchiveRepository, MarkRepositoryForPurge, FailScan, CancelScan,
           FinishedStates
  <1> QED
    BY <1>2, <1>3, <1>4, <1>5, <1>6, <1>7 DEF Next, Collect

LEMMA AlwaysConsistent == Spec => []Consistent
  BY InitConsistent, StepConsistent, PTL DEF Spec

\* No orphans, and a certificate for exactly the scans that succeeded.
THEOREM ScansAlwaysOwned == Spec => []ScansOwned
  <1>1. Consistent => ScansOwned
    BY DEF Consistent
  <1> QED
    BY <1>1, AlwaysConsistent, PTL

THEOREM AlwaysCertifiedExactly == Spec => []CertifiedExactly
  <1>1. Consistent => CertifiedExactly
    BY DEF Consistent
  <1> QED
    BY <1>1, AlwaysConsistent, PTL

\* What can be listed for a scan is its whole manifest or nothing.
THEOREM AlwaysPublishedWhole == Spec => []PublishedWhole
  <1>1. Consistent => PublishedWhole
    BY DEF Consistent
  <1> QED
    BY <1>1, AlwaysConsistent, PTL

\* The current scan of a repository is one of its own published scans.
THEOREM AlwaysCurrentPublished == Spec => []CurrentPublished
  <1>1. Consistent => CurrentPublished
    BY DEF Consistent
  <1> QED
    BY <1>1, AlwaysConsistent, PTL

\* Every visible artifact can be exported with the bytes its digest names.
THEOREM AlwaysExportsExact == Spec => []ExportsExact
  <1>1. Consistent => ExportsExact
    BY DEF Consistent, PayloadsExact, EnvelopesBacked, ExportsExact
  <1> QED
    BY <1>1, AlwaysConsistent, PTL

-----------------------------------------------------------------------------
(* The steps that write a table; every other step leaves the tables alone *)

ChangeEvent(target) ==
    IF target = "archived" THEN "archive-repository" ELSE "mark-for-purge"

LEMMA Steps ==
    ASSUME [Next]_vars
    PROVE  \/ \E sc \in Scopes, r \in Repositories, k \in Keys, src \in Sources :
                RegisterRepository(sc, r, k, src)
           \/ \E sc \in Scopes, r \in Repositories, target \in {"archived", "purge_pending"} :
                ChangeRepositoryState(sc, r, target, ChangeEvent(target))
           \/ \E sc \in Scopes, r \in Repositories, s \in Scans, k \in Keys, q \in Requests :
                BeginScan(sc, r, s, k, q)
           \/ \E sc \in Scopes, r \in Repositories, s \in Scans, target \in FinishedStates,
                 event \in {"fail-scan", "cancel-scan"}, reason \in Reasons :
                FinishScan(sc, r, s, target, event, reason)
           \/ \E sc \in Scopes, r \in Repositories, s \in Scans, d \in Payloads, c \in Contents :
                StagePayload(sc, r, s, d, c)
           \/ \E sc \in Scopes, r \in Repositories, s \in Scans, m \in Manifests, b \in BOOLEAN :
                PublishScan(sc, r, s, m, b)
           \/ \E sc \in Scopes, r \in Repositories, B \in SUBSET Scans :
                PurgeRepositoryBatch(sc, r, B)
           \/ CommitGarbage
           \/ UNCHANGED <<repositories, scans, publications, envelopes, dependencies, payloads,
                         audit>>
  <1>1. CASE \E sc \in Scopes : ScopeNext(sc)
    BY <1>1 DEF ScopeNext, ArchiveRepository, MarkRepositoryForPurge, FailScan, CancelScan,
       FinishedStates, ChangeEvent
  <1>2. CASE Collect
    BY <1>2 DEF Collect, SelectGarbage, AbortGarbage
  <1>3. CASE DayPasses \/ UNCHANGED vars
    BY <1>3 DEF DayPasses, vars
  <1> QED
    BY <1>1, <1>2, <1>3 DEF Next

-----------------------------------------------------------------------------
(* Repository rows from one state to the next *)

Gone(q) == q \notin DOMAIN repositories' /\ repositories[q].state = "purge_pending"

Moved(q) ==
    /\ q \in DOMAIN repositories'
    /\ repositories'[q].scope = repositories[q].scope
    /\ repositories'[q].key = repositories[q].key
    /\ repositories'[q].source = repositories[q].source
    /\ Rank(repositories[q].state) <= Rank(repositories'[q].state)
    /\ repositories'[q].current = NoScan /\ repositories[q].current # NoScan
          => repositories[q].state = "purge_pending"

LEMMA RankOrder ==
    /\ \A x \in RepositoryStates : Rank(x) <= Rank(x)
    /\ \A target \in {"archived", "purge_pending"} : Rank(Predecessor(target)) <= Rank(target)
  BY DEF Rank, Predecessor, RepositoryStates

LEMMA SameRowMoved ==
    ASSUME TypeOK, NEW q \in DOMAIN repositories, q \in DOMAIN repositories',
           repositories'[q] = repositories[q]
    PROVE  Moved(q)
  <1>1. repositories[q].state \in RepositoryStates
    BY Rows DEF RepositoryRow
  <1> QED
    BY <1>1, RankOrder DEF Moved

\* Each row that an operation leaves keeps its identity and goes forward.
LEMMA RowStep ==
    ASSUME TypeOK, [Next]_vars, NEW q \in DOMAIN repositories
    PROVE  Gone(q) \/ Moved(q)
  <1>0. repositories[q] \in RepositoryRow /\ repositories[q].state \in RepositoryStates
    BY Rows DEF RepositoryRow
  <1>2. ASSUME NEW sc, NEW r, NEW k, NEW src, RegisterRepository(sc, r, k, src)
        PROVE  Moved(q)
    BY <1>2, RegisterEffect, SameRowMoved DEF Registered
  <1>3. ASSUME NEW sc, NEW r, NEW target \in {"archived", "purge_pending"}, NEW event,
               ChangeRepositoryState(sc, r, target, event)
        PROVE  Moved(q)
    <2>1. /\ r \in DOMAIN repositories /\ repositories[r].state = Predecessor(target)
          /\ repositories' = [repositories EXCEPT ![r] = [repositories[r] EXCEPT !.state = target]]
      BY <1>3 DEF ChangeRepositoryState, ChangeStateOutcome, Visible
    <2>2. CASE q # r
      BY <2>1, <2>2, SameRowMoved
    <2>3. CASE q = r
      <3>1. repositories'[q] = [repositories[q] EXCEPT !.state = target]
        BY <2>1, <2>3
      <3>2. /\ repositories'[q].scope = repositories[q].scope
            /\ repositories'[q].key = repositories[q].key
            /\ repositories'[q].source = repositories[q].source
            /\ repositories'[q].current = repositories[q].current
            /\ repositories'[q].state = target
        BY <1>0, <3>1 DEF RepositoryRow
      <3> QED
        BY <2>1, <2>3, <3>2, RankOrder DEF Moved
    <2> QED
      BY <2>2, <2>3
  <1>4. ASSUME NEW sc, NEW r, NEW s \in Scans, NEW m, NEW b, PublishScan(sc, r, s, m, b)
        PROVE  Moved(q)
    <2>1. CASE repositories'[q] = repositories[q] /\ q \in DOMAIN repositories'
      BY <2>1, SameRowMoved
    <2>2. CASE /\ repositories' = [repositories EXCEPT ![r] = [repositories[r] EXCEPT !.current = s]]
               /\ q = r
      <3>1. repositories'[q] = [repositories[q] EXCEPT !.current = s]
        BY <2>2
      <3>2. /\ repositories'[q].scope = repositories[q].scope
            /\ repositories'[q].key = repositories[q].key
            /\ repositories'[q].source = repositories[q].source
            /\ repositories'[q].current = s
            /\ repositories'[q].state = repositories[q].state
        BY <1>0, <3>1 DEF RepositoryRow
      <3> QED
        BY <1>0, <2>2, <3>2, RankOrder, NullAssumption DEF Moved
    <2> QED
      BY <1>4, <2>1, <2>2 DEF PublishScan
  <1>5. ASSUME NEW sc, NEW r, NEW B, PurgeRepositoryBatch(sc, r, B)
        PROVE  Gone(q) \/ Moved(q)
    <2>1. repositories[r].state = "purge_pending"
      BY <1>5 DEF PurgeRepositoryBatch
    <2>2. CASE repositories' = Delete(repositories, {r})
      <3>1. CASE q = r
        BY <2>1, <2>2, <3>1 DEF Delete, Gone
      <3>2. CASE q # r
        BY <2>2, <3>2, SameRowMoved DEF Delete
      <3> QED
        BY <3>1, <3>2
    <2>3. CASE repositories' = [repositories EXCEPT ![r] = [repositories[r] EXCEPT !.current = NoScan]]
      <3>1. CASE q = r
        <4>1. repositories'[q] = [repositories[q] EXCEPT !.current = NoScan]
          BY <2>3, <3>1
        <4>2. /\ repositories'[q].scope = repositories[q].scope
              /\ repositories'[q].key = repositories[q].key
              /\ repositories'[q].source = repositories[q].source
              /\ repositories'[q].state = repositories[q].state
          BY <1>0, <4>1 DEF RepositoryRow
        <4> QED
          BY <1>0, <2>1, <2>3, <3>1, <4>2, RankOrder DEF Moved
      <3>2. CASE q # r
        BY <2>3, <3>2, SameRowMoved
      <3> QED
        BY <3>1, <3>2
    <2> QED
      BY <1>5, <2>2, <2>3 DEF PurgeRepositoryBatch, PurgedRepositories
  <1>6. CASE UNCHANGED repositories
    BY <1>6, SameRowMoved
  <1> QED
    BY <1>2, <1>3, <1>4, <1>5, <1>6, Steps DEF BeginScan, FinishScan, StagePayload, CommitGarbage

\* A repository goes active, archived, marked, gone, keeps its current scan
\* until a purge, and takes scans only while it is active.
THEOREM AlwaysMovesForward == Spec => RepositoryMovesForward
  <1>1. ASSUME TypeOK, [Next]_vars, NEW q \in DOMAIN repositories
        PROVE  /\ Gone(q) \/ Moved(q)
               /\ repositories[q].state # "active" /\ q \in DOMAIN repositories'
                     => ScansOf(q)' \subseteq ScansOf(q)
    <2>1. ASSUME repositories[q].state # "active", NEW s \in ScansOf(q)'
          PROVE  s \in ScansOf(q)
      <3>1. s \in DOMAIN scans' /\ scans'[s].repository = q
        BY <2>1 DEF ScansOf
      <3>2. CASE s \in DOMAIN scans /\ scans'[s].repository = scans[s].repository
        BY <3>1, <3>2 DEF ScansOf
      <3>3. ASSUME NEW sc, NEW r, NEW t, NEW k, NEW req, BeginScan(sc, r, t, k, req)
            PROVE  s \in DOMAIN scans /\ scans'[s].repository = scans[s].repository
        <4>1. Begun(r, t) /\ repositories[r].state = "active"
          BY <3>3, BeginEffect DEF BeginScan, BeginOutcome
        <4> QED
          BY <2>1, <3>1, <4>1 DEF Begun
      <3>4. ASSUME NEW sc, NEW r, NEW t, NEW target, NEW event, NEW reason,
                   FinishScan(sc, r, t, target, event, reason)
            PROVE  s \in DOMAIN scans /\ scans'[s].repository = scans[s].repository
        BY <1>1, <3>1, <3>4, FinishEffect DEF Finished
      <3>5. ASSUME NEW sc, NEW r, NEW t, NEW m, NEW b, PublishScan(sc, r, t, m, b)
            PROVE  s \in DOMAIN scans /\ scans'[s].repository = scans[s].repository
        BY <1>1, <3>1, <3>5, PublishEffect DEF PublishedBy
      <3>6. ASSUME NEW sc, NEW r, NEW B, PurgeRepositoryBatch(sc, r, B)
            PROVE  s \in DOMAIN scans /\ scans'[s].repository = scans[s].repository
        BY <1>1, <3>1, <3>6, PurgeEffect DEF PurgedFrom
      <3>7. CASE UNCHANGED scans
        BY <3>1, <3>2, <3>7
      <3> QED
        BY <1>1, <3>2, <3>3, <3>4, <3>5, <3>6, <3>7, Steps
           DEF RegisterRepository, ChangeRepositoryState, StagePayload, CommitGarbage
    <2> QED
      BY <1>1, <2>1, RowStep
  <1> DEFINE forward == \A r \in DOMAIN repositories :
         \/ r \notin DOMAIN repositories' /\ repositories[r].state = "purge_pending"
         \/ /\ r \in DOMAIN repositories'
            /\ Rank(repositories[r].state) <= Rank(repositories'[r].state)
            /\ repositories'[r].current = NoScan /\ repositories[r].current # NoScan
                  => repositories[r].state = "purge_pending"
            /\ repositories[r].state # "active" => ScansOf(r)' \subseteq ScansOf(r)
  <1>2. TypeOK /\ [Next]_vars => [forward]_vars
    BY <1>1 DEF Gone, Moved
  <1> QED
    BY <1>2, TypeCorrect, PTL DEF Spec, RepositoryMovesForward

-----------------------------------------------------------------------------
(* Finished scans *)

\* What Published(s) is made of.
Kept(s) ==
    /\ s \in DOMAIN scans' /\ scans'[s] = scans[s]
    /\ s \in DOMAIN publications' <=> s \in DOMAIN publications
    /\ \A a : a \in EnvelopesOf(s)' <=> a \in EnvelopesOf(s)
    /\ \A a \in EnvelopesOf(s) : envelopes'[a] = envelopes[a]

LEMMA KeptPublished ==
    ASSUME NEW s, Kept(s)
    PROVE  Published(s)' = Published(s)
  <1>1. EnvelopesOf(s)' = EnvelopesOf(s)
    BY DEF Kept
  <1>2. {<<a, envelopes'[a]>> : a \in EnvelopesOf(s)'} = {<<a, envelopes[a]>> : a \in EnvelopesOf(s)}
    BY <1>1 DEF Kept
  <1>3. (s \in DOMAIN publications') = (s \in DOMAIN publications)
    BY DEF Kept
  <1> QED
    BY <1>2, <1>3, Zenon DEF Kept, Published

\* The step leaves the scan and all that is recorded for it, or purges it.
LEMMA FinishedKept ==
    ASSUME TypeOK, CertifiedExactly, [Next]_vars,
           NEW s \in DOMAIN scans, scans[s].state \in TerminalStates
    PROVE  \/ Kept(s)
           \/ s \notin DOMAIN scans' /\ repositories[scans[s].repository].state = "purge_pending"
  <1>0. scans[s].state # "running"
    BY DEF TerminalStates, FinishedStates
  <1>1. CASE UNCHANGED <<scans, publications, envelopes>>
    BY <1>1 DEF Kept, EnvelopesOf
  <1>2. ASSUME NEW sc, NEW r, NEW t, NEW k, NEW q, BeginScan(sc, r, t, k, q)
        PROVE  Kept(s)
    BY <1>2, BeginEffect DEF Begun, Kept, EnvelopesOf
  <1>3. ASSUME NEW sc, NEW r, NEW t, NEW target, NEW event, NEW reason,
               FinishScan(sc, r, t, target, event, reason)
        PROVE  Kept(s)
    BY <1>0, <1>3, FinishEffect DEF Finished, Kept, EnvelopesOf
  <1>4. ASSUME NEW sc, NEW r, NEW t, NEW m, NEW b, PublishScan(sc, r, t, m, b)
        PROVE  Kept(s)
    <2>1. PublishedBy(r, t, m)
      BY <1>4, PublishEffect
    <2>0. t # s
      BY <1>0, <2>1 DEF PublishedBy
    <2>2. \A a : a \in EnvelopesOf(s)' <=> a \in EnvelopesOf(s)
      BY <2>0, <2>1 DEF PublishedBy, EnvelopesOf
    <2> QED
      BY <2>0, <2>1, <2>2 DEF PublishedBy, Kept, EnvelopesOf
  <1>5. ASSUME NEW sc, NEW r, NEW B, PurgeRepositoryBatch(sc, r, B)
        PROVE  \/ Kept(s)
               \/ /\ s \notin DOMAIN scans'
                  /\ repositories[scans[s].repository].state = "purge_pending"
    <2>1. PurgedFrom(r, B) /\ repositories[r].state = "purge_pending"
      BY <1>5, PurgeEffect DEF PurgeRepositoryBatch
    <2>2. CASE s \in B
      BY <2>1, <2>2 DEF PurgedFrom, ScansOf
    <2>3. CASE s \notin B
      <3>1. \A a : a \in EnvelopesOf(s)' <=> a \in EnvelopesOf(s)
        BY <2>1, <2>3 DEF PurgedFrom, EnvelopesOf
      <3> QED
        BY <2>1, <2>3, <3>1 DEF PurgedFrom, Kept, EnvelopesOf
    <2> QED
      BY <2>2, <2>3
  <1> QED
    BY <1>1, <1>2, <1>3, <1>4, <1>5, Steps
       DEF RegisterRepository, ChangeRepositoryState, StagePayload, CommitGarbage

\* A finished scan, its certificate and its artifacts never change, and go
\* only with a purge of a repository that was marked for it.
THEOREM FinishedScansNeverChange == Spec => FinishedScansImmutable
  <1> DEFINE immutable == \A s \in DOMAIN scans :
         scans[s].state \in TerminalStates =>
           \/ s \in DOMAIN scans' /\ Published(s)' = Published(s)
           \/ /\ s \notin DOMAIN scans'
              /\ repositories[scans[s].repository].state = "purge_pending"
  <1>1. ASSUME TypeOK, CertifiedExactly, [Next]_vars PROVE immutable
    <2> SUFFICES ASSUME NEW s \in DOMAIN scans, scans[s].state \in TerminalStates
                 PROVE  \/ s \in DOMAIN scans' /\ Published(s)' = Published(s)
                        \/ /\ s \notin DOMAIN scans'
                           /\ repositories[scans[s].repository].state = "purge_pending"
      OBVIOUS
    <2>1. CASE Kept(s)
      <3>1. Published(s)' = Published(s)
        BY <2>1, KeptPublished
      <3> QED
        BY <2>1, <3>1 DEF Kept
    <2>2. CASE ~Kept(s)
      BY <1>1, <2>2, FinishedKept
    <2> QED
      BY <2>1, <2>2
  <1>2. TypeOK /\ CertifiedExactly /\ [Next]_vars => [immutable]_vars
    BY <1>1
  <1> QED
    BY <1>2, TypeCorrect, AlwaysCertifiedExactly, PTL DEF Spec, FinishedScansImmutable

-----------------------------------------------------------------------------
(* Request ids *)

LEMMA InitUnique == Init => IdempotencyKeysUnique
  BY DEF Init, Empty, IdempotencyKeysUnique

\* A new row is inserted only when none of its keys is taken; the rows that
\* stay keep theirs.
LEMMA StepUnique == TypeOK /\ IdempotencyKeysUnique /\ [Next]_vars => IdempotencyKeysUnique'
  <1> SUFFICES ASSUME TypeOK, IdempotencyKeysUnique, [Next]_vars PROVE IdempotencyKeysUnique'
    OBVIOUS
  <1> DEFINE clash(p, q) == /\ repositories[p].scope = repositories[q].scope
                            /\ \/ repositories[p].key = repositories[q].key
                               \/ repositories[p].source = repositories[q].source
             twin(s, t) == scans[s].repository = scans[t].repository /\ scans[s].key = scans[t].key
  <1>1. ASSUME NEW p \in DOMAIN repositories', NEW q \in DOMAIN repositories', clash(p, q)'
        PROVE  p = q
    <2>1. CASE p \in DOMAIN repositories /\ q \in DOMAIN repositories
      <3>1. Moved(p) /\ Moved(q)
        BY <1>1, <2>1, RowStep DEF Gone
      <3> QED
        BY <1>1, <2>1, <3>1 DEF Moved, IdempotencyKeysUnique
    <2>2. CASE p \notin DOMAIN repositories \/ q \notin DOMAIN repositories
      <3>1. CASE DOMAIN repositories' \subseteq DOMAIN repositories
        BY <2>2, <3>1
      <3>2. ASSUME NEW sc, NEW r, NEW k, NEW src, RegisterRepository(sc, r, k, src)
            PROVE  p = q
        <4>1. /\ r \notin DOMAIN repositories /\ ~KeyTaken(sc, k) /\ ~SourceTaken(sc, src)
              /\ DOMAIN repositories' = DOMAIN repositories \cup {r}
              /\ \A x \in DOMAIN repositories : repositories'[x] = repositories[x]
              /\ repositories'[r].scope = sc /\ repositories'[r].key = k
              /\ repositories'[r].source = src
          BY <3>2 DEF RegisterRepository, RegisterOutcome, Insert
        <4> QED
          BY <1>1, <2>2, <4>1 DEF KeyTaken, SourceTaken
      <3>3. ASSUME NEW sc, NEW r, NEW target, NEW event,
                   ChangeRepositoryState(sc, r, target, event)
            PROVE  DOMAIN repositories' \subseteq DOMAIN repositories
        BY <3>3, ChangeEffect DEF Changed
      <3>4. ASSUME NEW sc, NEW r, NEW s, NEW m, NEW b, PublishScan(sc, r, s, m, b)
            PROVE  DOMAIN repositories' \subseteq DOMAIN repositories
        BY <3>4, PublishEffect DEF PublishedBy
      <3>5. ASSUME NEW sc, NEW r, NEW B, PurgeRepositoryBatch(sc, r, B)
            PROVE  DOMAIN repositories' \subseteq DOMAIN repositories
        BY <3>5, PurgeEffect DEF PurgedFrom
      <3> QED
        BY <3>1, <3>2, <3>3, <3>4, <3>5, Steps
           DEF BeginScan, FinishScan, StagePayload, CommitGarbage
    <2> QED
      BY <2>1, <2>2
  <1>2. ASSUME NEW s \in DOMAIN scans', NEW t \in DOMAIN scans', twin(s, t)'
        PROVE  s = t
    <2>1. CASE \A x \in DOMAIN scans' :
                  /\ x \in DOMAIN scans
                  /\ scans'[x].repository = scans[x].repository /\ scans'[x].key = scans[x].key
      BY <1>2, <2>1 DEF IdempotencyKeysUnique
    <2>2. ASSUME NEW sc, NEW r, NEW u, NEW k, NEW q, BeginScan(sc, r, u, k, q)
          PROVE  s = t
      <3>1. /\ u \notin DOMAIN scans /\ \A x \in ScansOf(r) : scans[x].key # k
            /\ DOMAIN scans' = DOMAIN scans \cup {u}
            /\ \A x \in DOMAIN scans : scans'[x] = scans[x]
            /\ scans'[u].repository = r /\ scans'[u].key = k
        BY <2>2 DEF BeginScan, BeginOutcome, Insert
      <3> QED
        BY <1>2, <3>1 DEF ScansOf, IdempotencyKeysUnique
    <2>3. ASSUME NEW sc, NEW r, NEW u, NEW target, NEW event, NEW reason,
                 FinishScan(sc, r, u, target, event, reason)
          PROVE  s = t
      <3>1. /\ u \in DOMAIN scans
            /\ scans' = [scans EXCEPT ![u] = [scans[u] EXCEPT !.state = target, !.reason = reason]]
        BY <2>3 DEF FinishScan, FinishOutcome, ScanVisible
      <3>2. /\ scans[u] \in ScanRow
        BY <3>1, Rows
      <3>3. scans'[u].repository = scans[u].repository /\ scans'[u].key = scans[u].key
        BY <3>1, <3>2 DEF ScanRow
      <3> QED
        BY <2>1, <3>1, <3>3
    <2>4. ASSUME NEW sc, NEW r, NEW u, NEW m, NEW b, PublishScan(sc, r, u, m, b)
          PROVE  s = t
      <3>1. /\ u \in DOMAIN scans
            /\ scans' = [scans EXCEPT ![u] = [scans[u] EXCEPT !.state = "succeeded"]]
        BY <2>4 DEF PublishScan, PublishOutcome, ScanVisible
      <3>2. /\ scans[u] \in ScanRow
        BY <3>1, Rows
      <3>3. scans'[u].repository = scans[u].repository /\ scans'[u].key = scans[u].key
        BY <3>1, <3>2 DEF ScanRow
      <3> QED
        BY <2>1, <3>1, <3>3
    <2>5. ASSUME NEW sc, NEW r, NEW B, PurgeRepositoryBatch(sc, r, B)
          PROVE  s = t
      BY <2>1, <2>5, PurgeEffect DEF PurgedFrom
    <2>6. CASE UNCHANGED scans
      BY <2>1, <2>6
    <2> QED
      BY <2>2, <2>3, <2>4, <2>5, <2>6, Steps
         DEF RegisterRepository, ChangeRepositoryState, StagePayload, CommitGarbage
  <1> QED
    BY <1>1, <1>2 DEF IdempotencyKeysUnique

\* A request id names one repository of its scope and one scan of its
\* repository, and a source names one repository of its scope.
THEOREM AlwaysUnique == Spec => []IdempotencyKeysUnique
  BY InitUnique, StepUnique, TypeCorrect, PTL DEF Spec

-----------------------------------------------------------------------------
(* Scopes *)

Mine(sc) == {r \in DOMAIN repositories : repositories[r].scope = sc}
Runs(sc) == {s \in DOMAIN scans : scans[s].repository \in Mine(sc)}
Shown(sc) == {a \in DOMAIN envelopes : envelopes[a].scan \in Runs(sc)}

\* The rows that View(sc) reads are those that were there before.
Unseen(sc) ==
    /\ \A r : r \in Mine(sc)' <=> r \in Mine(sc)
    /\ \A r \in Mine(sc) : repositories'[r] = repositories[r]
    /\ \A s : s \in Runs(sc)' <=> s \in Runs(sc)
    /\ \A s \in Runs(sc) : scans'[s] = scans[s]
    /\ \A a : a \in Shown(sc)' <=> a \in Shown(sc)
    /\ \A a \in Shown(sc) : envelopes'[a] = envelopes[a]
    /\ \A a \in Shown(sc) : payloads'[envelopes[a].payload] = payloads[envelopes[a].payload]

LEMMA BackedView ==
    ASSUME NEW sc, EnvelopesBacked
    PROVE  View(sc) = [repositories |-> {<<r, repositories[r]>> : r \in Mine(sc)},
                       scans |-> {<<s, scans[s]>> : s \in Runs(sc)},
                       exports |-> {<<a, envelopes[a], payloads[envelopes[a].payload]>> :
                                      a \in Shown(sc)}]
  <1>1. {b \in Shown(sc) : envelopes[b].payload \in DOMAIN payloads} = Shown(sc)
    BY DEF EnvelopesBacked, Shown
  <1> QED
    BY <1>1 DEF View, Mine, Runs, Shown

LEMMA UnseenView ==
    ASSUME NEW sc, EnvelopesBacked, EnvelopesBacked', Unseen(sc)
    PROVE  View(sc)' = View(sc)
  <1>1. Mine(sc)' = Mine(sc) /\ Runs(sc)' = Runs(sc) /\ Shown(sc)' = Shown(sc)
    BY DEF Unseen
  <1>2. {<<r, repositories'[r]>> : r \in Mine(sc)'} = {<<r, repositories[r]>> : r \in Mine(sc)}
    BY <1>1 DEF Unseen
  <1>3. {<<s, scans'[s]>> : s \in Runs(sc)'} = {<<s, scans[s]>> : s \in Runs(sc)}
    BY <1>1 DEF Unseen
  <1>4. {<<a, envelopes'[a], payloads'[envelopes'[a].payload]>> : a \in Shown(sc)'}
          = {<<a, envelopes[a], payloads[envelopes[a].payload]>> : a \in Shown(sc)}
    BY <1>1 DEF Unseen
  <1>5. View(sc)' = [repositories |-> {<<r, repositories'[r]>> : r \in Mine(sc)'},
                     scans |-> {<<s, scans'[s]>> : s \in Runs(sc)'},
                     exports |-> {<<a, envelopes'[a], payloads'[envelopes'[a].payload]>> :
                                    a \in Shown(sc)'}]
    <2>1. {b \in Shown(sc)' : envelopes'[b].payload \in DOMAIN payloads'} = Shown(sc)'
      BY DEF EnvelopesBacked, Shown
    <2> QED
      BY <2>1 DEF View, Mine, Runs, Shown
  <1> QED
    BY <1>2, <1>3, <1>4, <1>5, BackedView

\* A step that touches only rows of repository r, which is not of this scope.
LEMMA OtherScope ==
    ASSUME NEW other, NEW r, r \notin Mine(other), r \notin Mine(other)',
           \A q : q # r => (q \in DOMAIN repositories' <=> q \in DOMAIN repositories),
           \A q \in DOMAIN repositories : q # r => repositories'[q] = repositories[q],
           \A s : s \notin ScansOf(r) /\ s \notin ScansOf(r)'
                    => (s \in DOMAIN scans' <=> s \in DOMAIN scans),
           \A s \in DOMAIN scans : s \notin ScansOf(r) => scans'[s] = scans[s],
           \A s \in ScansOf(r) : s \in DOMAIN scans' => s \in ScansOf(r)',
           \A a \in DOMAIN envelopes' : \/ a \in DOMAIN envelopes /\ envelopes'[a] = envelopes[a]
                                        \/ a \notin DOMAIN envelopes
                                           /\ envelopes'[a].scan \in ScansOf(r),
           \A a \in DOMAIN envelopes : a \in DOMAIN envelopes' \/ envelopes[a].scan \in ScansOf(r),
           EnvelopesBacked,
           \A d \in DOMAIN payloads : payloads'[d] = payloads[d]
    PROVE  Unseen(other)
  <1>1. \A q : q \in Mine(other)' <=> q \in Mine(other)
    BY DEF Mine
  <1>2. \A q \in Mine(other) : repositories'[q] = repositories[q]
    BY DEF Mine
  <1>3. \A s : s \in Runs(other)' <=> s \in Runs(other)
    BY <1>1 DEF Runs, ScansOf
  <1>4. \A s \in Runs(other) : scans'[s] = scans[s]
    BY DEF Runs, ScansOf
  <1>5. \A s \in ScansOf(r) : s \notin Runs(other)
    BY DEF Runs, ScansOf
  <1>6. \A a : a \in Shown(other)' <=> a \in Shown(other)
    BY <1>3, <1>5 DEF Shown
  <1>7. \A a \in Shown(other) : envelopes'[a] = envelopes[a]
    BY <1>5, <1>6 DEF Shown
  <1>8. \A a \in Shown(other) : payloads'[envelopes[a].payload] = payloads[envelopes[a].payload]
    BY DEF Shown, EnvelopesBacked
  <1> QED
    BY <1>1, <1>2, <1>3, <1>4, <1>6, <1>7, <1>8 DEF Unseen

LEMMA ScopeUnseen ==
    ASSUME Consistent, NEW sc \in Scopes, NEW other \in Scopes \ {sc}, ScopeNext(sc)
    PROVE  Unseen(other)
  <1>0. TypeOK /\ EnvelopesBacked
    BY DEF Consistent
  <1>1. ASSUME NEW r, NEW k, NEW src, RegisterRepository(sc, r, k, src)
        PROVE  Unseen(other)
    <2>1. Registered(r) /\ repositories'[r].scope = sc
      BY <1>1, RegisterEffect DEF RegisterRepository, Insert
    <2> QED
      BY <1>0, <2>1, OtherScope DEF Registered, Mine, ScansOf
  <1>2. ASSUME NEW r, NEW target, NEW event, ChangeRepositoryState(sc, r, target, event)
        PROVE  Unseen(other)
    <2>1. /\ r \in DOMAIN repositories /\ repositories[r].scope = sc
          /\ repositories' = [repositories EXCEPT ![r] = [repositories[r] EXCEPT !.state = target]]
          /\ UNCHANGED <<scans, envelopes, payloads>>
      BY <1>2 DEF ChangeRepositoryState, ChangeStateOutcome, Visible
    <2>2. repositories'[r].scope = sc
      BY <1>0, <2>1, Rows DEF RepositoryRow
    <2> QED
      BY <1>0, <2>1, <2>2, OtherScope DEF Mine, ScansOf
  <1>3. ASSUME NEW r, NEW s, NEW k, NEW q, BeginScan(sc, r, s, k, q)
        PROVE  Unseen(other)
    <2>1. Begun(r, s) /\ repositories[r].scope = sc
      BY <1>3, BeginEffect DEF BeginScan, BeginOutcome, Visible
    <2> QED
      BY <1>0, <2>1, OtherScope DEF Begun, Mine, ScansOf
  <1>4. ASSUME NEW r, NEW s, NEW target, NEW event, NEW reason,
               FinishScan(sc, r, s, target, event, reason)
        PROVE  Unseen(other)
    <2>1. /\ Finished(s, target) /\ repositories[r].scope = sc /\ scans[s].repository = r
      BY <1>0, <1>4, FinishEffect DEF FinishScan, FinishOutcome, ScanVisible, Visible
    <2> QED
      BY <1>0, <2>1, OtherScope DEF Finished, Mine, ScansOf
  <1>5. ASSUME NEW r, NEW s, NEW d, NEW c, StagePayload(sc, r, s, d, c)
        PROVE  Unseen(other)
    <2>1. Stored(d, c) /\ repositories[r].scope = sc
      BY <1>5, StageEffect DEF StagePayload, StageOutcome, ScanVisible, Visible
    <2> QED
      BY <1>0, <2>1, OtherScope DEF Stored, Mine, ScansOf
  <1>6. ASSUME NEW r, NEW s \in Scans, NEW m, NEW b \in BOOLEAN, PublishScan(sc, r, s, m, b)
        PROVE  Unseen(other)
    <2>1. PublishedBy(r, s, m) /\ repositories[r].scope = sc
      BY <1>0, <1>6, PublishEffect DEF PublishScan, PublishOutcome, ScanVisible, Visible
    <2>2. /\ \A q \in DOMAIN repositories : q # r => repositories'[q] = repositories[q]
          /\ repositories'[r].scope = sc
      <3>1. CASE repositories' = repositories
        BY <2>1, <3>1
      <3>2. CASE repositories' = [repositories EXCEPT ![r] = [repositories[r] EXCEPT !.current = s]]
        <4>1. repositories[r] \in RepositoryRow /\ r \in DOMAIN repositories
          BY <1>0, <2>1, Rows DEF PublishedBy
        <4>2. [repositories[r] EXCEPT !.current = s].scope = repositories[r].scope
          BY <4>1 DEF RepositoryRow
        <4> QED
          BY <2>1, <3>2, <4>1, <4>2
      <3> QED
        BY <1>6, <3>1, <3>2 DEF PublishScan
    <2>3. s \in ScansOf(r) /\ s \in ScansOf(r)' /\ \A t \in ScansOf(r) : t \in ScansOf(r)'
      BY <2>1 DEF PublishedBy, ScansOf
    <2>4. r \notin Mine(other) /\ r \notin Mine(other)'
      BY <2>1, <2>2 DEF Mine
    <2>5. \A a \in DOMAIN envelopes' : \/ a \in DOMAIN envelopes /\ envelopes'[a] = envelopes[a]
                                       \/ a \notin DOMAIN envelopes
                                          /\ envelopes'[a].scan \in ScansOf(r)
      BY <2>1, <2>3 DEF PublishedBy
    <2> QED
      BY <1>0, <2>1, <2>2, <2>3, <2>4, <2>5, OtherScope DEF PublishedBy
  <1>7. ASSUME NEW r, NEW B, PurgeRepositoryBatch(sc, r, B)
        PROVE  Unseen(other)
    <2>1. PurgedFrom(r, B) /\ repositories[r].scope = sc
      BY <1>0, <1>7, PurgeEffect DEF PurgeRepositoryBatch, Visible
    <2>2. r \in DOMAIN repositories' => repositories'[r].scope = sc
      <3>1. CASE repositories' = Delete(repositories, {r})
        BY <3>1 DEF Delete
      <3>2. CASE repositories' = [repositories EXCEPT ![r] = [repositories[r] EXCEPT !.current = NoScan]]
        <4>1. repositories[r] \in RepositoryRow /\ r \in DOMAIN repositories
          BY <1>0, <2>1, Rows DEF PurgedFrom
        <4>2. [repositories[r] EXCEPT !.current = NoScan].scope = repositories[r].scope
          BY <4>1 DEF RepositoryRow
        <4> QED
          BY <2>1, <3>2, <4>1, <4>2
      <3> QED
        BY <1>7, <3>1, <3>2 DEF PurgeRepositoryBatch, PurgedRepositories
    <2>3. \A s \in ScansOf(r) : s \in DOMAIN scans' => s \in ScansOf(r)'
      BY <2>1 DEF PurgedFrom, ScansOf
    <2>4. r \notin Mine(other) /\ r \notin Mine(other)'
      BY <2>1, <2>2 DEF Mine
    <2> QED
      BY <1>0, <2>1, <2>3, <2>4, OtherScope DEF PurgedFrom
  <1> QED
    BY <1>1, <1>2, <1>3, <1>4, <1>5, <1>6, <1>7
       DEF ScopeNext, ArchiveRepository, MarkRepositoryForPurge, FailScan, CancelScan

LEMMA CollectUnseen ==
    ASSUME Consistent, NEW sc, Collect
    PROVE  Unseen(sc)
  <1>1. CASE UNCHANGED <<repositories, scans, envelopes, payloads>>
    BY <1>1 DEF Unseen, Mine, Runs, Shown
  <1>2. CASE CommitGarbage
    <2>1. Collected
      BY <1>2, CommitEffect
    <2>2. \A a \in DOMAIN envelopes : envelopes[a].payload \in DOMAIN payloads'
      BY <2>1 DEF Collected, Referenced, Consistent, EnvelopesBacked
    <2> QED
      BY <2>1, <2>2 DEF Collected, Unseen, Mine, Runs, Shown
  <1> QED
    BY <1>1, <1>2 DEF Collect, SelectGarbage, AbortGarbage

\* What is done on behalf of one scope, or by the collection of payloads that
\* scopes share, changes nothing that another scope can read.
THEOREM ScopesAlwaysIsolated == Spec => ScopesIsolated
  <1> DEFINE isolated == \A sc \in Scopes : ScopeNext(sc) \/ Collect =>
                            \A other \in Scopes \ {sc} : View(other)' = View(other)
  <1>1. ASSUME Consistent, [Next]_vars PROVE isolated
    <2>1. EnvelopesBacked /\ EnvelopesBacked'
      BY <1>1, StepConsistent DEF Consistent
    <2> QED
      BY <1>1, <2>1, ScopeUnseen, CollectUnseen, UnseenView
  <1>2. Consistent /\ [Next]_vars => [isolated]_vars
    BY <1>1
  <1> QED
    BY <1>2, AlwaysConsistent, PTL DEF Spec, ScopesIsolated

-----------------------------------------------------------------------------
(* The promise of the port *)

LEMMA BackedExports ==
    ASSUME EnvelopesBacked, NEW s
    PROVE  ExportsOf(s) = {<<a, payloads[envelopes[a].payload]>> : a \in EnvelopesOf(s)}
  <1>1. {b \in EnvelopesOf(s) : envelopes[b].payload \in DOMAIN payloads} = EnvelopesOf(s)
    BY DEF EnvelopesBacked, EnvelopesOf
  <1> QED
    BY <1>1 DEF ExportsOf

LEMMA BackedExportsNext ==
    ASSUME EnvelopesBacked', NEW s
    PROVE  ExportsOf(s)' = {<<a, payloads'[envelopes'[a].payload]>> : a \in EnvelopesOf(s)'}
  <1>1. {b \in EnvelopesOf(s)' : envelopes'[b].payload \in DOMAIN payloads'} = EnvelopesOf(s)'
    BY DEF EnvelopesBacked, EnvelopesOf
  <1> QED
    BY <1>1 DEF ExportsOf

\* What a scan exports changes only with its envelopes.
LEMMA SameExports ==
    ASSUME EnvelopesBacked, EnvelopesBacked', NEW s,
           \A a : a \in EnvelopesOf(s)' <=> a \in EnvelopesOf(s),
           \A a \in EnvelopesOf(s) : envelopes'[a] = envelopes[a],
           \A a \in EnvelopesOf(s) : payloads'[envelopes[a].payload] = payloads[envelopes[a].payload]
    PROVE  ExportsOf(s)' = ExportsOf(s)
  <1>1. EnvelopesOf(s)' = EnvelopesOf(s)
    OBVIOUS
  <1>2. {<<a, payloads'[envelopes'[a].payload]>> : a \in EnvelopesOf(s)'}
          = {<<a, payloads[envelopes[a].payload]>> : a \in EnvelopesOf(s)}
    BY <1>1
  <1> QED
    BY <1>2, BackedExports, BackedExportsNext

\* How each operation is seen.
LEMMA InitPromise == Init => Promise!PromiseInit
  BY DEF Init, Empty, Promise!PromiseInit, StatusOf, ExportsOf, EnvelopesOf

LEMMA BeginPromise ==
    ASSUME Consistent, Consistent', NEW r, NEW s \in Scans, Begun(r, s)
    PROVE  Promise!PromiseBegin(s)
  <1>1. \A t \in Scans : ExportsOf(t)' = ExportsOf(t)
    BY SameExports DEF Begun, Consistent, EnvelopesOf
  <1>2. StatusOf(s) = "absent"
    BY DEF Begun, StatusOf
  <1>3. \A t \in Scans : StatusOf(t)' = IF t = s THEN "running" ELSE StatusOf(t)
    BY DEF Begun, StatusOf
  <1> QED
    BY <1>1, <1>2, <1>3 DEF Promise!PromiseBegin

LEMMA FinishPromise ==
    ASSUME Consistent, Consistent', NEW s \in Scans, NEW target, Finished(s, target)
    PROVE  Promise!PromiseFinish(s, target)
  <1>1. \A t \in Scans : ExportsOf(t)' = ExportsOf(t)
    BY SameExports DEF Finished, Consistent, EnvelopesOf
  <1>2. StatusOf(s) = "running"
    BY DEF Finished, StatusOf
  <1>3. \A t \in Scans : StatusOf(t)' = IF t = s THEN target ELSE StatusOf(t)
    BY DEF Finished, StatusOf
  <1> QED
    BY <1>1, <1>2, <1>3 DEF Promise!PromiseFinish

\* A running scan had no envelope; it now has those of its manifest.
LEMMA PublishPromise ==
    ASSUME Consistent, Consistent', NEW r, NEW s \in Scans, NEW m \in Manifests,
           PublishedBy(r, s, m)
    PROVE  Promise!PromisePublish(s, m)
  <1>1. StatusOf(s) = "running"
    BY DEF PublishedBy, StatusOf
  <1>2. \A t \in Scans : StatusOf(t)' = IF t = s THEN "succeeded" ELSE StatusOf(t)
    BY DEF PublishedBy, StatusOf
  <1>3. \A t \in Scans \ {s} : ExportsOf(t)' = ExportsOf(t)
    <2> SUFFICES ASSUME NEW t \in Scans \ {s} PROVE ExportsOf(t)' = ExportsOf(t)
      OBVIOUS
    <2>1. \A a : a \in EnvelopesOf(t)' <=> a \in EnvelopesOf(t)
      BY DEF PublishedBy, EnvelopesOf
    <2>2. \A a \in EnvelopesOf(t) : envelopes'[a] = envelopes[a]
      BY DEF PublishedBy, EnvelopesOf
    <2> QED
      BY <2>1, <2>2, SameExports DEF PublishedBy, Consistent
  <1>4. EnvelopesOf(s)' = DOMAIN m.artifacts
        /\ \A a \in DOMAIN m.artifacts : envelopes'[a].payload = m.artifacts[a]
    <2>1. EnvelopesOf(s) = {}
      BY DEF Consistent, PublishedBy, PublishedWhole, CertifiedExactly, EnvelopesOf
    <2> QED
      BY <2>1 DEF PublishedBy, EnvelopesOf
  <1>5. ExportsOf(s)' = {<<a, payloads'[m.artifacts[a]]>> : a \in DOMAIN m.artifacts}
    <2>1. ExportsOf(s)' = {<<a, payloads'[envelopes'[a].payload]>> : a \in EnvelopesOf(s)'}
      BY BackedExportsNext DEF Consistent
    <2> QED
      BY <1>4, <2>1
  <1>6. \A a \in DOMAIN m.artifacts : /\ payloads'[m.artifacts[a]] \in Contents
                                      /\ Hash[payloads'[m.artifacts[a]]] = m.artifacts[a]
    <2>1. \A d \in DOMAIN payloads : payloads[d] \in Contents /\ Hash[payloads[d]] = d
      BY Rows DEF Consistent, PayloadsExact
    <2> QED
      BY <2>1 DEF PublishedBy
  <1>7. Promise!Delivers(m, ExportsOf(s)')
    <2> DEFINE E == ExportsOf(s)'
    <2>1. E = {<<a, payloads'[m.artifacts[a]]>> : a \in DOMAIN m.artifacts}
      BY <1>5
    <2> HIDE DEF E
    <2>2. \A e \in E : /\ e[1] \in DOMAIN m.artifacts
                      /\ e[2] = payloads'[m.artifacts[e[1]]]
      BY <2>1
    <2>3. ASSUME NEW a \in DOMAIN m.artifacts PROVE \E e \in E : e[1] = a
      <3>1. <<a, payloads'[m.artifacts[a]]>> \in E
        BY <2>1
      <3>2. <<a, payloads'[m.artifacts[a]]>>[1] = a
        OBVIOUS
      <3> QED
        BY <3>1, <3>2
    <2>4. {e[1] : e \in E} = DOMAIN m.artifacts
      BY <2>2, <2>3
    <2>5. Promise!Delivers(m, E)
      BY <1>6, <2>2, <2>4 DEF Promise!Delivers
    <2> QED
      BY <2>5 DEF E
  <1> QED
    BY <1>1, <1>2, <1>3, <1>7 DEF Promise!PromisePublish

LEMMA PurgePromise ==
    ASSUME Consistent, Consistent', NEW r, NEW B \in SUBSET Scans, PurgedFrom(r, B)
    PROVE  Promise!PromisePurge(B)
  <1>1. \A t \in Scans : StatusOf(t)' = IF t \in B THEN "absent" ELSE StatusOf(t)
    BY DEF PurgedFrom, StatusOf
  <1>2. ASSUME NEW t \in Scans \ B PROVE ExportsOf(t)' = ExportsOf(t)
    BY SameExports DEF PurgedFrom, Consistent, EnvelopesOf
  <1>3. ASSUME NEW t \in B PROVE ExportsOf(t)' = {}
    BY DEF PurgedFrom, ExportsOf, EnvelopesOf
  <1> QED
    BY <1>1, <1>2, <1>3 DEF Promise!PromisePurge

\* The other steps are not seen.
LEMMA UnseenPromise ==
    ASSUME Consistent, Consistent', UNCHANGED <<scans, envelopes>>,
           \A a \in DOMAIN envelopes : payloads'[envelopes[a].payload] = payloads[envelopes[a].payload]
    PROVE  UNCHANGED Promise!promiseVars
  <1>1. \A t \in Scans : ExportsOf(t)' = ExportsOf(t)
    BY SameExports DEF Consistent, EnvelopesOf
  <1>2. \A t \in Scans : StatusOf(t)' = StatusOf(t)
    BY DEF StatusOf
  <1> QED
    BY <1>1, <1>2 DEF Promise!promiseVars

LEMMA StepPromise ==
    Consistent /\ [Next]_vars => [Promise!PromiseNext]_(Promise!promiseVars)
  <1> SUFFICES ASSUME Consistent, [Next]_vars
               PROVE  Promise!PromiseNext \/ UNCHANGED Promise!promiseVars
    OBVIOUS
  <1>0. Consistent' /\ TypeOK
    BY StepConsistent DEF Consistent
  <1>1. ASSUME NEW sc, NEW r, NEW s \in Scans, NEW k, NEW q, BeginScan(sc, r, s, k, q)
        PROVE  Promise!PromiseNext
    BY <1>0, <1>1, BeginEffect, BeginPromise DEF Promise!PromiseNext
  <1>2. ASSUME NEW sc, NEW r, NEW s \in Scans, NEW target \in FinishedStates, NEW event, NEW reason,
               FinishScan(sc, r, s, target, event, reason)
        PROVE  Promise!PromiseNext
    BY <1>0, <1>2, FinishEffect, FinishPromise DEF Promise!PromiseNext, FinishedStates
  <1>3. ASSUME NEW sc, NEW r, NEW s \in Scans, NEW m \in Manifests, NEW b,
               PublishScan(sc, r, s, m, b)
        PROVE  Promise!PromiseNext
    BY <1>0, <1>3, PublishEffect, PublishPromise DEF Promise!PromiseNext
  <1>4. ASSUME NEW sc, NEW r, NEW B \in SUBSET Scans, PurgeRepositoryBatch(sc, r, B)
        PROVE  Promise!PromiseNext
    BY <1>0, <1>4, PurgeEffect, PurgePromise DEF Promise!PromiseNext
  <1>5. ASSUME NEW sc, NEW r, NEW s, NEW d, NEW c, StagePayload(sc, r, s, d, c)
        PROVE  UNCHANGED Promise!promiseVars
    <2>1. Stored(d, c)
      BY <1>5, StageEffect
    <2> QED
      BY <1>0, <2>1, UnseenPromise DEF Stored, Consistent, EnvelopesBacked
  <1>6. CASE CommitGarbage
    <2>1. Collected
      BY <1>6, CommitEffect
    <2>2. \A a \in DOMAIN envelopes : envelopes[a].payload \in DOMAIN payloads'
      BY <2>1 DEF Collected, Referenced, Consistent, EnvelopesBacked
    <2> QED
      BY <1>0, <2>1, <2>2, UnseenPromise DEF Collected
  <1>7. CASE UNCHANGED <<scans, envelopes, payloads>>
    BY <1>0, <1>7, UnseenPromise
  <1> QED
    BY <1>1, <1>2, <1>3, <1>4, <1>5, <1>6, <1>7, Steps
       DEF RegisterRepository, ChangeRepositoryState

\* What a caller observes of its scans is a behaviour of the promise.
THEOREM StoreKeepsPromise == Spec => KeepsPromise
  BY InitPromise, StepPromise, AlwaysConsistent, PTL
     DEF Spec, KeepsPromise, Promise!PromiseSpec

-----------------------------------------------------------------------------
(* The audit trail *)

One(condition) == IF condition THEN 1 ELSE 0
EndEvents == {"publish-scan", "fail-scan", "cancel-scan"}

\* An audited operation adds one to one count.
LEMMA Counted ==
    ASSUME TypeOK, NEW event, NEW target, Audit(event, target)
    PROVE  /\ \A s \in Scans :
                /\ Begins(s) \in Nat /\ Ends(s) \in Nat
                /\ Begins(s)' = Begins(s) + One(event = "begin-scan" /\ target = s)
                /\ Ends(s)' = Ends(s) + One(event \in EndEvents /\ target = s)
           /\ \A r \in Repositories, e \in RepositoryEvents :
                /\ audit[<<e, r>>] \in Nat
                /\ audit'[<<e, r>>] = audit[<<e, r>>] + One(event = e /\ target = r)
  <1>1. /\ \A s \in Scans, e \in ScanEvents : <<e, s>> \in AuditEvents
        /\ \A r \in Repositories, e \in RepositoryEvents : <<e, r>> \in AuditEvents
    BY DEF AuditEvents
  <1>2. \A x \in AuditEvents : /\ audit[x] \in Nat
                               /\ audit'[x] = audit[x] + One(x = <<event, target>>)
    <2> HIDE DEF AuditEvents
    <2>1. audit \in [AuditEvents -> Nat]
      BY DEF TypeOK
    <2> QED
      BY <2>1 DEF Audit, One
  <1>3. ASSUME NEW y, NEW e
        PROVE  (<<e, y>> = <<event, target>>) <=> (e = event /\ y = target)
    OBVIOUS
  <1>4. ASSUME NEW s \in Scans, NEW e \in ScanEvents
        PROVE  /\ audit[<<e, s>>] \in Nat
               /\ audit'[<<e, s>>] = audit[<<e, s>>] + One(event = e /\ target = s)
    BY <1>1, <1>2, <1>3 DEF One
  <1>5. ASSUME NEW r \in Repositories, NEW e \in RepositoryEvents
        PROVE  /\ audit[<<e, r>>] \in Nat
               /\ audit'[<<e, r>>] = audit[<<e, r>>] + One(event = e /\ target = r)
    BY <1>1, <1>2, <1>3 DEF One
  <1>6. ASSUME NEW s \in Scans
        PROVE  /\ Begins(s) \in Nat /\ Ends(s) \in Nat
               /\ Begins(s)' = Begins(s) + One(event = "begin-scan" /\ target = s)
               /\ Ends(s)' = Ends(s) + One(event \in EndEvents /\ target = s)
    <2>1. /\ "begin-scan" \in ScanEvents /\ "publish-scan" \in ScanEvents
          /\ "fail-scan" \in ScanEvents /\ "cancel-scan" \in ScanEvents
      BY DEF ScanEvents
    <2> QED
      BY <1>4, <2>1 DEF Begins, Ends, One, EndEvents
  <1> QED
    BY <1>5, <1>6

\* The parts of AuditBalanced, for one scan and for one repository.
NeverPurged == \A r \in Repositories : audit[<<"purge-repository-batch", r>>] = 0
ScanBalanced(s) ==
    /\ Ends(s) + One(Running(s)) <= Begins(s)
    /\ NeverPurged => Begins(s) = Ends(s) + One(Running(s))
RowAudited(r) ==
    /\ audit[<<"register-repository", r>>] > 0
    /\ repositories[r].state # "active" => audit[<<"archive-repository", r>>] > 0

LEMMA BalancedParts ==
    AuditBalanced <=> /\ \A s \in Scans : ScanBalanced(s)
                      /\ \A r \in DOMAIN repositories : RowAudited(r)
  BY DEF AuditBalanced, ScanBalanced, NeverPurged, RowAudited, One

LEMMA InitBalanced == Init => AuditBalanced
  <1> SUFFICES ASSUME Init PROVE AuditBalanced
    OBVIOUS
  <1>1. \A s \in Scans, e \in ScanEvents : audit[<<e, s>>] = 0
    BY DEF Init, AuditEvents
  <1>2. DOMAIN repositories = {} /\ DOMAIN scans = {}
    BY DEF Init, Empty
  <1> QED
    BY <1>1, <1>2 DEF AuditBalanced, Begins, Ends, Running, ScanEvents

\* Counts never go down.
LEMMA CountsGrow ==
    ASSUME TypeOK, NEW event, NEW target, Audit(event, target)
    PROVE  /\ NeverPurged' => NeverPurged
           /\ \A r \in Repositories, e \in RepositoryEvents :
                audit[<<e, r>>] > 0 => audit'[<<e, r>>] > 0
  <1>1. ASSUME NEW r \in Repositories, NEW e \in RepositoryEvents
        PROVE  /\ audit'[<<e, r>>] = 0 => audit[<<e, r>>] = 0
               /\ audit[<<e, r>>] > 0 => audit'[<<e, r>>] > 0
    <2>1. /\ audit[<<e, r>>] \in Nat
          /\ audit'[<<e, r>>] = audit[<<e, r>>] + One(event = e /\ target = r)
      BY Counted
    <2>2. One(event = e /\ target = r) \in 0..1
      BY DEF One
    <2> QED
      BY <2>1, <2>2
  <1>2. "purge-repository-batch" \in RepositoryEvents
    BY DEF RepositoryEvents
  <1> QED
    BY <1>1, <1>2 DEF NeverPurged

\* An operation that audits neither a begin nor an end of s and leaves s
\* running or not running.
LEMMA SameBalance ==
    ASSUME TypeOK, NEW s \in Scans, ScanBalanced(s), Running(s)' <=> Running(s),
           NEW event \in RepositoryEvents \cup ScanEvents \cup {CollectEvent[1]}, NEW target,
           Audit(event, target), event \in ScanEvents => target # s
    PROVE  ScanBalanced(s)'
  <1>1. Begins(s)' = Begins(s) /\ Ends(s)' = Ends(s)
    BY Counted DEF One, EndEvents, ScanEvents, RepositoryEvents, CollectEvent
  <1>2. NeverPurged' => NeverPurged
    BY CountsGrow
  <1> QED
    BY <1>1, <1>2 DEF ScanBalanced, One

\* A begin of s starts from a scan that does not run, an end from one that
\* does, and a purge batch is itself audited.
LEMMA StepScanBalanced ==
    ASSUME TypeOK, [Next]_vars, NEW s \in Scans, ScanBalanced(s)
    PROVE  ScanBalanced(s)'
  <1>1. ASSUME NEW sc, NEW r, NEW k, NEW src, RegisterRepository(sc, r, k, src)
        PROVE  ScanBalanced(s)'
    BY <1>1, SameBalance DEF RegisterRepository, Running, RepositoryEvents, ScanEvents
  <1>2. ASSUME NEW sc, NEW r, NEW target \in {"archived", "purge_pending"},
               ChangeRepositoryState(sc, r, target, ChangeEvent(target))
        PROVE  ScanBalanced(s)'
    BY <1>2, SameBalance
       DEF ChangeRepositoryState, Running, ChangeEvent, RepositoryEvents, ScanEvents
  <1>3. ASSUME NEW sc, NEW r, NEW t, NEW k, NEW q, BeginScan(sc, r, t, k, q)
        PROVE  ScanBalanced(s)'
    <2>1. Begun(r, t) /\ Audit("begin-scan", t)
      BY <1>3, BeginEffect DEF BeginScan
    <2>2. CASE t # s
      BY <2>1, <2>2, SameBalance DEF Begun, Running, ScanEvents
    <2>3. CASE t = s
      <3>1. ~Running(s) /\ Running(s)'
        BY <2>1, <2>3 DEF Begun, Running
      <3>2. /\ Begins(s) \in Nat /\ Ends(s) \in Nat
            /\ Begins(s)' = Begins(s) + 1 /\ Ends(s)' = Ends(s)
        BY <2>1, <2>3, Counted DEF One, EndEvents
      <3>3. NeverPurged' => NeverPurged
        BY <2>1, CountsGrow
      <3> QED
        BY <3>1, <3>2, <3>3 DEF ScanBalanced, One
    <2> QED
      BY <2>2, <2>3
  <1>4. ASSUME NEW t \in DOMAIN scans, scans[t].state = "running",
               t \in DOMAIN scans', scans'[t].state # "running",
               DOMAIN scans' = DOMAIN scans, \A u \in DOMAIN scans \ {t} : scans'[u] = scans[u],
               NEW event \in EndEvents, Audit(event, t)
        PROVE  ScanBalanced(s)'
    <2>1. CASE t # s
      <3>1. event \in ScanEvents
        BY DEF EndEvents, ScanEvents
      <3>2. Running(s)' <=> Running(s)
        BY <1>4, <2>1 DEF Running
      <3> QED
        BY <1>4, <2>1, <3>1, <3>2, SameBalance
    <2>2. CASE t = s
      <3>1. Running(s) /\ ~Running(s)'
        BY <1>4, <2>2 DEF Running
      <3>2. /\ Begins(s) \in Nat /\ Ends(s) \in Nat
            /\ Begins(s)' = Begins(s) /\ Ends(s)' = Ends(s) + 1
        BY <1>4, <2>2, Counted DEF One, EndEvents
      <3>3. NeverPurged' => NeverPurged
        BY <1>4, CountsGrow
      <3> QED
        BY <3>1, <3>2, <3>3 DEF ScanBalanced, One
    <2> QED
      BY <2>1, <2>2
  <1>5. ASSUME NEW sc, NEW r, NEW t, NEW target \in FinishedStates,
               NEW event \in {"fail-scan", "cancel-scan"}, NEW reason,
               FinishScan(sc, r, t, target, event, reason)
        PROVE  ScanBalanced(s)'
    <2>1. Finished(t, target) /\ Audit(event, t)
      BY <1>5, FinishEffect DEF FinishScan
    <2>2. event \in EndEvents /\ target # "running"
      BY DEF EndEvents, FinishedStates
    <2> QED
      BY <1>4, <2>1, <2>2 DEF Finished
  <1>6. ASSUME NEW sc, NEW r, NEW t, NEW m, NEW b, PublishScan(sc, r, t, m, b)
        PROVE  ScanBalanced(s)'
    <2>1. PublishedBy(r, t, m) /\ Audit("publish-scan", t)
      BY <1>6, PublishEffect DEF PublishScan
    <2>2. "publish-scan" \in EndEvents
      BY DEF EndEvents
    <2> QED
      BY <1>4, <2>1, <2>2 DEF PublishedBy
  <1>7. ASSUME NEW sc, NEW r \in Repositories, NEW B, PurgeRepositoryBatch(sc, r, B)
        PROVE  ScanBalanced(s)'
    <2>1. PurgedFrom(r, B) /\ Audit("purge-repository-batch", r)
      BY <1>7, PurgeEffect DEF PurgeRepositoryBatch
    <2>2. Running(s)' => Running(s)
      BY <2>1 DEF PurgedFrom, Running
    <2>3. /\ Begins(s) \in Nat /\ Ends(s) \in Nat
          /\ Begins(s)' = Begins(s) /\ Ends(s)' = Ends(s)
      BY <2>1, Counted DEF One, EndEvents
    <2>4. ~NeverPurged'
      <3>1. "purge-repository-batch" \in RepositoryEvents
        BY DEF RepositoryEvents
      <3>2. /\ audit[<<"purge-repository-batch", r>>] \in Nat
            /\ audit'[<<"purge-repository-batch", r>>]
                 = audit[<<"purge-repository-batch", r>>] + 1
        BY <2>1, <3>1, Counted DEF One
      <3> QED
        BY <3>2 DEF NeverPurged
    <2> QED
      BY <2>2, <2>3, <2>4 DEF ScanBalanced, One
  <1>8. CASE CommitGarbage
    BY <1>8, SameBalance DEF CommitGarbage, Running, ScanEvents, CollectEvent
  <1>9. CASE UNCHANGED <<scans, audit>>
    BY <1>9 DEF ScanBalanced, NeverPurged, Begins, Ends, Running
  <1> QED
    BY <1>1, <1>2, <1>3, <1>5, <1>6, <1>7, <1>8, <1>9, Steps DEF StagePayload

\* An operation that leaves a row's state leaves it audited.
LEMMA SameAudited ==
    ASSUME TypeOK, NEW r \in Repositories, RowAudited(r),
           repositories'[r].state = repositories[r].state,
           audit' = audit \/ \E event, target : Audit(event, target)
    PROVE  RowAudited(r)'
  <1>1. CASE audit' = audit
    BY <1>1 DEF RowAudited
  <1>2. ASSUME NEW event, NEW target, Audit(event, target)
        PROVE  RowAudited(r)'
    <2>1. "register-repository" \in RepositoryEvents /\ "archive-repository" \in RepositoryEvents
      BY DEF RepositoryEvents
    <2> QED
      BY <1>2, <2>1, CountsGrow DEF RowAudited
  <1> QED
    BY <1>1, <1>2

LEMMA StepRowAudited ==
    ASSUME TypeOK, [Next]_vars, \A q \in DOMAIN repositories : RowAudited(q),
           NEW r \in DOMAIN repositories', r \in Repositories
    PROVE  RowAudited(r)'
  <1>1. ASSUME NEW sc, NEW q, NEW k, NEW src, RegisterRepository(sc, q, k, src)
        PROVE  RowAudited(r)'
    <2>1. Registered(q) /\ repositories'[q].state = "active" /\ Audit("register-repository", q)
      BY <1>1, RegisterEffect DEF RegisterRepository, Insert
    <2>2. CASE r = q
      <3>1. "register-repository" \in RepositoryEvents
        BY DEF RepositoryEvents
      <3>2. /\ audit[<<"register-repository", r>>] \in Nat
            /\ audit'[<<"register-repository", r>>] = audit[<<"register-repository", r>>] + 1
        BY <2>1, <2>2, <3>1, Counted DEF One
      <3> QED
        BY <2>1, <2>2, <3>2 DEF RowAudited
    <2>3. CASE r # q
      BY <2>1, <2>3, SameAudited DEF Registered
    <2> QED
      BY <2>2, <2>3
  <1>2. ASSUME NEW sc, NEW q, NEW target \in {"archived", "purge_pending"},
               ChangeRepositoryState(sc, q, target, ChangeEvent(target))
        PROVE  RowAudited(r)'
    <2>1. /\ q \in DOMAIN repositories /\ repositories[q].state = Predecessor(target)
          /\ repositories' = [repositories EXCEPT ![q] = [repositories[q] EXCEPT !.state = target]]
          /\ Audit(ChangeEvent(target), q)
      BY <1>2 DEF ChangeRepositoryState, ChangeStateOutcome, Visible
    <2>2. CASE r # q
      BY <2>1, <2>2, SameAudited
    <2>3. CASE r = q
      <3>0. "register-repository" \in RepositoryEvents /\ "archive-repository" \in RepositoryEvents
        BY DEF RepositoryEvents
      <3>1. RowAudited(r) /\ audit'[<<"register-repository", r>>] > 0
        BY <2>1, <2>3, <3>0, CountsGrow DEF RowAudited
      <3>2. audit'[<<"archive-repository", r>>] > 0
        <4>1. CASE target = "archived"
          <5>1. /\ audit[<<"archive-repository", r>>] \in Nat
                /\ audit'[<<"archive-repository", r>>] = audit[<<"archive-repository", r>>] + 1
            BY <2>1, <2>3, <3>0, <4>1, Counted DEF One, ChangeEvent
          <5> QED
            BY <5>1
        <4>2. CASE target = "purge_pending"
          BY <2>1, <2>3, <3>0, <3>1, <4>2, CountsGrow DEF RowAudited, Predecessor
        <4> QED
          BY <4>1, <4>2
      <3> QED
        BY <3>1, <3>2 DEF RowAudited
    <2> QED
      BY <2>2, <2>3
  <1>3. ASSUME NEW sc, NEW q, NEW s, NEW m, NEW b, PublishScan(sc, q, s, m, b)
        PROVE  RowAudited(r)'
    <2>1. /\ r \in DOMAIN repositories
          /\ \/ repositories' = repositories
             \/ repositories' = [repositories EXCEPT ![q] = [repositories[q] EXCEPT !.current = s]]
          /\ Audit("publish-scan", s)
      BY <1>3 DEF PublishScan
    <2>2. repositories[r] \in RepositoryRow
      BY <2>1, Rows
    <2>3. repositories'[r].state = repositories[r].state
      BY <2>1, <2>2 DEF RepositoryRow
    <2> QED
      BY <2>1, <2>3, SameAudited
  <1>4. ASSUME NEW sc, NEW q, NEW B, PurgeRepositoryBatch(sc, q, B)
        PROVE  RowAudited(r)'
    <2>1. /\ r \in DOMAIN repositories
          /\ \/ repositories' = Delete(repositories, {q})
             \/ repositories' = [repositories EXCEPT ![q] = [repositories[q] EXCEPT !.current = NoScan]]
          /\ Audit("purge-repository-batch", q)
      BY <1>4 DEF PurgeRepositoryBatch, PurgedRepositories, Delete
    <2>2. repositories[r] \in RepositoryRow
      BY <2>1, Rows
    <2>3. repositories'[r].state = repositories[r].state
      BY <2>1, <2>2 DEF RepositoryRow, Delete
    <2> QED
      BY <2>1, <2>3, SameAudited
  <1>5. ASSUME repositories' = repositories, audit' = audit \/ \E event, target : Audit(event, target)
        PROVE  RowAudited(r)'
    BY <1>5, SameAudited
  <1> QED
    BY <1>1, <1>2, <1>3, <1>4, <1>5, Steps
       DEF BeginScan, FinishScan, StagePayload, CommitGarbage

\* Every scan's begins and ends are accounted for, and no repository exists,
\* or is archived, without its event.
THEOREM AlwaysAuditBalanced == Spec => []AuditBalanced
  <1>1. TypeOK /\ AuditBalanced /\ [Next]_vars => AuditBalanced'
    <2> SUFFICES ASSUME TypeOK, AuditBalanced, [Next]_vars PROVE AuditBalanced'
      OBVIOUS
    <2>1. \A s \in Scans : ScanBalanced(s)'
      BY BalancedParts, StepScanBalanced
    <2>2. \A r \in DOMAIN repositories' : RowAudited(r)'
      <3>1. DOMAIN repositories' \subseteq Repositories
        BY StepType, TableElim DEF TypeOK
      <3> QED
        BY <3>1, BalancedParts, StepRowAudited
    <2> QED
      BY <2>1, <2>2 DEF AuditBalanced, ScanBalanced, NeverPurged, RowAudited, One
  <1> QED
    BY <1>1, InitBalanced, TypeCorrect, PTL DEF Spec

-----------------------------------------------------------------------------
(* What a reader was told stays true *)

PurgeEvents(r) == audit[<<"purge-repository-batch", r>>]
Recorded(s) == s \in DOMAIN scans /\ scans[s].state \in TerminalStates

Stays(s) ==
    /\ s \in DOMAIN scans'
    /\ Recorded(s) =>
          /\ scans'[s] = scans[s]
          /\ s \in DOMAIN publications =>
                s \in DOMAIN publications' /\ publications'[s] = publications[s]

\* Every audited event leaves the purges counted so far.
LEMMA PurgesCounted ==
    ASSUME TypeOK, [Next]_vars, NEW r \in Repositories
    PROVE  PurgeEvents(r) \in Nat /\ (PurgeEvents(r) > 0 => PurgeEvents(r)' > 0)
  <1>0. "purge-repository-batch" \in RepositoryEvents
    BY DEF RepositoryEvents
  <1>1. ASSUME NEW event, NEW target, Audit(event, target)
        PROVE  PurgeEvents(r) > 0 => PurgeEvents(r)' > 0
    BY <1>0, <1>1, CountsGrow DEF PurgeEvents
  <1>2. PurgeEvents(r) \in Nat
    BY <1>0 DEF PurgeEvents, TypeOK, AuditEvents
  <1>3. ASSUME UNCHANGED audit
        PROVE  PurgeEvents(r) > 0 => PurgeEvents(r)' > 0
    BY <1>3 DEF PurgeEvents
  <1> QED
    BY <1>1, <1>2, <1>3, Steps, Zenon DEF RegisterRepository, ChangeRepositoryState, BeginScan,
       FinishScan, StagePayload, PublishScan, PurgeRepositoryBatch, CommitGarbage

\* A scan stays, and a finished one stays as it is with its certificate, or a
\* purge of its repository has been audited.
LEMMA RecordedStays ==
    ASSUME TypeOK, CertifiedExactly, [Next]_vars, NEW s \in DOMAIN scans,
           NEW owner \in Repositories, scans[s].repository = owner
    PROVE  Stays(s) \/ PurgeEvents(owner)' > 0
  <1>0. Recorded(s) => scans[s].state # "running"
    BY DEF Recorded, TerminalStates, FinishedStates
  <1>1. CASE UNCHANGED <<scans, publications>>
    BY <1>1 DEF Stays
  <1>2. ASSUME NEW sc, NEW r, NEW t, NEW k, NEW q, BeginScan(sc, r, t, k, q)
        PROVE  Stays(s)
    BY <1>2, BeginEffect DEF Begun, Stays
  <1>3. ASSUME NEW sc, NEW r, NEW t, NEW target, NEW event, NEW reason,
               FinishScan(sc, r, t, target, event, reason)
        PROVE  Stays(s)
    BY <1>0, <1>3, FinishEffect DEF Finished, Stays
  <1>4. ASSUME NEW sc, NEW r, NEW t, NEW m, NEW b, PublishScan(sc, r, t, m, b)
        PROVE  Stays(s)
    BY <1>0, <1>4, PublishEffect DEF PublishedBy, Stays
  <1>5. ASSUME NEW sc, NEW r \in Repositories, NEW B, PurgeRepositoryBatch(sc, r, B)
        PROVE  Stays(s) \/ PurgeEvents(owner)' > 0
    <2>1. PurgedFrom(r, B)
      BY <1>5, PurgeEffect
    <2>2. CASE s \notin B
      BY <2>1, <2>2 DEF PurgedFrom, Stays
    <2>3. CASE s \in B
      <3>1. owner = r
        BY <2>1, <2>3 DEF PurgedFrom, ScansOf
      <3>2. audit'[<<"purge-repository-batch", r>>] > 0
        <4>1. "purge-repository-batch" \in RepositoryEvents
          BY DEF RepositoryEvents
        <4>2. /\ audit[<<"purge-repository-batch", r>>] \in Nat
              /\ audit'[<<"purge-repository-batch", r>>] =
                    audit[<<"purge-repository-batch", r>>] + One(TRUE)
          BY <1>5, <4>1, Counted DEF PurgeRepositoryBatch, One
        <4> QED
          BY <4>2 DEF One
      <3> QED
        BY <3>1, <3>2 DEF PurgeEvents
    <2> QED
      BY <2>2, <2>3
  <1> QED
    BY <1>1, <1>2, <1>3, <1>4, <1>5, Steps
       DEF RegisterRepository, ChangeRepositoryState, StagePayload, CommitGarbage

-----------------------------------------------------------------------------
(* A store that one repository is registered in: what its clients rely on *)

OnlyRepository(sc, r) == \A q \in DOMAIN repositories : q = r /\ repositories[q].scope = sc

\* Rows of the tables, and the certificate of every scan that succeeded.
LEMMA OneRepositoryRows ==
    ASSUME Consistent, NEW sc, NEW r, OnlyRepository(sc, r)
    PROVE  /\ \A s \in DOMAIN scans :
                /\ s \in Scans /\ scans[s].repository = r /\ ScanVisible(sc, r, s)
                /\ scans[s] \in ScanRow
           /\ \A s \in DOMAIN publications :
                /\ publications[s].manifest \in Manifests
                /\ s \in DOMAIN scans /\ scans[s].state = "succeeded"
           /\ \A s \in DOMAIN scans : scans[s].state = "succeeded" => s \in DOMAIN publications
  <1>1. TypeOK /\ ScansOwned /\ CertifiedExactly
    BY DEF Consistent
  <1>2. /\ \A s \in DOMAIN scans : s \in Scans /\ scans[s] \in ScanRow
        /\ \A s \in DOMAIN publications : s \in Scans /\ publications[s] \in PublicationRow
    BY <1>1 DEF TypeOK, Table
  <1>3. \A s \in DOMAIN scans : scans[s].repository = r /\ ScanVisible(sc, r, s)
    BY <1>1, <1>2 DEF OnlyRepository, ScansOwned, ScanVisible, Visible
  <1>4. \A s \in DOMAIN publications : publications[s].manifest \in Manifests
    BY <1>2 DEF PublicationRow
  <1> QED
    BY <1>1, <1>2, <1>3, <1>4 DEF CertifiedExactly

\* A step that registers no other repository.
LEMMA OneRepositoryKeeps ==
    ASSUME Consistent, [Next]_vars, NEW sc, NEW r \in Repositories, OnlyRepository(sc, r),
           \A q \in DOMAIN repositories' \ DOMAIN repositories :
              q = r /\ repositories'[q].scope = sc
    PROVE  /\ Consistent' /\ OnlyRepository(sc, r)'
           /\ PurgeEvents(r) > 0 => PurgeEvents(r)' > 0
           /\ \A s \in DOMAIN scans : Stays(s) \/ PurgeEvents(r)' > 0
  <1>1. TypeOK /\ CertifiedExactly
    BY DEF Consistent
  <1>2. Consistent'
    BY StepConsistent
  <1>3. ASSUME NEW q \in DOMAIN repositories' PROVE q = r /\ repositories'[q].scope = sc
    <2>1. CASE q \in DOMAIN repositories
      <3>1. Gone(q) \/ Moved(q)
        BY <1>1, <2>1, RowStep
      <3> QED
        BY <1>3, <2>1, <3>1 DEF Gone, Moved, OnlyRepository
    <2> QED
      BY <1>3, <2>1
  <1>4. PurgeEvents(r) > 0 => PurgeEvents(r)' > 0
    BY <1>1, PurgesCounted
  <1>5. \A s \in DOMAIN scans : scans[s].repository = r
    BY OneRepositoryRows
  <1>6. \A s \in DOMAIN scans : Stays(s) \/ PurgeEvents(r)' > 0
    BY <1>1, <1>5, RecordedStays
  <1> QED
    BY <1>2, <1>3, <1>4, <1>6 DEF OnlyRepository

=============================================================================
