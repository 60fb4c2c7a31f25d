----------------------------- MODULE CatalogProofs -----------------------------
(***************************************************************************)
(* Theorems about the catalog of repositories (RepositoryCatalog): any     *)
(* number of clients that register, archive, retry and lose answers while  *)
(* sources are edited and repositories purged; about the reading of a      *)
(* publication page by page (ArtifactPages), for pages, limits and         *)
(* publications of any size; and about a listing of repositories while     *)
(* others come and go.                                                     *)
(***************************************************************************)
EXTENDS RepositoryCatalog, SequenceTheorems, FiniteSetTheorems, TLAPS

-----------------------------------------------------------------------------
(* The catalog: its invariant *)

RowType ==
    [id : Ids, key : RequestIds \cup {"earlier"}, fingerprint : Fingerprints,
     state : {"active", "archived", "purge_pending"}, created : 1..MaxClock]
RefusalKinds ==
    {"none", "source_unavailable", "internal", "idempotency_conflict", "not_found", "conflict"}
Answers == {Refusal(kind) : kind \in RefusalKinds} \cup {RepositoryRecord(row) : row \in RowType}
CallType ==
    [step : {"idle", "resolving", "resolved", "storing", "answered"},
     operation : {"none", "register", "archive", "get"}, id : Ids \cup {0},
     key : RequestIds \cup {"none"}, proof : Fingerprints \cup {"none"}, answer : Answers]

\* The three unique keys; the rows that were there at first have no known request.
Unique(table) ==
    \A a, b \in table : a # b =>
        a.id # b.id /\ a.fingerprint # b.fingerprint /\ (a.key = b.key => a.key = "earlier")
RowsOK(table) == table \subseteq RowType /\ Unique(table)

CatalogTypeOK ==
    /\ sources \in [Clients -> Fingerprints] /\ opened \subseteq Clients
    /\ clientCalls \in [Clients -> CallType]

\* A source is open only between its resolution and its release; a call that
\* stores a registration has its proof; an answer is this call's.
CallOK(call, open) ==
    /\ open => call.step = "resolved"
    /\ call.step # "answered" => call.answer.kind = "none"
    /\ call.step \in {"idle", "answered"} \/ (call.operation # "none" /\ call.id \in Ids)
    /\ call.operation = "register" /\ call.step # "idle" => call.key \in RequestIds
    /\ call.step \in {"resolving", "resolved"} => call.operation = "register"
    /\ call.operation = "register" /\ call.step \in {"resolved", "storing"} => call.proof \in Fingerprints
    /\ call.operation = "register" /\ call.answer.kind = "repository" =>
          call.answer.row.fingerprint = call.proof /\ call.answer.row.key = call.key
CallsInv == \A c \in Clients : CallOK(clientCalls[c], c \in opened)

CatalogInv == CatalogTypeOK /\ RowsOK(rows) /\ CallsInv

LEMMA RowFound ==
    ASSUME RowsOK(rows), NEW id, Present(id)
    PROVE  RowOf(id) \in rows /\ RowOf(id).id = id /\ RowOf(id) \in RowType
  <1>1. RowOf(id) \in rows /\ RowOf(id).id = id
    BY DEF Present, RowOf
  <1> QED
    BY <1>1 DEF RowsOK

\* A row that changes its state only is as unique as before.
LEMMA StateChanged ==
    ASSUME RowsOK(rows), NEW old \in rows, NEW state \in {"active", "archived", "purge_pending"}
    PROVE  /\ [old EXCEPT !.state = state] \in RowType
           /\ RowsOK((rows \ {old}) \cup {[old EXCEPT !.state = state]})
  <1>1. PICK row : row = [old EXCEPT !.state = state]
    OBVIOUS
  <1>2. old \in RowType
    BY DEF RowsOK
  <1>3. row \in RowType /\ row.id = old.id /\ row.key = old.key /\ row.fingerprint = old.fingerprint
    BY <1>1, <1>2 DEF RowType
  <1>4. PICK after : after = (rows \ {old}) \cup {row}
    OBVIOUS
  <1>5. after \subseteq RowType
    BY <1>3, <1>4 DEF RowsOK
  <1>6. Unique(after)
    <2> SUFFICES ASSUME NEW a \in after, NEW b \in after, a # b
                 PROVE  a.id # b.id /\ a.fingerprint # b.fingerprint
                        /\ (a.key = b.key => a.key = "earlier")
      BY DEF Unique
    <2>1. CASE a = row
      BY <1>3, <1>4, <2>1 DEF RowsOK, Unique
    <2>2. CASE b = row
      BY <1>3, <1>4, <2>2 DEF RowsOK, Unique
    <2>3. CASE a # row /\ b # row
      BY <1>4, <2>3 DEF RowsOK, Unique
    <2> QED
      BY <2>1, <2>2, <2>3
  <1> QED
    BY <1>1, <1>3, <1>4, <1>5, <1>6 DEF RowsOK

\* A row is new only where no row has its id, its source or its request.
LEMMA RowInserted ==
    ASSUME RowsOK(rows), NEW row \in RowType,
           \A other \in rows : other.id # row.id /\ other.fingerprint # row.fingerprint
                               /\ other.key # row.key
    PROVE  RowsOK(rows \cup {row})
  BY DEF RowsOK, Unique

LEMMA CatalogInitInv == CatalogInit => CatalogInv
  <1> SUFFICES ASSUME CatalogInit PROVE CatalogInv
    OBVIOUS
  <1>a. PICK ids \in SUBSET Ids :
          \E fingerprint \in [ids -> Fingerprints], created \in [ids -> 1..MaxClock] :
            /\ IsInjective(fingerprint)
            /\ rows = {Row(id, "earlier", fingerprint[id], "active", created[id]) : id \in ids}
    BY DEF CatalogInit
  <1>1. PICK fingerprint \in [ids -> Fingerprints], created \in [ids -> 1..MaxClock] :
          /\ IsInjective(fingerprint)
          /\ rows = {Row(id, "earlier", fingerprint[id], "active", created[id]) : id \in ids}
    BY <1>a
  <1>2. rows \subseteq RowType
    BY <1>1 DEF Row, RowType
  <1>3. Unique(rows)
    <2> SUFFICES ASSUME NEW a \in rows, NEW b \in rows, a # b
                 PROVE  a.id # b.id /\ a.fingerprint # b.fingerprint
                        /\ (a.key = b.key => a.key = "earlier")
      BY DEF Unique
    <2>1. PICK i \in ids : a = Row(i, "earlier", fingerprint[i], "active", created[i])
      BY <1>1
    <2>2. PICK j \in ids : b = Row(j, "earlier", fingerprint[j], "active", created[j])
      BY <1>1
    <2>3. a.id = i /\ b.id = j /\ a.fingerprint = fingerprint[i] /\ b.fingerprint = fingerprint[j]
          /\ a.key = "earlier"
      BY <2>1, <2>2 DEF Row
    <2>4. i # j
      BY <2>1, <2>2
    <2>5. fingerprint[i] # fingerprint[j]
      BY <1>1, <2>4 DEF IsInjective
    <2> QED
      BY <2>3, <2>4, <2>5
  <1>4. NoCall \in CallType /\ NoCall.step = "idle" /\ NoCall.answer.kind = "none"
        /\ NoCall.operation = "none"
    <2>1. [kind |-> "none"] \in Answers
      BY DEF Answers, Refusal, RefusalKinds
    <2> QED
      BY <2>1 DEF NoCall, CallType
  <1>5. CatalogTypeOK
    BY <1>4 DEF CatalogInit, CatalogTypeOK
  <1>6. CallsInv
    BY <1>4 DEF CatalogInit, CallsInv, CallOK
  <1> QED
    BY <1>2, <1>3, <1>5, <1>6 DEF CatalogInv, RowsOK

-----------------------------------------------------------------------------
(* Calls *)

\* A step of one client's call that leaves the other calls and their sources.
LEMMA OneCall ==
    ASSUME CatalogInv, NEW c \in Clients, NEW call \in CallType,
           clientCalls' = [clientCalls EXCEPT ![c] = call],
           sources' = sources, opened' \subseteq Clients,
           \A other \in Clients \ {c} : other \in opened' <=> other \in opened,
           CallOK(call, c \in opened'), RowsOK(rows')
    PROVE  CatalogInv'
  <1> USE DEF CatalogInv
  <1>1. CatalogTypeOK'
    BY DEF CatalogTypeOK
  <1>2. ASSUME NEW d \in Clients
        PROVE  CallOK(clientCalls'[d], d \in opened')
    <2>1. CASE d = c
      <3>1. clientCalls'[d] = call
        BY <2>1 DEF CatalogTypeOK
      <3> QED
        BY <2>1, <3>1
    <2>2. CASE d # c
      <3>1. clientCalls'[d] = clientCalls[d] /\ (d \in opened' <=> d \in opened)
        BY <2>2 DEF CatalogTypeOK
      <3>2. CallOK(clientCalls[d], d \in opened)
        BY DEF CallsInv
      <3> QED
        BY <3>1, <3>2 DEF CallOK
    <2> QED
      BY <2>1, <2>2
  <1>3. CallsInv'
    BY <1>2 DEF CallsInv
  <1> QED
    BY <1>1, <1>3 DEF RowsOK, Unique

LEMMA CallInv ==
    ASSUME CatalogInv, NEW c \in Clients,
           NEW operation \in {"register", "archive", "get"}, NEW id \in Ids,
           NEW key \in RequestIds \cup {"none"}, Call(c, operation, id, key)
    PROVE  CatalogInv'
  <1>1. PICK step \in {"resolving", "storing"} :
          step = IF operation = "register" THEN "resolving" ELSE "storing"
    OBVIOUS
  <1>2. PICK call : call = [NoCall EXCEPT !.step = step, !.operation = operation, !.id = id, !.key = key]
    OBVIOUS
  <1>3. clientCalls' = [clientCalls EXCEPT ![c] = call]
    BY <1>1, <1>2 DEF Call
  <1>4. [kind |-> "none"] \in Answers
    BY DEF Answers, Refusal, RefusalKinds
  <1>5. /\ call \in CallType /\ call.step = step /\ call.operation = operation /\ call.id = id
        /\ call.key = key /\ call.answer.kind = "none"
    BY <1>2, <1>4 DEF NoCall, CallType
  <1>6. c \notin opened
    BY DEF Call, In, CatalogInv, CallsInv, CallOK
  <1>7. operation = "register" => key \in RequestIds
    BY DEF Call
  <1>8. CallOK(call, c \in opened')
    <2>1. c \notin opened'
      BY <1>6 DEF Call
    <2> QED
      BY <1>1, <1>5, <1>7, <2>1 DEF CallOK
  <1>9. UNCHANGED <<rows, sources, opened>>
    BY DEF Call
  <1>10. RowsOK(rows') /\ opened' \subseteq Clients
    BY <1>9 DEF CatalogInv, CatalogTypeOK
  <1> QED
    BY <1>3, <1>5, <1>8, <1>9, <1>10, OneCall

\* What a call is answered with, and that nothing of it stays open.
LEMMA Answered ==
    ASSUME CatalogInv, NEW c \in Clients, NEW answer \in Answers, Answer(c, answer),
           clientCalls[c].operation = "register" /\ answer.kind = "repository" =>
             answer.row.fingerprint = clientCalls[c].proof /\ answer.row.key = clientCalls[c].key,
           clientCalls[c].step # "idle", sources' = sources, opened' = opened \ {c}, RowsOK(rows')
    PROVE  CatalogInv'
  <1>1. PICK call : call = [clientCalls[c] EXCEPT !.step = "answered", !.answer = answer]
    OBVIOUS
  <1>2. clientCalls[c] \in CallType
    BY DEF CatalogInv, CatalogTypeOK
  <1>3. clientCalls' = [clientCalls EXCEPT ![c] = call]
    BY <1>1, <1>2 DEF Answer, CatalogInv, CatalogTypeOK
  <1>4. /\ call \in CallType /\ call.step = "answered" /\ call.answer = answer
        /\ call.operation = clientCalls[c].operation /\ call.id = clientCalls[c].id
        /\ call.key = clientCalls[c].key /\ call.proof = clientCalls[c].proof
    BY <1>1, <1>2 DEF CallType
  <1>5. CallOK(clientCalls[c], c \in opened)
    BY DEF CatalogInv, CallsInv
  <1>6. CallOK(call, c \in opened')
    BY <1>4, <1>5 DEF CallOK
  <1>7. opened' \subseteq Clients
    BY DEF CatalogInv, CatalogTypeOK
  <1> QED
    BY <1>3, <1>4, <1>6, <1>7, OneCall

LEMMA Refusals ==
    \A kind \in RefusalKinds : Refusal(kind) \in Answers /\ Refusal(kind).kind # "repository"
  BY DEF Answers, Refusal, RefusalKinds

LEMMA Records ==
    \A row \in RowType : RepositoryRecord(row) \in Answers /\ RepositoryRecord(row).row = row
  BY DEF Answers, RepositoryRecord

LEMMA ResolvesInv ==
    ASSUME CatalogInv, NEW c \in Clients, ResolveFails(c) \/ Resolve(c)
    PROVE  CatalogInv'
  <1>1. clientCalls[c].step = "resolving" /\ UNCHANGED <<rows, sources>>
    BY DEF ResolveFails, Resolve, In
  <1>2. CallOK(clientCalls[c], c \in opened) /\ clientCalls[c] \in CallType
    BY DEF CatalogInv, CallsInv, CatalogTypeOK
  <1>3. RowsOK(rows')
    BY <1>1 DEF CatalogInv
  <1>4. CASE ResolveFails(c)
    <2>1. opened' = opened \ {c}
      BY <1>1, <1>2, <1>4 DEF ResolveFails, CallOK
    <2>2. "source_unavailable" \in RefusalKinds
      BY DEF RefusalKinds
    <2> QED
      BY <1>1, <1>3, <1>4, <2>1, <2>2, Refusals, Answered DEF ResolveFails
  <1>5. CASE Resolve(c)
    <2>1. sources[c] \in Fingerprints
      BY DEF CatalogInv, CatalogTypeOK
    <2>2. PICK call : call = [clientCalls[c] EXCEPT !.step = "resolved", !.proof = sources[c]]
      OBVIOUS
    <2>3. clientCalls' = [clientCalls EXCEPT ![c] = call]
      BY <1>5, <2>2 DEF Resolve, CatalogInv, CatalogTypeOK
    <2>4. /\ call \in CallType /\ call.step = "resolved" /\ call.proof = sources[c]
          /\ call.operation = clientCalls[c].operation /\ call.id = clientCalls[c].id
          /\ call.key = clientCalls[c].key /\ call.answer = clientCalls[c].answer
      BY <1>2, <2>1, <2>2 DEF CallType
    <2>5. CallOK(call, c \in opened')
      BY <1>1, <1>2, <2>1, <2>4 DEF CallOK
    <2>6. opened' \subseteq Clients /\ \A other \in Clients \ {c} : other \in opened' <=> other \in opened
      BY <1>5 DEF Resolve, CatalogInv, CatalogTypeOK
    <2> QED
      BY <1>1, <1>3, <2>3, <2>4, <2>5, <2>6, OneCall
  <1> QED
    BY <1>4, <1>5

LEMMA CloseSourceInv ==
    ASSUME CatalogInv, NEW c \in Clients, CloseSource(c)
    PROVE  CatalogInv'
  <1>1. clientCalls[c].step = "resolved" /\ UNCHANGED <<rows, sources>> /\ opened' = opened \ {c}
    BY DEF CloseSource, In, Released
  <1>2. CallOK(clientCalls[c], c \in opened) /\ clientCalls[c] \in CallType
    BY DEF CatalogInv, CallsInv, CatalogTypeOK
  <1>3. RowsOK(rows')
    BY <1>1 DEF CatalogInv
  <1>4. ASSUME NEW kind \in {"source_unavailable", "internal"}, Answer(c, Refusal(kind))
        PROVE  CatalogInv'
    <2>1. kind \in RefusalKinds
      BY DEF RefusalKinds
    <2> QED
      BY <1>1, <1>3, <1>4, <2>1, Refusals, Answered
  <1>5. CASE ToStep(c, "storing")
    <2>1. PICK call : call = [clientCalls[c] EXCEPT !.step = "storing"]
      OBVIOUS
    <2>2. clientCalls' = [clientCalls EXCEPT ![c] = call]
      BY <1>5, <2>1 DEF ToStep, CatalogInv, CatalogTypeOK
    <2>3. /\ call \in CallType /\ call.step = "storing" /\ call.proof = clientCalls[c].proof
          /\ call.operation = clientCalls[c].operation /\ call.id = clientCalls[c].id
          /\ call.key = clientCalls[c].key /\ call.answer = clientCalls[c].answer
      BY <1>2, <2>1 DEF CallType
    <2>4. CallOK(call, c \in opened')
      BY <1>1, <1>2, <2>3 DEF CallOK
    <2>5. opened' \subseteq Clients /\ \A other \in Clients \ {c} : other \in opened' <=> other \in opened
      BY <1>1 DEF CatalogInv, CatalogTypeOK
    <2> QED
      BY <1>1, <1>3, <2>2, <2>3, <2>4, <2>5, OneCall
  <1> QED
    BY <1>4, <1>5 DEF CloseSource

-----------------------------------------------------------------------------
(* Transactions *)

\* An answer and a table that a transaction of a call may leave.
ResultOK(call, result) ==
    /\ result.answer \in Answers /\ RowsOK(result.rows)
    /\ call.operation = "register" /\ result.answer.kind = "repository" =>
         result.answer.row.fingerprint = call.proof /\ result.answer.row.key = call.key

LEMMA RegisteredOK ==
    ASSUME CatalogInv, NEW c \in Clients, clientCalls[c].operation = "register",
           clientCalls[c].step = "storing", NEW created \in 1..MaxClock
    PROVE  ResultOK(clientCalls[c], Registered(c, created))
  <1> USE DEF CatalogInv
  <1>1. PICK call : call = clientCalls[c]
    OBVIOUS
  <1>2. PICK outcome : outcome = RegisterOutcome(call.id, call.key, call.proof)
    OBVIOUS
  <1>3. PICK row : row = Row(call.id, call.key, call.proof, "active", created)
    OBVIOUS
  <1>4. /\ row \in RowType /\ row.id = call.id /\ row.key = call.key
        /\ row.fingerprint = call.proof
    <2>1. CallOK(call, c \in opened)
      BY <1>1 DEF CallsInv
    <2>2. call.id \in Ids /\ call.key \in RequestIds /\ call.proof \in Fingerprints
      BY <1>1, <2>1 DEF CallOK
    <2> QED
      BY <1>3, <2>2 DEF Row, RowType
  <1>5. CASE outcome = "created"
    <2>1. Registered(c, created) = [answer |-> RepositoryRecord(row), rows |-> rows \cup {row}]
      BY <1>1, <1>2, <1>3, <1>5 DEF Registered
    <2>2. \A other \in rows : other.id # row.id /\ other.fingerprint # row.fingerprint
                              /\ other.key # row.key
      BY <1>2, <1>4, <1>5 DEF RegisterOutcome, Present
    <2>3. RowsOK(rows \cup {row})
      BY <1>4, <2>2, RowInserted
    <2> QED
      BY <1>1, <1>4, <2>1, <2>3, Records DEF ResultOK
  <1>6. CASE outcome = "returned"
    <2>1. Registered(c, created) = [answer |-> RepositoryRecord(RowOf(call.id)), rows |-> rows]
      BY <1>1, <1>2, <1>6 DEF Registered
    <2>2. /\ Present(call.id) /\ RowOf(call.id).key = call.key
          /\ RowOf(call.id).fingerprint = call.proof
      BY <1>2, <1>6 DEF RegisterOutcome
    <2>3. RowOf(call.id) \in RowType
      BY <2>2, RowFound
    <2> QED
      BY <1>1, <2>1, <2>2, <2>3, Records DEF ResultOK
  <1>7. CASE outcome \notin {"created", "returned"}
    <2>1. Registered(c, created) = [answer |-> Refusal(outcome), rows |-> rows]
      BY <1>1, <1>2, <1>7 DEF Registered
    <2>2. outcome \in RefusalKinds
      BY <1>2, <1>7 DEF RegisterOutcome, RefusalKinds
    <2> QED
      BY <2>1, <2>2, Refusals DEF ResultOK
  <1> QED
    BY <1>5, <1>6, <1>7

LEMMA ArchivedOK ==
    ASSUME CatalogInv, NEW c \in Clients, clientCalls[c].operation = "archive"
    PROVE  ResultOK(clientCalls[c], Archived(c))
  <1> USE DEF CatalogInv
  <1>1. PICK id : id = clientCalls[c].id
    OBVIOUS
  <1>2. ASSUME NEW kind \in {"not_found", "conflict"},
               Archived(c) = [answer |-> Refusal(kind), rows |-> rows]
        PROVE  ResultOK(clientCalls[c], Archived(c))
    <2>1. kind \in RefusalKinds
      BY DEF RefusalKinds
    <2> QED
      BY <1>2, <2>1, Refusals DEF ResultOK
  <1>3. CASE ~Present(id)
    <2>1. Archived(c) = [answer |-> Refusal("not_found"), rows |-> rows]
      BY <1>1, <1>3 DEF Archived
    <2> QED
      BY <1>2, <2>1
  <1>4. CASE Present(id) /\ RowOf(id).state = "purge_pending"
    <2>1. Archived(c) = [answer |-> Refusal("conflict"), rows |-> rows]
      BY <1>1, <1>4 DEF Archived
    <2> QED
      BY <1>2, <2>1
  <1>5. CASE Present(id) /\ RowOf(id).state # "purge_pending"
    <2>1. PICK old \in rows : old = RowOf(id)
      BY <1>5, RowFound
    <2>2. PICK row : row = [old EXCEPT !.state = "archived"]
      OBVIOUS
    <2>3. Archived(c) = [answer |-> RepositoryRecord(row), rows |-> (rows \ {old}) \cup {row}]
      BY <1>1, <1>5, <2>1, <2>2 DEF Archived
    <2>4. row \in RowType /\ RowsOK((rows \ {old}) \cup {row})
      BY <2>2, StateChanged
    <2> QED
      BY <2>3, <2>4, Records DEF ResultOK
  <1> QED
    BY <1>3, <1>4, <1>5

LEMMA GotOK ==
    ASSUME CatalogInv, NEW c \in Clients, clientCalls[c].operation = "get"
    PROVE  ResultOK(clientCalls[c], Got(c))
  <1> USE DEF CatalogInv
  <1>1. PICK id : id = clientCalls[c].id
    OBVIOUS
  <1>2. CASE Present(id)
    <2>1. Got(c) = [answer |-> RepositoryRecord(RowOf(id)), rows |-> rows] /\ RowOf(id) \in RowType
      BY <1>1, <1>2, RowFound DEF Got
    <2> QED
      BY <2>1, Records DEF ResultOK
  <1>3. CASE ~Present(id)
    <2>1. Got(c) = [answer |-> Refusal("not_found"), rows |-> rows] /\ "not_found" \in RefusalKinds
      BY <1>1, <1>3 DEF Got, RefusalKinds
    <2> QED
      BY <2>1, Refusals DEF ResultOK
  <1> QED
    BY <1>2, <1>3

\* Whether the transaction commits and whether its answer arrives are two things.
LEMMA CommitCallInv ==
    ASSUME CatalogInv, NEW c \in Clients, CommitCall(c)
    PROVE  CatalogInv'
  <1>1. /\ clientCalls[c].step = "storing" /\ UNCHANGED <<sources, opened, made>>
        /\ c \notin opened /\ clientCalls[c].operation \in {"register", "archive", "get"}
    <2>1. clientCalls[c].step = "storing" /\ UNCHANGED <<sources, opened, made>>
      BY DEF CommitCall, In
    <2>2. CallOK(clientCalls[c], c \in opened) /\ clientCalls[c] \in CallType
      BY DEF CatalogInv, CallsInv, CatalogTypeOK
    <2>3. c \notin opened /\ clientCalls[c].operation # "none"
      BY <2>1, <2>2 DEF CallOK
    <2> QED
      BY <2>1, <2>2, <2>3 DEF CallType
  <1>2. PICK created \in 1..MaxClock :
          LET result == CASE clientCalls[c].operation = "register" -> Registered(c, created)
                          [] clientCalls[c].operation = "archive" -> Archived(c)
                          [] clientCalls[c].operation = "get" -> Got(c)
          IN  \/ Answer(c, result.answer) /\ rows' = result.rows
              \/ Answer(c, Refusal("internal")) /\ rows' = result.rows
              \/ Answer(c, Refusal("internal")) /\ UNCHANGED rows
    BY DEF CommitCall
  <1>3. PICK result :
          result = CASE clientCalls[c].operation = "register" -> Registered(c, created)
                     [] clientCalls[c].operation = "archive" -> Archived(c)
                     [] clientCalls[c].operation = "get" -> Got(c)
    OBVIOUS
  <1>4. \/ Answer(c, result.answer) /\ rows' = result.rows
        \/ Answer(c, Refusal("internal")) /\ rows' = result.rows
        \/ Answer(c, Refusal("internal")) /\ UNCHANGED rows
    BY <1>2, <1>3
  <1>5. ResultOK(clientCalls[c], result)
    <2>1. CASE clientCalls[c].operation = "register"
      <3>1. result = Registered(c, created)
        BY <1>3, <2>1
      <3> QED
        BY <1>1, <2>1, <3>1, RegisteredOK
    <2>2. CASE clientCalls[c].operation = "archive"
      <3>1. result = Archived(c)
        BY <1>3, <2>2
      <3> QED
        BY <2>2, <3>1, ArchivedOK
    <2>3. CASE clientCalls[c].operation = "get"
      <3>1. result = Got(c)
        BY <1>3, <2>3
      <3> QED
        BY <2>3, <3>1, GotOK
    <2> QED
      BY <1>1, <2>1, <2>2, <2>3
  <1>6. RowsOK(rows')
    BY <1>4, <1>5 DEF ResultOK, CatalogInv
  <1>7. opened' = opened \ {c}
    BY <1>1
  <1>8. CASE Answer(c, result.answer)
    <2>1. PICK answer \in Answers : answer = result.answer
      BY <1>5 DEF ResultOK
    <2> QED
      BY <1>1, <1>5, <1>6, <1>7, <1>8, <2>1, Answered DEF ResultOK
  <1>9. CASE Answer(c, Refusal("internal"))
    <2>1. "internal" \in RefusalKinds
      BY DEF RefusalKinds
    <2> QED
      BY <1>1, <1>6, <1>7, <1>9, <2>1, Refusals, Answered
  <1> QED
    BY <1>4, <1>8, <1>9

LEMMA PurgeInv ==
    ASSUME CatalogInv, NEW id, Purge(id)
    PROVE  CatalogInv'
  <1> USE DEF CatalogInv
  <1>1. PICK old \in rows : old = RowOf(id)
    BY RowFound DEF Purge
  <1>2. \/ rows' = (rows \ {old}) \cup {[old EXCEPT !.state = "purge_pending"]}
        \/ rows' = rows \ {old}
    BY <1>1 DEF Purge
  <1>3. RowsOK(rows \ {old})
    BY DEF RowsOK, Unique
  <1>4. RowsOK(rows')
    BY <1>2, <1>3, StateChanged
  <1>5. UNCHANGED <<sources, opened, clientCalls>>
    BY DEF Purge
  <1> QED
    BY <1>4, <1>5 DEF CatalogTypeOK, CallsInv, RowsOK, Unique

LEMMA EditSourceInv ==
    ASSUME CatalogInv, NEW c \in Clients, EditSource(c)
    PROVE  CatalogInv'
  <1>1. UNCHANGED <<rows, opened, clientCalls>>
    BY DEF EditSource
  <1>2. sources' \in [Clients -> Fingerprints]
    BY DEF EditSource, CatalogInv, CatalogTypeOK
  <1> QED
    BY <1>1, <1>2 DEF CatalogInv, CatalogTypeOK, CallsInv, RowsOK, Unique

LEMMA CatalogNextInv == CatalogInv /\ [CatalogNext]_catalogVars => CatalogInv'
  <1> SUFFICES ASSUME CatalogInv, [CatalogNext]_catalogVars
               PROVE  CatalogInv'
    OBVIOUS
  <1>1. ASSUME NEW c \in Clients, NEW operation \in {"register", "archive", "get"}, NEW id \in Ids,
               NEW key \in RequestIds \cup {"none"}, Call(c, operation, id, key)
        PROVE  CatalogInv'
    BY <1>1, CallInv
  <1>2. ASSUME NEW c \in Clients, ResolveFails(c) \/ Resolve(c)
        PROVE  CatalogInv'
    BY <1>2, ResolvesInv
  <1>3. ASSUME NEW c \in Clients, CloseSource(c)
        PROVE  CatalogInv'
    BY <1>3, CloseSourceInv
  <1>4. ASSUME NEW c \in Clients, CommitCall(c)
        PROVE  CatalogInv'
    BY <1>4, CommitCallInv
  <1>5. ASSUME NEW c \in Clients, EditSource(c)
        PROVE  CatalogInv'
    BY <1>5, EditSourceInv
  <1>6. ASSUME NEW id \in Ids, Purge(id)
        PROVE  CatalogInv'
    BY <1>6, PurgeInv
  <1>7. CASE StartListing \/ ListRepositories \/ UNCHANGED catalogVars
    <2>1. UNCHANGED <<rows, sources, opened, clientCalls>>
      BY <1>7 DEF StartListing, ListRepositories, catalogVars
    <2> QED
      BY <2>1 DEF CatalogInv, CatalogTypeOK, CallsInv, RowsOK, Unique
  <1> QED
    BY <1>1, <1>2, <1>3, <1>4, <1>5, <1>6, <1>7 DEF CatalogNext

\* The table keeps its unique keys, and every call the proof of its own source.
THEOREM AlwaysCatalogInv == CatalogSpec => []CatalogInv
  BY CatalogInitInv, CatalogNextInv, PTL DEF CatalogSpec

\* A registration is answered with the repository of the source this very call
\* saw, for any number of clients, however their calls, retries, lost answers,
\* edits and purges are interleaved; no answer leaves a source open.
THEOREM RegistrationsAlwaysTrue == CatalogSpec => []RegistrationsTrue
  <1>1. CatalogInv => RegistrationsTrue
    <2> SUFFICES ASSUME CatalogInv PROVE RegistrationsTrue
      OBVIOUS
    <2>1. ASSUME NEW c \in Clients
          PROVE  /\ clientCalls[c].step = "answered" => c \notin opened
                 /\ clientCalls[c].operation = "register" /\ clientCalls[c].answer.kind = "repository" =>
                      /\ clientCalls[c].answer.row.fingerprint = clientCalls[c].proof
                      /\ clientCalls[c].answer.row.key = clientCalls[c].key
      BY DEF CatalogInv, CallsInv, CallOK
    <2>2. Unique(rows)
      BY DEF CatalogInv, RowsOK
    <2> QED
      BY <2>1, <2>2 DEF RegistrationsTrue, Unique
  <1> QED
    BY <1>1, AlwaysCatalogInv, PTL

-----------------------------------------------------------------------------
(* Pages, and the artifacts of one scan *)

LEMMA MinOfTwo ==
    ASSUME NEW a \in Nat, NEW b \in Nat
    PROVE  /\ Min({a, b}) \in Nat
           /\ a <= b => Min({a, b}) = a
           /\ b <= a => Min({a, b}) = b
  <1>1. \E m \in {a, b} : \A n \in {a, b} : m <= n
    OBVIOUS
  <1>2. Min({a, b}) \in {a, b} /\ \A n \in {a, b} : Min({a, b}) <= n
    BY <1>1 DEF Min
  <1> QED
    BY <1>2

\* A page has what follows its offset, is full if more follows, and is the last
\* one otherwise.
LEMMA PageIs ==
    ASSUME NEW S, NEW ordered \in Seq(S), NEW offset \in Nat, NEW size \in Nat \ {0},
           NEW page, page = Page(ordered, offset, size)
    PROVE  /\ page \in Seq(S) /\ Len(page) \in Nat /\ Len(page) <= size
           /\ \A i \in 1..Len(page) : page[i] = ordered[offset + i]
           /\ offset >= Len(ordered) => page = <<>> /\ ~More(ordered, offset, size)
           /\ offset <= Len(ordered) => offset + Len(page) <= Len(ordered)
           /\ offset <= Len(ordered) /\ ~More(ordered, offset, size) =>
                offset + Len(page) = Len(ordered)
  <1>1. Len(ordered) \in Nat /\ \A i \in 1..Len(ordered) : ordered[i] \in S
    OBVIOUS
  <1>2. PICK last \in Nat : last = Min({offset + size, Len(ordered)})
    BY <1>1, MinOfTwo
  <1>3. /\ offset + size <= Len(ordered) => last = offset + size
        /\ Len(ordered) <= offset + size => last = Len(ordered)
    BY <1>1, <1>2, MinOfTwo
  <1>4. page = SubSeq(ordered, offset + 1, last) /\ last <= Len(ordered)
    BY <1>1, <1>2, <1>3 DEF Page
  <1>5. \A i \in (offset + 1)..last : ordered[i] \in S
    BY <1>1, <1>4
  <1>6. /\ page \in Seq(S)
        /\ Len(page) = IF offset + 1 <= last THEN last - (offset + 1) + 1 ELSE 0
        /\ \A i \in 1..(last - (offset + 1) + 1) : page[i] = ordered[(offset + 1) + i - 1]
    BY <1>4, <1>5, SubSeqProperties
  <1>7. Len(page) = IF offset < last THEN last - offset ELSE 0
    BY <1>6
  <1>8. \A i \in 1..Len(page) : page[i] = ordered[offset + i]
    <2> SUFFICES ASSUME NEW i \in 1..Len(page) PROVE page[i] = ordered[offset + i]
      OBVIOUS
    <2>1. i \in 1..(last - (offset + 1) + 1) /\ (offset + 1) + i - 1 = offset + i
      BY <1>7
    <2> QED
      BY <1>6, <2>1
  <1>9. offset >= Len(ordered) => page = <<>>
    BY <1>1, <1>3, <1>6, <1>7
  <1>10. Len(page) \in Nat /\ Len(page) <= size
    BY <1>1, <1>3, <1>7
  <1>11. More(ordered, offset, size) <=> Len(ordered) > offset + size
    BY DEF More
  <1> QED
    BY <1>1, <1>3, <1>6, <1>7, <1>8, <1>9, <1>10, <1>11

ReadingType ==
    [step : {"begun", "listing", "read", "not_found", "integrity_failure"}, published : Nat,
     known : BOOLEAN, offset : Nat, seen : Seq(Nat), purged : BOOLEAN]

\* What was read is the beginning of what was published, as far as the offset.
ReadingInv ==
    /\ reading \in ReadingType
    /\ reading.offset = Len(reading.seen) /\ reading.offset <= reading.published
    /\ \A i \in 1..reading.offset : reading.seen[i] = i
    /\ reading.step = "begun" => reading.offset = 0
    /\ reading.step = "listing" => reading.offset <= MaxArtifacts
    /\ reading.step = "read" => reading.offset <= MaxArtifacts + ReadPageSize
    /\ reading.step = "read" /\ ~reading.purged => reading.offset = reading.published
    /\ reading.step = "integrity_failure" => reading.published > MaxArtifacts \/ ~reading.known

LEMMA ReadingInitInv == ReadingInit => ReadingInv
  <1> SUFFICES ASSUME ReadingInit PROVE ReadingInv
    OBVIOUS
  <1>1. PICK n \in 0..MaxPublished, known \in BOOLEAN :
          reading = [step |-> "begun", published |-> n, known |-> known, offset |-> 0,
                     seen |-> <<>>, purged |-> FALSE]
    BY DEF ReadingInit
  <1>2. n \in Nat /\ <<>> \in Seq(Nat) /\ Len(<<>>) = 0
    BY PagesAssumption
  <1>3. reading \in ReadingType
    BY <1>1, <1>2 DEF ReadingType
  <1> QED
    BY <1>1, <1>2, <1>3 DEF ReadingInv

LEMMA ReadScanInv ==
    ASSUME ReadingInv, ReadScan
    PROVE  ReadingInv'
  <1>1. PICK step \in {"not_found", "listing", "integrity_failure"} : step = ScanRecord
    BY DEF ScanRecord
  <1>2. step = "integrity_failure" => ~reading.known
    BY <1>1 DEF ScanRecord
  <1>3. reading' = [reading EXCEPT !.step = step] /\ reading.step = "begun"
    BY <1>1 DEF ReadScan
  <1>4. /\ reading' \in ReadingType /\ reading'.step = step
        /\ reading'.published = reading.published /\ reading'.known = reading.known
        /\ reading'.offset = reading.offset /\ reading'.seen = reading.seen
    BY <1>3 DEF ReadingInv, ReadingType
  <1>5. reading.offset = 0 /\ 0 <= MaxArtifacts
    BY <1>3, PagesAssumption DEF ReadingInv
  <1> QED
    BY <1>2, <1>4, <1>5 DEF ReadingInv

LEMMA PurgeScanInv ==
    ASSUME ReadingInv, PurgeScan
    PROVE  ReadingInv'
  <1>1. reading' = [reading EXCEPT !.purged = TRUE] /\ reading.step \in {"begun", "listing"}
    BY DEF PurgeScan
  <1>2. /\ reading' \in ReadingType /\ reading'.step = reading.step
        /\ reading'.published = reading.published /\ reading'.known = reading.known
        /\ reading'.offset = reading.offset /\ reading'.seen = reading.seen
    BY <1>1 DEF ReadingInv, ReadingType
  <1> QED
    BY <1>1, <1>2 DEF ReadingInv

\* One page: of what was published, or of nothing after a purge.
LEMMA ListArtifactsInv ==
    ASSUME ReadingInv, ListArtifacts
    PROVE  ReadingInv'
  <1> USE DEF ReadingInv, ReadingType
  <1>1. reading.step = "listing"
    BY DEF ListArtifacts
  <1>2. PICK remaining : remaining = Remaining
    OBVIOUS
  <1>3. /\ remaining \in Seq(Nat)
        /\ ~reading.purged => Len(remaining) = reading.published
                              /\ \A i \in 1..reading.published : remaining[i] = i
        /\ reading.purged => remaining = <<>> /\ Len(remaining) = 0
    <2>1. CASE reading.purged
      BY <1>2, <2>1 DEF Remaining
    <2>2. CASE ~reading.purged
      <3>1. remaining = [i \in 1..reading.published |-> i]
        BY <1>2, <2>2 DEF Remaining
      <3> QED
        BY <2>2, <3>1
    <2> QED
      BY <2>1, <2>2
  <1>4. PICK page : page = Page(remaining, reading.offset, ReadPageSize)
    OBVIOUS
  <1>5. PICK more \in BOOLEAN : more <=> More(remaining, reading.offset, ReadPageSize)
    OBVIOUS
  <1>6. /\ page \in Seq(Nat) /\ Len(page) \in Nat /\ Len(page) <= ReadPageSize
        /\ \A i \in 1..Len(page) : page[i] = remaining[reading.offset + i]
        /\ reading.offset >= Len(remaining) => page = <<>> /\ ~more
        /\ reading.offset <= Len(remaining) => reading.offset + Len(page) <= Len(remaining)
        /\ reading.offset <= Len(remaining) /\ ~more => reading.offset + Len(page) = Len(remaining)
    <2>1. PICK offset \in Nat : offset = reading.offset
      OBVIOUS
    <2> HIDE DEF ReadingInv, ReadingType
    <2>2. ReadPageSize \in Nat \ {0} /\ remaining \in Seq(Nat) /\ page = Page(remaining, offset, ReadPageSize)
      BY <1>3, <1>4, <2>1, PagesAssumption
    <2>3. /\ page \in Seq(Nat) /\ Len(page) \in Nat /\ Len(page) <= ReadPageSize
          /\ \A i \in 1..Len(page) : page[i] = remaining[offset + i]
          /\ offset >= Len(remaining) => page = <<>> /\ ~More(remaining, offset, ReadPageSize)
          /\ offset <= Len(remaining) => offset + Len(page) <= Len(remaining)
          /\ offset <= Len(remaining) /\ ~More(remaining, offset, ReadPageSize) =>
               offset + Len(page) = Len(remaining)
      BY <2>2, PageIs
    <2> QED
      BY <1>5, <2>1, <2>3, Zenon
  <1>7. PICK seen : seen = reading.seen \o page
    OBVIOUS
  <1>8. /\ seen \in Seq(Nat) /\ Len(seen) = reading.offset + Len(page)
        /\ \A i \in 1..Len(seen) :
             seen[i] = IF i <= reading.offset THEN reading.seen[i] ELSE page[i - reading.offset]
    BY <1>6, <1>7, ConcatProperties
  <1>9. PICK step \in {"read", "integrity_failure", "listing"} :
          step = IF ~more THEN "read"
                 ELSE IF Len(seen) > MaxArtifacts THEN "integrity_failure" ELSE "listing"
    OBVIOUS
  <1>10. reading' = [reading EXCEPT !.seen = seen, !.offset = reading.offset + Len(page), !.step = step]
    BY <1>2, <1>4, <1>5, <1>7, <1>9 DEF ListArtifacts, ArtifactPage, NextOffset
  <1>11. /\ reading' \in ReadingType /\ reading'.step = step /\ reading'.seen = seen
         /\ reading'.offset = Len(seen) /\ reading'.published = reading.published
         /\ reading'.known = reading.known /\ reading'.purged = reading.purged
    <2>1. PICK offset \in Nat : offset = reading.offset + Len(page)
      BY <1>6
    <2>2. offset = Len(seen) /\ seen \in Seq(Nat)
      BY <1>8, <2>1
    <2>3. reading' = [reading EXCEPT !.seen = seen, !.offset = offset, !.step = step]
      BY <1>10, <2>1
    <2>4. reading' \in ReadingType
      BY <1>9, <2>2, <2>3, Zenon
    <2> QED
      BY <2>2, <2>3, <2>4
  <1>12. Len(seen) <= reading.published
    BY <1>3, <1>6, <1>8
  <1>13. \A i \in 1..Len(seen) : seen[i] = i
    <2> SUFFICES ASSUME NEW i \in 1..Len(seen) PROVE seen[i] = i
      OBVIOUS
    <2>1. CASE i <= reading.offset
      BY <1>8, <2>1
    <2>2. CASE ~(i <= reading.offset)
      <3>1. i - reading.offset \in 1..Len(page)
        BY <1>6, <1>8, <2>2
      <3>2. ~reading.purged
        BY <1>3, <1>6, <3>1
      <3>3. seen[i] = remaining[reading.offset + (i - reading.offset)]
        BY <1>6, <1>8, <2>2, <3>1
      <3>4. reading.offset + (i - reading.offset) = i /\ i \in 1..reading.published
        BY <1>12
      <3> QED
        BY <1>3, <3>2, <3>3, <3>4
    <2> QED
      BY <2>1, <2>2
  <1>14. step = "listing" => Len(seen) <= MaxArtifacts
    BY <1>8, <1>9, PagesAssumption
  <1>15. step = "read" => Len(seen) <= MaxArtifacts + ReadPageSize
    BY <1>1, <1>6, <1>8, PagesAssumption
  <1>16. step = "read" /\ ~reading.purged => Len(seen) = reading.published
    BY <1>3, <1>6, <1>8, <1>9
  <1>17. step = "integrity_failure" => reading.published > MaxArtifacts
    BY <1>8, <1>9, <1>12, PagesAssumption
  <1> QED
    BY <1>11, <1>12, <1>13, <1>14, <1>15, <1>16, <1>17

\* A publication of any size, read by pages of any size, is read whole and in
\* order unless it is purged meanwhile, and refused only above the limit or for a
\* profile that is gone.
THEOREM ArtifactsAlwaysWhole == ReadingSpec => []ArtifactsWhole
  <1>1. ReadingInv /\ [ReadingNext]_reading => ReadingInv'
    <2> SUFFICES ASSUME ReadingInv, [ReadingNext]_reading
                 PROVE  ReadingInv'
      OBVIOUS
    <2>1. CASE UNCHANGED reading
      BY <2>1 DEF ReadingInv
    <2> QED
      BY <2>1, ReadScanInv, ListArtifactsInv, PurgeScanInv DEF ReadingNext
  <1>2. ReadingInv => ArtifactsWhole
    <2> SUFFICES ASSUME ReadingInv PROVE ArtifactsWhole
      OBVIOUS
    <2>1. reading.step = "read" /\ ~reading.purged => reading.seen = Remaining
      <3> SUFFICES ASSUME reading.step = "read", ~reading.purged PROVE reading.seen = Remaining
        OBVIOUS
      <3>1. Remaining = [i \in 1..reading.published |-> i]
        BY DEF Remaining
      <3>2. reading.seen = [i \in 1..reading.published |-> reading.seen[i]]
        BY DEF ReadingInv, ReadingType
      <3> QED
        BY <3>1, <3>2 DEF ReadingInv
    <2>2. reading.step = "read" => Len(reading.seen) <= MaxArtifacts + ReadPageSize
      BY DEF ReadingInv
    <2> QED
      BY <2>1, <2>2 DEF ArtifactsWhole, ReadingInv
  <1> QED
    BY <1>1, <1>2, ReadingInitInv, PTL DEF ReadingSpec

-----------------------------------------------------------------------------
(* The list of repositories: its order *)

IdsOf(table) == {row.id : row \in table}
\* What a listing shows before a row, and what it has not shown after `offset` rows.
Before(table, row) == {other.id : other \in {o \in table : NewestFirst(o, row)}}
Place(table, row) == Cardinality(Before(table, row))
Later(table, offset) == {row.id : row \in {r \in table : Place(table, r) >= offset}}

LEMMA NewestFirstOrders ==
    ASSUME NEW table, RowsOK(table)
    PROVE  /\ \A a \in table : ~NewestFirst(a, a)
           /\ \A a, b, c \in table : NewestFirst(a, b) /\ NewestFirst(b, c) => NewestFirst(a, c)
           /\ \A a, b \in table : a # b => NewestFirst(a, b) \/ NewestFirst(b, a)
           /\ \A a, b \in table : a.id = b.id => a = b
  <1>1. \A a \in table : a.created \in Int /\ a.id \in Int
    <2> SUFFICES ASSUME NEW a \in table PROVE a.created \in Int /\ a.id \in Int
      OBVIOUS
    <2>1. a.created \in 1..MaxClock /\ a.id \in Ids
      BY DEF RowsOK, RowType
    <2>2. a.created \in Int
      BY <2>1
    <2>3. a.id \in Nat
      BY <2>1, CatalogAssumption, Zenon
    <2> QED
      BY <2>2, <2>3
  <1>2. \A a, b \in table : a.id = b.id => a = b
    BY DEF RowsOK, Unique
  <1> QED
    BY <1>1, <1>2 DEF NewestFirst

LEMMA TablesFinite ==
    ASSUME NEW table, RowsOK(table)
    PROVE  /\ IsFiniteSet(table) /\ IsFiniteSet(IdsOf(table))
           /\ Cardinality(IdsOf(table)) = Cardinality(table) /\ Cardinality(table) \in Nat
  <1>1. PICK f : f = [row \in table |-> row.id]
    OBVIOUS
  <1>2. \A a, b \in table : f[a] = f[b] => a = b
    BY <1>1, NewestFirstOrders
  <1>3. f \in Injection(table, Ids)
    <2>1. \A a \in table : a.id \in Ids
      BY DEF RowsOK, RowType
    <2> QED
      BY <1>1, <1>2, <2>1 DEF Injection, IsInjective
  <1>4. IsFiniteSet(table)
    BY <1>3, FS_Injection, CatalogAssumption
  <1>5. f \in Bijection(table, IdsOf(table))
    <2>1. f \in [table -> IdsOf(table)] /\ \A id \in IdsOf(table) : \E a \in table : f[a] = id
      BY <1>1 DEF IdsOf
    <2> QED
      BY <1>2, <2>1 DEF Bijection, Injection, Surjection, IsInjective
  <1>6. ExistsBijection(table, IdsOf(table))
    BY <1>5 DEF ExistsBijection
  <1> QED
    BY <1>4, <1>6, FS_Bijection, FS_CardinalityType

\* A row that comes later has more before it.
LEMMA PlacesGrow ==
    ASSUME NEW table, RowsOK(table)
    PROVE  /\ \A a \in table : Place(table, a) \in Nat /\ Place(table, a) < Cardinality(table)
           /\ \A a, b \in table : NewestFirst(a, b) <=> Place(table, a) < Place(table, b)
  <1>1. ASSUME NEW a \in table
        PROVE  /\ a.id \notin Before(table, a) /\ Before(table, a) \subseteq IdsOf(table)
               /\ IsFiniteSet(Before(table, a))
               /\ Place(table, a) \in Nat /\ Place(table, a) < Cardinality(table)
    <2>1. a.id \notin Before(table, a)
      BY NewestFirstOrders DEF Before
    <2>2. Before(table, a) \subseteq IdsOf(table) /\ a.id \in IdsOf(table)
      BY DEF Before, IdsOf
    <2>3. IsFiniteSet(Before(table, a)) /\ Cardinality(Before(table, a)) <= Cardinality(IdsOf(table))
          /\ (Cardinality(IdsOf(table)) = Cardinality(Before(table, a)) => IdsOf(table) = Before(table, a))
      BY <2>2, TablesFinite, FS_Subset
    <2>4. Cardinality(Before(table, a)) \in Nat
      BY <2>3, FS_CardinalityType
    <2> QED
      BY <2>1, <2>2, <2>3, <2>4, TablesFinite DEF Place
  <1>2. ASSUME NEW a \in table, NEW b \in table, NewestFirst(a, b)
        PROVE  Place(table, a) < Place(table, b)
    <2>1. Before(table, a) \subseteq Before(table, b) /\ a.id \in Before(table, b)
      BY <1>2, NewestFirstOrders DEF Before
    <2>2. /\ Cardinality(Before(table, a)) <= Cardinality(Before(table, b))
          /\ Cardinality(Before(table, b)) = Cardinality(Before(table, a)) =>
               Before(table, b) = Before(table, a)
      BY <1>1, <2>1, FS_Subset
    <2> QED
      BY <1>1, <2>1, <2>2 DEF Place
  <1>3. ASSUME NEW a \in table, NEW b \in table, Place(table, a) < Place(table, b)
        PROVE  NewestFirst(a, b)
    <2>1. a # b /\ ~NewestFirst(b, a)
      BY <1>1, <1>2, <1>3
    <2> QED
      BY <2>1, NewestFirstOrders
  <1> QED
    BY <1>1, <1>2, <1>3

\* There is an order of the listing, and it has every row at its place.
LEMMA SortedExists ==
    ASSUME NEW table, RowsOK(table)
    PROVE  \E s \in SetToSeqs(table) : \A i, j \in DOMAIN s : i < j => NewestFirst(s[i], s[j])
  <1>1. PICK n \in Nat : n = Cardinality(table)
    BY TablesFinite
  <1>2. PICK f : f = [row \in table |-> Place(table, row) + 1]
    OBVIOUS
  <1>3. f \in [table -> 1..n] /\ \A a, b \in table : f[a] = f[b] => a = b
    <2>1. \A a \in table : Place(table, a) + 1 \in 1..n
      BY <1>1, PlacesGrow
    <2>2. ASSUME NEW a \in table, NEW b \in table, f[a] = f[b]
          PROVE  a = b
      <3>1. Place(table, a) = Place(table, b)
        BY <1>2, <2>2, PlacesGrow
      <3>2. ~NewestFirst(a, b) /\ ~NewestFirst(b, a)
        BY <3>1, PlacesGrow
      <3> QED
        BY <3>2, NewestFirstOrders
    <2> QED
      BY <1>2, <2>1, <2>2
  <1>4. f \in Surjection(table, 1..n)
    <2>1. f \in Injection(table, 1..n)
      BY <1>3 DEF Injection, IsInjective
    <2>2. IsFiniteSet(1..n) /\ Cardinality(1..n) = n
      BY FS_Interval
    <2> QED
      BY <1>1, <2>1, <2>2, FS_Injection
  <1>5. PICK s : s = [i \in 1..n |-> CHOOSE row \in table : f[row] = i]
    OBVIOUS
  <1>6. \A i \in 1..n : s[i] \in table /\ f[s[i]] = i
    BY <1>4, <1>5 DEF Surjection
  <1>7. s \in SetToSeqs(table)
    <2>1. s \in [1..n -> table] /\ \A i, j \in 1..n : i # j => s[i] # s[j]
      BY <1>5, <1>6
    <2> QED
      BY <1>1, <2>1 DEF SetToSeqs
  <1>8. ASSUME NEW i \in DOMAIN s, NEW j \in DOMAIN s, i < j
        PROVE  NewestFirst(s[i], s[j])
    <2>1. i \in 1..n /\ j \in 1..n
      BY <1>5
    <2>2. Place(table, s[i]) + 1 = i /\ Place(table, s[j]) + 1 = j
      BY <1>2, <1>6, <2>1
    <2>3. Place(table, s[i]) < Place(table, s[j])
      BY <1>6, <1>8, <2>1, <2>2, PlacesGrow
    <2> QED
      BY <1>6, <2>1, <2>3, PlacesGrow
  <1> QED
    BY <1>7, <1>8

LEMMA SortedByPlace ==
    ASSUME NEW table, RowsOK(table), NEW s, s = Arranged(table)
    PROVE  /\ s \in Seq(table) /\ Len(s) = Cardinality(table)
           /\ \A i \in 1..Len(s) : s[i] \in table /\ Place(table, s[i]) = i - 1
           /\ \A row \in table : Place(table, row) + 1 \in 1..Len(s) /\ s[Place(table, row) + 1] = row
  <1>1. s \in SetToSeqs(table) /\ \A i, j \in DOMAIN s : i < j => NewestFirst(s[i], s[j])
    BY SortedExists DEF Arranged
  <1>2. PICK n \in Nat : n = Cardinality(table)
    BY TablesFinite
  <1>3. s \in [1..n -> table] /\ \A i, j \in 1..n : i # j => s[i] # s[j]
    BY <1>1, <1>2 DEF SetToSeqs
  <1>4. s \in Seq(table) /\ Len(s) = n
    BY <1>3
  <1>5. \A row \in table : \E i \in 1..n : s[i] = row
    <2>1. s \in Injection(1..n, table)
      BY <1>3 DEF Injection, IsInjective
    <2>2. s \in Surjection(1..n, table)
      BY <1>2, <2>1, TablesFinite, FS_Interval, FS_Injection
    <2> QED
      BY <2>2 DEF Surjection
  <1>6. \A i, j \in 1..n : NewestFirst(s[j], s[i]) <=> j < i
    <2> SUFFICES ASSUME NEW i \in 1..n, NEW j \in 1..n PROVE NewestFirst(s[j], s[i]) <=> j < i
      OBVIOUS
    <2>1. s[i] \in table /\ s[j] \in table /\ i \in DOMAIN s /\ j \in DOMAIN s
      BY <1>3
    <2>2. CASE j < i
      BY <1>1, <2>1, <2>2
    <2>3. CASE j = i
      BY <2>1, <2>3, NewestFirstOrders
    <2>4. CASE i < j
      <3>1. NewestFirst(s[i], s[j])
        BY <1>1, <2>1, <2>4
      <3>2. ~NewestFirst(s[j], s[i])
        BY <2>1, <3>1, NewestFirstOrders
      <3> QED
        BY <2>4, <3>2
    <2> QED
      BY <2>2, <2>3, <2>4
  <1>7. ASSUME NEW i \in 1..n
        PROVE  Place(table, s[i]) = i - 1
    <2>1. PICK f : f = [j \in 1..(i - 1) |-> s[j].id]
      OBVIOUS
    <2>2. Before(table, s[i]) = {s[j].id : j \in 1..(i - 1)}
      <3>1. ASSUME NEW id \in Before(table, s[i])
            PROVE  id \in {s[j].id : j \in 1..(i - 1)}
        <4>1. PICK other \in table : NewestFirst(other, s[i]) /\ other.id = id
          BY <3>1 DEF Before
        <4>2. PICK j \in 1..n : s[j] = other
          BY <1>5
        <4>3. j \in 1..(i - 1)
          BY <1>6, <4>1, <4>2
        <4> QED
          BY <4>1, <4>2, <4>3
      <3>2. ASSUME NEW j \in 1..(i - 1)
            PROVE  s[j].id \in Before(table, s[i])
        <4>1. j \in 1..n /\ j < i
          OBVIOUS
        <4> QED
          BY <1>3, <1>6, <4>1 DEF Before
      <3> QED
        BY <3>1, <3>2
    <2>3. f \in Bijection(1..(i - 1), Before(table, s[i]))
      <3>1. f \in [1..(i - 1) -> Before(table, s[i])]
            /\ \A id \in Before(table, s[i]) : \E j \in 1..(i - 1) : f[j] = id
        BY <2>1, <2>2
      <3>2. ASSUME NEW j \in 1..(i - 1), NEW k \in 1..(i - 1), f[j] = f[k]
            PROVE  j = k
        <4>1. j \in 1..n /\ k \in 1..n /\ s[j].id = s[k].id
          BY <2>1, <3>2
        <4>2. s[j] = s[k]
          BY <1>3, <4>1, NewestFirstOrders
        <4> QED
          BY <1>3, <4>1, <4>2
      <3> QED
        BY <3>1, <3>2 DEF Bijection, Injection, Surjection, IsInjective
    <2>4. i - 1 \in Nat /\ ExistsBijection(1..(i - 1), Before(table, s[i]))
      BY <2>3 DEF ExistsBijection
    <2> QED
      BY <2>4, FS_CountingElements DEF Place
  <1>8. ASSUME NEW row \in table
        PROVE  Place(table, row) + 1 \in 1..n /\ s[Place(table, row) + 1] = row
    <2>1. PICK i \in 1..n : s[i] = row
      BY <1>5
    <2>2. Place(table, row) + 1 = i
      BY <1>7, <2>1
    <2> QED
      BY <2>1, <2>2
  <1> QED
    BY <1>2, <1>3, <1>4, <1>7, <1>8

-----------------------------------------------------------------------------
(* What changes of the table do to a listing *)

\* A row that changes its state only keeps its place.
LEMMA StateKeepsPlaces ==
    ASSUME NEW table, RowsOK(table), NEW old \in table,
           NEW state \in {"active", "archived", "purge_pending"}, NEW after,
           after = (table \ {old}) \cup {[old EXCEPT !.state = state]}
    PROVE  /\ IdsOf(after) = IdsOf(table)
           /\ \A offset : Later(after, offset) = Later(table, offset)
  <1>1. PICK row : row = [old EXCEPT !.state = state]
    OBVIOUS
  <1>2. row.id = old.id /\ row.created = old.created
    BY <1>1 DEF RowsOK, RowType
  <1>3. after = (table \ {old}) \cup {row}
    BY <1>1
  <1>4. \A o : /\ NewestFirst(o, row) <=> NewestFirst(o, old)
               /\ NewestFirst(row, o) <=> NewestFirst(old, o)
    BY <1>2 DEF NewestFirst
  <1>5. IdsOf(after) = IdsOf(table)
    BY <1>2, <1>3 DEF IdsOf
  <1>6. ASSUME NEW a
        PROVE  Before(after, a) = Before(table, a)
    BY <1>2, <1>3, <1>4 DEF Before
  <1>7. Before(table, row) = Before(table, old)
    BY <1>4 DEF Before
  <1>8. ASSUME NEW offset
        PROVE  Later(after, offset) = Later(table, offset)
    <2>1. \A a : Place(after, a) = Place(table, a)
      BY <1>6 DEF Place
    <2>2. Place(table, row) = Place(table, old)
      BY <1>7 DEF Place
    <2> QED
      BY <1>2, <1>3, <2>1, <2>2 DEF Later
  <1> QED
    BY <1>5, <1>8

\* A row that is inserted moves others only backwards, by one place.
LEMMA InsertedMovesBack ==
    ASSUME NEW table, RowsOK(table), NEW row, RowsOK(table \cup {row}),
           \A other \in table : other.id # row.id, NEW offset \in Nat
    PROVE  /\ IdsOf(table \cup {row}) = IdsOf(table) \cup {row.id}
           /\ Later(table, offset) \subseteq Later(table \cup {row}, offset)
           /\ \E id : Later(table \cup {row}, offset) \subseteq Later(table, offset) \cup {row.id, id}
  <1>1. PICK after : after = table \cup {row}
    OBVIOUS
  <1>2. \A a \in table :
          /\ Before(after, a) = IF NewestFirst(row, a) THEN Before(table, a) \cup {row.id} ELSE Before(table, a)
          /\ row.id \notin Before(table, a)
    <2> SUFFICES ASSUME NEW a \in table
                 PROVE  /\ Before(after, a) = IF NewestFirst(row, a) THEN Before(table, a) \cup {row.id}
                                              ELSE Before(table, a)
                        /\ row.id \notin Before(table, a)
      OBVIOUS
    <2>1. CASE NewestFirst(row, a)
      BY <1>1, <2>1 DEF Before
    <2>2. CASE ~NewestFirst(row, a)
      BY <1>1, <2>2 DEF Before
    <2> QED
      BY <2>1, <2>2
  <1>3. \A a \in table :
          /\ Place(after, a) = IF NewestFirst(row, a) THEN Place(table, a) + 1 ELSE Place(table, a)
          /\ Place(table, a) \in Nat /\ Place(after, a) \in Nat
    <2> SUFFICES ASSUME NEW a \in table
                 PROVE  /\ Place(after, a) = IF NewestFirst(row, a) THEN Place(table, a) + 1 ELSE Place(table, a)
                        /\ Place(table, a) \in Nat /\ Place(after, a) \in Nat
      OBVIOUS
    <2>1. IsFiniteSet(Before(table, a)) /\ Place(table, a) \in Nat
      <3>1. Before(table, a) \subseteq IdsOf(table)
        BY DEF Before, IdsOf
      <3> QED
        BY <3>1, TablesFinite, FS_Subset, PlacesGrow
    <2>2. Cardinality(Before(table, a) \cup {row.id}) = Cardinality(Before(table, a)) + 1
      BY <1>2, <2>1, FS_AddElement
    <2>3. CASE NewestFirst(row, a)
      <3>1. Place(after, a) = Place(table, a) + 1
        BY <1>2, <2>2, <2>3 DEF Place
      <3> QED
        BY <2>1, <2>3, <3>1
    <2>4. CASE ~NewestFirst(row, a)
      <3>1. Place(after, a) = Place(table, a)
        BY <1>2, <2>4 DEF Place
      <3> QED
        BY <2>1, <2>4, <3>1
    <2> QED
      BY <2>3, <2>4
  <1>4. Later(table, offset) \subseteq Later(after, offset)
    <2> SUFFICES ASSUME NEW id \in Later(table, offset) PROVE id \in Later(after, offset)
      OBVIOUS
    <2>1. PICK a \in table : Place(table, a) >= offset /\ id = a.id
      BY DEF Later
    <2>2. PICK before \in Nat : before = Place(table, a)
      BY <1>3
    <2>3. Place(after, a) = before + 1 \/ Place(after, a) = before
      BY <1>3, <2>2
    <2>4. Place(after, a) >= offset
      <3>1. before >= offset
        BY <2>1, <2>2
      <3> QED
        BY <2>3, <3>1
    <2>5. a \in after
      BY <1>1
    <2> QED
      BY <2>1, <2>4, <2>5 DEF Later
  <1>5. \E other : Later(after, offset) \subseteq Later(table, offset) \cup {row.id, other}
    <2>1. ASSUME NEW a \in table, a.id \in Later(after, offset), a.id \notin Later(table, offset)
          PROVE  Place(table, a) + 1 = offset
      <3>1. Place(after, a) >= offset
        <4>1. PICK b \in after : Place(after, b) >= offset /\ b.id = a.id
          BY <2>1 DEF Later
        <4>2. a = b
          BY <1>1, <4>1, NewestFirstOrders
        <4> QED
          BY <4>1, <4>2
      <3>2. ~(Place(table, a) >= offset)
        BY <2>1 DEF Later
      <3> QED
        BY <1>3, <3>1, <3>2
    <2>2. ASSUME NEW a \in table, NEW b \in table, Place(table, a) + 1 = offset, Place(table, b) + 1 = offset
          PROVE  a = b
      <3>1. Place(table, a) = Place(table, b)
        BY <1>3, <2>2
      <3>2. ~NewestFirst(a, b) /\ ~NewestFirst(b, a)
        BY <3>1, PlacesGrow
      <3> QED
        BY <3>2, NewestFirstOrders
    <2>3. \A id \in Later(after, offset) : id = row.id \/ \E a \in table : a.id = id
      BY <1>1 DEF Later
    <2>4. CASE \E a \in table : Place(table, a) + 1 = offset
      <3>1. PICK a \in table : Place(table, a) + 1 = offset
        BY <2>4
      <3>2. Later(after, offset) \subseteq Later(table, offset) \cup {row.id, a.id}
        BY <2>1, <2>2, <2>3, <3>1
      <3> QED
        BY <3>2
    <2>5. CASE ~\E a \in table : Place(table, a) + 1 = offset
      <3>1. Later(after, offset) \subseteq Later(table, offset) \cup {row.id, 0}
        BY <2>1, <2>3, <2>5
      <3> QED
        BY <3>1
    <2> QED
      BY <2>4, <2>5
  <1>6. IdsOf(after) = IdsOf(table) \cup {row.id}
    BY <1>1 DEF IdsOf
  <1> QED
    BY <1>1, <1>4, <1>5, <1>6

\* A page shows the rows of its places, and leaves the later ones.
LEMMA PageShows ==
    ASSUME NEW table, RowsOK(table), NEW offset \in Nat, NEW page,
           page = Page(Arranged(table), offset, ListPageSize), NEW ids, ids = [i \in DOMAIN page |-> page[i].id]
    PROVE  /\ ids \in Seq(Ids) /\ Len(ids) = Len(page) /\ Len(page) \in Nat
           /\ ToSet(ids) \subseteq Later(table, offset) /\ Cardinality(ToSet(ids)) = Len(page)
           /\ Later(table, offset + Len(page)) = Later(table, offset) \ ToSet(ids)
           /\ ~More(Arranged(table), offset, ListPageSize) => Later(table, offset + Len(page)) = {}
  <1>1. PICK s : s = Arranged(table)
    OBVIOUS
  <1>2. /\ s \in Seq(table) /\ Len(s) = Cardinality(table) /\ Len(s) \in Nat
        /\ \A i \in 1..Len(s) : s[i] \in table /\ Place(table, s[i]) = i - 1
        /\ \A row \in table : Place(table, row) + 1 \in 1..Len(s) /\ s[Place(table, row) + 1] = row
    BY <1>1, SortedByPlace, TablesFinite
  <1>3. ListPageSize \in Nat \ {0}
    BY CatalogAssumption
  <1>4. /\ page \in Seq(table) /\ Len(page) \in Nat
        /\ \A i \in 1..Len(page) : page[i] = s[offset + i]
        /\ offset >= Len(s) => page = <<>>
        /\ offset <= Len(s) => offset + Len(page) <= Len(s)
        /\ offset <= Len(s) /\ ~More(s, offset, ListPageSize) => offset + Len(page) = Len(s)
    <2>1. s \in Seq(table) /\ ListPageSize \in Nat \ {0} /\ page = Page(s, offset, ListPageSize)
      BY <1>1, <1>2, <1>3
    <2> QED
      BY <2>1, PageIs
  <1>5. \A i \in 1..Len(page) : /\ offset + i \in 1..Len(s) /\ page[i] \in table
                                /\ Place(table, page[i]) = offset + i - 1
    <2> SUFFICES ASSUME NEW i \in 1..Len(page)
                 PROVE  /\ offset + i \in 1..Len(s) /\ page[i] \in table
                        /\ Place(table, page[i]) = offset + i - 1
      OBVIOUS
    <2>1. offset <= Len(s)
      BY <1>2, <1>4
    <2>2. offset + i \in 1..Len(s)
      BY <1>2, <1>4, <2>1
    <2>3. page[i] = s[offset + i] /\ s[offset + i] \in table /\ Place(table, s[offset + i]) = (offset + i) - 1
      BY <1>2, <1>4, <2>2
    <2> QED
      BY <2>2, <2>3
  <1>6. /\ DOMAIN page = 1..Len(page) /\ ids \in [1..Len(page) -> Ids]
        /\ \A i \in 1..Len(page) : ids[i] = page[i].id
    <2>1. \A a \in table : a.id \in Ids
      BY DEF RowsOK, RowType
    <2> QED
      BY <1>4, <1>5, <2>1
  <1>7. ids \in Seq(Ids) /\ Len(ids) = Len(page)
    BY <1>4, <1>6
  <1>8. ToSet(ids) = {page[i].id : i \in 1..Len(page)}
    BY <1>6 DEF ToSet
  <1>9. ToSet(ids) \subseteq Later(table, offset)
    <2> SUFFICES ASSUME NEW i \in 1..Len(page) PROVE page[i].id \in Later(table, offset)
      BY <1>8
    <2>1. page[i] \in table /\ Place(table, page[i]) >= offset
      BY <1>5
    <2> QED
      BY <2>1 DEF Later
  <1>10. Cardinality(ToSet(ids)) = Len(page)
    <2>1. ASSUME NEW i \in 1..Len(page), NEW j \in 1..Len(page), ids[i] = ids[j]
          PROVE  i = j
      <3>1. page[i] = page[j]
        BY <1>5, <1>6, <2>1, NewestFirstOrders
      <3>2. offset + i - 1 = offset + j - 1
        BY <1>5, <3>1
      <3> QED
        BY <3>2
    <2>2. ids \in Bijection(1..Len(page), ToSet(ids))
      <3>1. ids \in [1..Len(page) -> ToSet(ids)] /\ \A id \in ToSet(ids) : \E i \in 1..Len(page) : ids[i] = id
        BY <1>6 DEF ToSet
      <3>2. DOMAIN ids = 1..Len(page)
        BY <1>6
      <3>3. IsInjective(ids)
        BY <2>1, <3>2 DEF IsInjective
      <3> QED
        BY <3>1, <3>3 DEF Bijection, Injection, Surjection
    <2>3. ExistsBijection(1..Len(page), ToSet(ids))
      BY <2>2 DEF ExistsBijection
    <2> QED
      BY <1>4, <2>3, FS_CountingElements
  <1>11. Later(table, offset + Len(page)) = Later(table, offset) \ ToSet(ids)
    <2>1. ASSUME NEW row \in table
          PROVE  /\ row.id \in Later(table, offset) <=> Place(table, row) >= offset
                 /\ row.id \in Later(table, offset + Len(page)) <=> Place(table, row) >= offset + Len(page)
                 /\ Place(table, row) \in Nat
      BY NewestFirstOrders, PlacesGrow DEF Later
    <2>2. ASSUME NEW row \in table, Place(table, row) >= offset
          PROVE  row.id \in ToSet(ids) <=> ~(Place(table, row) >= offset + Len(page))
      <3>1. CASE row.id \in ToSet(ids)
        <4>1. PICK i \in 1..Len(page) : page[i].id = row.id
          BY <1>8, <3>1
        <4>2. page[i] = row
          BY <1>5, <4>1, NewestFirstOrders
        <4>3. Place(table, row) = offset + i - 1
          BY <1>5, <4>2
        <4> QED
          BY <1>4, <3>1, <4>3
      <3>2. CASE ~(Place(table, row) >= offset + Len(page))
        <4>1. PICK i \in Int : i = Place(table, row) + 1 - offset
          BY <2>1
        <4>2. i \in 1..Len(page) /\ offset + i = Place(table, row) + 1
          BY <1>4, <2>1, <2>2, <3>2, <4>1
        <4>3. page[i] = row
          BY <1>2, <1>4, <4>2
        <4> QED
          BY <1>8, <3>2, <4>2, <4>3
      <3> QED
        BY <3>1, <3>2
    <2>3. \A id \in Later(table, offset) \cup Later(table, offset + Len(page)) : \E row \in table : row.id = id
      BY DEF Later
    <2>4. ASSUME NEW row \in table
          PROVE  row.id \in Later(table, offset + Len(page))
                   <=> row.id \in Later(table, offset) /\ row.id \notin ToSet(ids)
      <3>1. CASE Place(table, row) >= offset
        BY <2>1, <2>2, <3>1
      <3>2. CASE ~(Place(table, row) >= offset)
        <4>1. ~(Place(table, row) >= offset + Len(page))
          BY <1>4, <2>1, <3>2
        <4> QED
          BY <2>1, <3>2, <4>1, Zenon
      <3> QED
        BY <3>1, <3>2
    <2> QED
      BY <2>3, <2>4
  <1>12. ~More(s, offset, ListPageSize) => Later(table, offset + Len(page)) = {}
    <2> SUFFICES ASSUME ~More(s, offset, ListPageSize), NEW row \in table,
                        Place(table, row) >= offset + Len(page)
                 PROVE  FALSE
      BY DEF Later
    <2>1. Place(table, row) \in Nat /\ Place(table, row) < Len(s)
      BY <1>2, PlacesGrow
    <2>2. offset <= Len(s)
      BY <1>2, <1>4, <2>1
    <2>3. offset + Len(page) = Len(s)
      BY <1>4, <2>2
    <2> QED
      BY <2>1, <2>3
  <1> QED
    BY <1>1, <1>4, <1>7, <1>9, <1>10, <1>11, <1>12

\* Of the rows of a page, those that were shown before are shown twice.
LEMMA ShownTwice ==
    ASSUME NEW shown, NEW page, NEW later, IsFiniteSet(shown), IsFiniteSet(later), page \subseteq later,
           NEW n \in Nat, NEW registered \in Nat,
           n - Cardinality(shown) + Cardinality(shown \cap later) <= registered
    PROVE  (n + Cardinality(page)) - Cardinality(shown \cup page)
             + Cardinality((shown \cup page) \cap (later \ page)) <= registered
  <1>1. IsFiniteSet(page) /\ IsFiniteSet(shown \cap page) /\ IsFiniteSet(shown \cap later)
    BY FS_Subset
  <1>2. Cardinality(shown \cup page) = Cardinality(shown) + Cardinality(page) - Cardinality(shown \cap page)
    BY <1>1, FS_Union
  <1>3. (shown \cup page) \cap (later \ page) = (shown \cap later) \ (shown \cap page)
    OBVIOUS
  <1>4. Cardinality((shown \cap later) \ (shown \cap page))
          = Cardinality(shown \cap later) - Cardinality(shown \cap page)
    <2>1. (shown \cap later) \cap (shown \cap page) = shown \cap page
      OBVIOUS
    <2>2. PICK both : both = shown \cap later
      OBVIOUS
    <2>3. Cardinality(both \ (shown \cap page))
            = Cardinality(both) - Cardinality(both \cap (shown \cap page))
      BY <1>1, <2>2, FS_Difference
    <2> QED
      BY <2>1, <2>2, <2>3
  <1>5. /\ Cardinality(shown) \in Nat /\ Cardinality(page) \in Nat
        /\ Cardinality(shown \cap page) \in Nat /\ Cardinality(shown \cap later) \in Nat
    BY <1>1, FS_CardinalityType
  <1>6. PICK a \in Nat, b \in Nat, c \in Nat, d \in Nat :
          /\ a = Cardinality(shown) /\ b = Cardinality(page)
          /\ c = Cardinality(shown \cap page) /\ d = Cardinality(shown \cap later)
    BY <1>5
  <1>7. /\ Cardinality(shown \cup page) = a + b - c
        /\ Cardinality((shown \cup page) \cap (later \ page)) = d - c
    BY <1>2, <1>3, <1>4, <1>6
  <1> QED
    BY <1>6, <1>7

-----------------------------------------------------------------------------
(* A listing: its invariant *)

ListingType ==
    [step : {"paging", "listed"}, offset : Nat, seen : Seq(Ids), initial : SUBSET Ids,
     purged : {TRUE, FALSE}, registered : Nat]

\* While nothing is purged, what was there at first was shown or comes later; and
\* what was shown twice, or comes a second time, was moved back by a registration.
ListingOK(table, l) ==
    /\ l = NotListing \/ l \in ListingType
    /\ l.step = "paging" /\ ~l.purged =>
          /\ l.offset = Len(l.seen)
          /\ ToSet(l.seen) \subseteq IdsOf(table)
          /\ l.initial \subseteq ToSet(l.seen) \cup Later(table, l.offset)
          /\ Len(l.seen) - Cardinality(ToSet(l.seen))
               + Cardinality(ToSet(l.seen) \cap Later(table, l.offset)) <= l.registered
    /\ l.step = "listed" /\ ~l.purged =>
          /\ l.initial \subseteq ToSet(l.seen)
          /\ Len(l.seen) - Cardinality(ToSet(l.seen)) <= l.registered

LEMMA StateKeepsListing ==
    ASSUME NEW table, RowsOK(table), NEW l, ListingOK(table, l), NEW old \in table,
           NEW state \in {"active", "archived", "purge_pending"}, NEW after,
           after = (table \ {old}) \cup {[old EXCEPT !.state = state]}
    PROVE  ListingOK(after, l)
  <1>1. IdsOf(after) = IdsOf(table) /\ \A offset : Later(after, offset) = Later(table, offset)
    BY StateKeepsPlaces
  <1> QED
    BY <1>1 DEF ListingOK

LEMMA ShownFinite ==
    ASSUME NEW S, NEW s \in Seq(S)
    PROVE  IsFiniteSet(ToSet(s)) /\ Cardinality(ToSet(s)) \in Nat /\ ToSet(s) \subseteq S
  <1>1. Len(s) \in Nat /\ s \in [1..Len(s) -> S]
    OBVIOUS
  <1>2. IsFiniteSet(1..Len(s))
    BY <1>1, FS_Interval
  <1>3. s \in Surjection(1..Len(s), ToSet(s))
    BY <1>1 DEF Surjection, ToSet
  <1>4. IsFiniteSet(ToSet(s))
    BY <1>2, <1>3, FS_Surjection
  <1>5. ToSet(s) \subseteq S
    BY <1>1 DEF ToSet
  <1> QED
    BY <1>4, <1>5, FS_CardinalityType

LEMMA ShownAfter ==
    ASSUME NEW S, NEW s \in Seq(S), NEW t \in Seq(S)
    PROVE  /\ s \o t \in Seq(S) /\ Len(s \o t) = Len(s) + Len(t)
           /\ ToSet(s \o t) = ToSet(s) \cup ToSet(t)
  <1>0. PICK u : u = s \o t
    OBVIOUS
  <1>1. PICK n \in Nat, m \in Nat : n = Len(s) /\ m = Len(t)
    OBVIOUS
  <1>2. /\ u \in Seq(S) /\ Len(u) = n + m
        /\ \A i \in 1..(n + m) : u[i] = IF i <= n THEN s[i] ELSE t[i - n]
    BY <1>0, <1>1, ConcatProperties
  <1>3. DOMAIN u = 1..(n + m) /\ DOMAIN s = 1..n /\ DOMAIN t = 1..m
    BY <1>1, <1>2
  <1>4. ASSUME NEW i \in 1..(n + m)
        PROVE  u[i] \in ToSet(s) \cup ToSet(t)
    <2>1. CASE i <= n
      <3>1. i \in DOMAIN s /\ u[i] = s[i]
        BY <1>2, <1>3, <2>1
      <3> QED
        BY <3>1 DEF ToSet
    <2>2. CASE ~(i <= n)
      <3>1. i - n \in DOMAIN t /\ u[i] = t[i - n]
        BY <1>2, <1>3, <2>2
      <3> QED
        BY <3>1 DEF ToSet
    <2> QED
      BY <2>1, <2>2
  <1>5. ASSUME NEW i \in 1..n
        PROVE  s[i] \in ToSet(u)
    <2>1. i \in 1..(n + m) /\ u[i] = s[i]
      BY <1>2
    <2> QED
      BY <1>3, <2>1 DEF ToSet
  <1>6. ASSUME NEW i \in 1..m
        PROVE  t[i] \in ToSet(u)
    <2>1. n + i \in 1..(n + m) /\ ~(n + i <= n) /\ (n + i) - n = i
      OBVIOUS
    <2>2. u[n + i] = t[i]
      BY <1>2, <2>1
    <2> QED
      BY <1>3, <2>1, <2>2 DEF ToSet
  <1>7. ToSet(u) = ToSet(s) \cup ToSet(t)
    <2>1. ToSet(u) \subseteq ToSet(s) \cup ToSet(t)
      BY <1>3, <1>4 DEF ToSet
    <2>2. ToSet(s) \subseteq ToSet(u) /\ ToSet(t) \subseteq ToSet(u)
      BY <1>3, <1>5, <1>6 DEF ToSet
    <2> QED
      BY <2>1, <2>2
  <1> QED
    BY <1>0, <1>1, <1>2, <1>7

LEMMA LaterFinite ==
    ASSUME NEW table, RowsOK(table), NEW offset
    PROVE  IsFiniteSet(Later(table, offset)) /\ Later(table, offset) \subseteq IdsOf(table)
  <1>1. Later(table, offset) \subseteq IdsOf(table)
    BY DEF Later, IdsOf
  <1> QED
    BY <1>1, TablesFinite, FS_Subset

LEMMA InsertedListing ==
    ASSUME NEW table, RowsOK(table), NEW l, ListingOK(table, l), NEW row, RowsOK(table \cup {row}),
           \A other \in table : other.id # row.id, NEW next,
           next = IF l.step = "paging" THEN [l EXCEPT !.registered = @ + 1] ELSE l
    PROVE  ListingOK(table \cup {row}, next)
  <1>1. CASE l.step # "paging"
    BY <1>1 DEF ListingOK
  <1>2. CASE l.step = "paging"
    <2>1. l \in ListingType
      BY <1>2 DEF ListingOK, NotListing
    <2>2. PICK registered \in Nat : registered = l.registered
      BY <2>1 DEF ListingType
    <2>3. next = [l EXCEPT !.registered = registered + 1]
      BY <1>2, <2>2
    <2>4. /\ next \in ListingType /\ next.step = "paging" /\ next.seen = l.seen /\ next.offset = l.offset
          /\ next.initial = l.initial /\ next.registered = registered + 1 /\ (next.purged <=> l.purged)
      <3>1. registered + 1 \in Nat
        OBVIOUS
      <3>2. next = [l EXCEPT !.registered = next.registered] /\ next.registered = registered + 1
        BY <2>1, <2>3 DEF ListingType
      <3> QED
        BY <1>2, <2>1, <3>1, <3>2 DEF ListingType
    <2>5. CASE l.purged
      BY <2>4, <2>5 DEF ListingOK
    <2>6. CASE ~l.purged
      <3>1. PICK shown : shown = ToSet(l.seen)
        OBVIOUS
      <3>2. PICK offset \in Nat, n \in Nat : offset = l.offset /\ n = Len(l.seen)
        BY <2>1 DEF ListingType
      <3>3. IsFiniteSet(shown) /\ Cardinality(shown) \in Nat
        BY <2>1, <3>1, ShownFinite DEF ListingType
      <3>4. /\ offset = n /\ shown \subseteq IdsOf(table) /\ l.initial \subseteq shown \cup Later(table, offset)
            /\ n - Cardinality(shown) + Cardinality(shown \cap Later(table, offset)) <= registered
        BY <1>2, <2>2, <2>6, <3>1, <3>2 DEF ListingOK
      <3>5. row.id \notin shown
        BY <3>4 DEF IdsOf
      <3>6. /\ IdsOf(table \cup {row}) = IdsOf(table) \cup {row.id}
            /\ Later(table, offset) \subseteq Later(table \cup {row}, offset)
        BY InsertedMovesBack
      <3>7. PICK id : Later(table \cup {row}, offset) \subseteq Later(table, offset) \cup {row.id, id}
        BY InsertedMovesBack
      <3>8. PICK before, again : /\ before = shown \cap Later(table, offset)
                                 /\ again = shown \cap Later(table \cup {row}, offset)
        OBVIOUS
      <3>9. /\ IsFiniteSet(before) /\ Cardinality(before) \in Nat
            /\ IsFiniteSet(again) /\ Cardinality(again) \in Nat
            /\ Cardinality(again) <= Cardinality(before) + 1
        <4>1. IsFiniteSet(before) /\ Cardinality(before) \in Nat
          BY <3>3, <3>8, FS_Intersection, FS_CardinalityType
        <4>2. /\ IsFiniteSet(before \cup {id})
              /\ Cardinality(before \cup {id}) = IF id \in before THEN Cardinality(before) ELSE Cardinality(before) + 1
          BY <4>1, FS_AddElement
        <4>3. again \subseteq before \cup {id}
          BY <3>5, <3>7, <3>8
        <4>4. IsFiniteSet(again) /\ Cardinality(again) <= Cardinality(before \cup {id})
          BY <4>2, <4>3, FS_Subset
        <4>5. Cardinality(again) \in Nat
          BY <4>4, FS_CardinalityType
        <4> QED
          BY <4>1, <4>2, <4>4, <4>5
      <3>10. n - Cardinality(shown) + Cardinality(again) <= registered + 1
        BY <3>3, <3>4, <3>8, <3>9
      <3>11. shown \subseteq IdsOf(table \cup {row})
             /\ l.initial \subseteq shown \cup Later(table \cup {row}, offset)
        BY <3>4, <3>6
      <3> QED
        BY <2>4, <3>1, <3>2, <3>4, <3>8, <3>10, <3>11 DEF ListingOK
    <2> QED
      BY <2>5, <2>6
  <1> QED
    BY <1>1, <1>2

\* What a purge does to a listing it remembers, and what it does to none it does not see.
LEMMA PurgedListing ==
    ASSUME NEW table, NEW l, ListingOK(table, l), NEW after, NEW next,
           next = IF l.step = "paging" THEN [l EXCEPT !.purged = TRUE] ELSE l
    PROVE  ListingOK(after, next)
  <1>1. CASE l.step # "paging"
    BY <1>1 DEF ListingOK
  <1>2. CASE l.step = "paging"
    <2>1. l \in ListingType
      BY <1>2 DEF ListingOK, NotListing
    <2>2. next \in ListingType /\ next.step = "paging" /\ next.purged
      BY <1>2, <2>1 DEF ListingType
    <2> QED
      BY <2>2 DEF ListingOK
  <1> QED
    BY <1>1, <1>2

LEMMA StartedListing ==
    ASSUME NEW table, RowsOK(table), NEW l,
           l = [step |-> "paging", offset |-> 0, seen |-> <<>>, initial |-> {row.id : row \in table},
                purged |-> FALSE, registered |-> 0]
    PROVE  ListingOK(table, l)
  <1>1. IdsOf(table) \subseteq Ids
    BY DEF IdsOf, RowsOK, RowType
  <1>2. <<>> \in Seq(Ids) /\ Len(<<>>) = 0 /\ ToSet(<<>>) = {}
    BY DEF ToSet
  <1>3. Later(table, 0) = IdsOf(table)
    BY PlacesGrow DEF Later, IdsOf
  <1>4. /\ l \in ListingType /\ l.step = "paging" /\ l.offset = 0 /\ l.seen = <<>>
        /\ l.initial = IdsOf(table) /\ l.registered = 0
    BY <1>1, <1>2 DEF ListingType, IdsOf
  <1>5. Cardinality({}) = 0
    BY FS_EmptySet
  <1>6. Len(l.seen) = 0 /\ ToSet(l.seen) = {} /\ Cardinality(ToSet(l.seen)) = 0
        /\ Cardinality(ToSet(l.seen) \cap Later(table, 0)) = 0
    <2>1. ToSet(l.seen) = {} /\ {} \cap Later(table, 0) = {}
      BY <1>2, <1>4
    <2> QED
      BY <1>2, <1>4, <1>5, <2>1
  <1> QED
    BY <1>3, <1>4, <1>6 DEF ListingOK

LEMMA PagedListing ==
    ASSUME NEW table, RowsOK(table), NEW l, ListingOK(table, l), l.step = "paging",
           NEW page, page = Page(Arranged(table), l.offset, ListPageSize), NEW next,
           next = [l EXCEPT
                     !.step = IF More(Arranged(table), l.offset, ListPageSize) THEN "paging" ELSE "listed",
                     !.offset = l.offset + Len(page),
                     !.seen = l.seen \o [i \in DOMAIN page |-> page[i].id]]
    PROVE  ListingOK(table, next)
  <1>1. l \in ListingType
    BY DEF ListingOK, NotListing
  <1>2. PICK offset \in Nat, n \in Nat, registered \in Nat :
          offset = l.offset /\ n = Len(l.seen) /\ registered = l.registered
    BY <1>1 DEF ListingType
  <1>3. PICK ids : ids = [i \in DOMAIN page |-> page[i].id]
    OBVIOUS
  <1>4. /\ ids \in Seq(Ids) /\ Len(ids) = Len(page) /\ Len(page) \in Nat
        /\ ToSet(ids) \subseteq Later(table, offset) /\ Cardinality(ToSet(ids)) = Len(page)
        /\ Later(table, offset + Len(page)) = Later(table, offset) \ ToSet(ids)
        /\ ~More(Arranged(table), offset, ListPageSize) => Later(table, offset + Len(page)) = {}
    <2>1. page = Page(Arranged(table), offset, ListPageSize)
      BY <1>2
    <2> QED
      BY <1>3, <2>1, PageShows
  <1>5. PICK step \in {"paging", "listed"} :
          step = IF More(Arranged(table), offset, ListPageSize) THEN "paging" ELSE "listed"
    OBVIOUS
  <1>6. PICK seen : seen = l.seen \o ids
    OBVIOUS
  <1>7. /\ seen \in Seq(Ids) /\ Len(seen) = n + Len(page)
        /\ ToSet(seen) = ToSet(l.seen) \cup ToSet(ids)
    <2>1. l.seen \in Seq(Ids)
      BY <1>1 DEF ListingType
    <2>2. PICK s \in Seq(Ids), t \in Seq(Ids) : s = l.seen /\ t = ids /\ seen = s \o t
      BY <1>4, <1>6, <2>1
    <2>3. /\ s \o t \in Seq(Ids) /\ Len(s \o t) = Len(s) + Len(t)
          /\ ToSet(s \o t) = ToSet(s) \cup ToSet(t)
      BY ShownAfter
    <2>4. seen \in Seq(Ids) /\ Len(seen) = Len(s) + Len(t) /\ ToSet(seen) = ToSet(s) \cup ToSet(t)
      BY <2>2, <2>3
    <2> QED
      BY <1>2, <1>4, <2>2, <2>4
  <1>8. PICK after \in Nat : after = offset + Len(page)
    BY <1>4
  <1>9. next = [l EXCEPT !.step = step, !.offset = after, !.seen = seen]
    BY <1>2, <1>3, <1>5, <1>6, <1>8
  <1>10. /\ next \in ListingType /\ next.step = step /\ next.offset = after /\ next.seen = seen
         /\ next.initial = l.initial /\ next.registered = registered /\ (next.purged <=> l.purged)
    BY <1>1, <1>2, <1>5, <1>7, <1>9 DEF ListingType
  <1>11. CASE l.purged
    BY <1>10, <1>11 DEF ListingOK
  <1>12. CASE ~l.purged
    <2>1. PICK shown, later : shown = ToSet(l.seen) /\ later = Later(table, offset)
      OBVIOUS
    <2>2. IsFiniteSet(shown) /\ IsFiniteSet(later) /\ later \subseteq IdsOf(table)
      BY <1>1, <2>1, ShownFinite, LaterFinite DEF ListingType
    <2>3. /\ offset = n /\ shown \subseteq IdsOf(table) /\ l.initial \subseteq shown \cup later
          /\ n - Cardinality(shown) + Cardinality(shown \cap later) <= registered
      BY <1>2, <1>12, <2>1 DEF ListingOK
    <2>4. PICK fresh : fresh = ToSet(ids)
      OBVIOUS
    <2>5. /\ fresh \subseteq later /\ Cardinality(fresh) = Len(page) /\ ToSet(seen) = shown \cup fresh
          /\ Later(table, after) = later \ fresh
      BY <1>4, <1>7, <1>8, <2>1, <2>4
    <2>6. Len(seen) - Cardinality(ToSet(seen)) + Cardinality(ToSet(seen) \cap Later(table, after)) <= registered
      <3>1. (n + Cardinality(fresh)) - Cardinality(shown \cup fresh)
              + Cardinality((shown \cup fresh) \cap (later \ fresh)) <= registered
        BY <2>2, <2>3, <2>5, ShownTwice
      <3> QED
        BY <1>7, <2>5, <3>1
    <2>7. after = Len(seen) /\ ToSet(seen) \subseteq IdsOf(table)
          /\ l.initial \subseteq ToSet(seen) \cup Later(table, after)
      BY <1>7, <1>8, <2>2, <2>3, <2>5
    <2>8. CASE step = "paging"
      BY <1>10, <1>12, <2>6, <2>7, <2>8 DEF ListingOK
    <2>9. CASE step = "listed"
      <3>1. Later(table, after) = {}
        BY <1>4, <1>5, <1>8, <2>9
      <3>2. l.initial \subseteq ToSet(seen)
        BY <2>7, <3>1
      <3>3. Len(seen) - Cardinality(ToSet(seen)) <= registered
        <4>1. ToSet(seen) \cap Later(table, after) = {} /\ Cardinality({}) = 0
          BY <3>1, FS_EmptySet
        <4>2. PICK count \in Nat, length \in Nat : count = Cardinality(ToSet(seen)) /\ length = Len(seen)
          <5>1. seen \in Seq(Ids)
            BY <1>7
          <5>2. Cardinality(ToSet(seen)) \in Nat
            BY <5>1, ShownFinite
          <5> QED
            BY <5>1, <5>2
        <4>3. length - count + 0 <= registered
          BY <2>6, <4>1, <4>2
        <4> QED
          BY <4>2, <4>3
      <3> QED
        BY <1>10, <1>12, <2>9, <3>2, <3>3 DEF ListingOK
    <2> QED
      BY <1>5, <2>8, <2>9
  <1> QED
    BY <1>11, <1>12

-----------------------------------------------------------------------------
(* A listing: its steps *)

ListingInv == CatalogInv /\ ListingOK(rows, listing)

\* What a transaction of a call leaves in the table, and what a listing counts of it.
LEMMA TransactionRows ==
    ASSUME CatalogInv, NEW c \in Clients, CommitCall(c)
    PROVE  \/ UNCHANGED <<rows, listing>>
           \/ \E row : /\ \A other \in rows : other.id # row.id
                       /\ rows' = rows \cup {row} /\ Counted(rows \cup {row})
           \/ \E old \in rows, state \in {"active", "archived", "purge_pending"} :
                 /\ rows' = (rows \ {old}) \cup {[old EXCEPT !.state = state]}
                 /\ Counted((rows \ {old}) \cup {[old EXCEPT !.state = state]})
  <1>1. clientCalls[c].operation \in {"register", "archive", "get"}
    <2>1. clientCalls[c].step = "storing"
      BY DEF CommitCall, In
    <2>2. CallOK(clientCalls[c], c \in opened) /\ clientCalls[c] \in CallType
      BY DEF CatalogInv, CallsInv, CatalogTypeOK
    <2> QED
      BY <2>1, <2>2 DEF CallOK, CallType
  <1>2. PICK created \in 1..MaxClock :
          LET result == CASE clientCalls[c].operation = "register" -> Registered(c, created)
                          [] clientCalls[c].operation = "archive" -> Archived(c)
                          [] clientCalls[c].operation = "get" -> Got(c)
          IN  \/ rows' = result.rows /\ Counted(result.rows)
              \/ UNCHANGED <<rows, listing>>
    BY DEF CommitCall
  <1>3. PICK result :
          result = CASE clientCalls[c].operation = "register" -> Registered(c, created)
                     [] clientCalls[c].operation = "archive" -> Archived(c)
                     [] clientCalls[c].operation = "get" -> Got(c)
    OBVIOUS
  <1>4. (rows' = result.rows /\ Counted(result.rows)) \/ UNCHANGED <<rows, listing>>
    BY <1>2, <1>3
  <1>5. Counted(rows) => UNCHANGED listing
    BY TablesFinite DEF Counted, CatalogInv
  <1>6. CASE clientCalls[c].operation = "register"
    <2>1. result = Registered(c, created)
      BY <1>3, <1>6
    <2>2. PICK row : row = Row(clientCalls[c].id, clientCalls[c].key, clientCalls[c].proof, "active", created)
      OBVIOUS
    <2>3. PICK outcome :
            outcome = RegisterOutcome(clientCalls[c].id, clientCalls[c].key, clientCalls[c].proof)
      OBVIOUS
    <2>4. result.rows = rows \/ (outcome = "created" /\ result.rows = rows \cup {row})
      <3>1. CASE outcome = "created"
        BY <2>1, <2>2, <2>3, <3>1 DEF Registered
      <3>2. CASE outcome = "returned"
        BY <2>1, <2>3, <3>2 DEF Registered
      <3>3. CASE outcome \notin {"created", "returned"}
        BY <2>1, <2>3, <3>3 DEF Registered
      <3> QED
        BY <3>1, <3>2, <3>3
    <2>5. outcome = "created" => \A other \in rows : other.id # row.id
      BY <2>2, <2>3 DEF RegisterOutcome, Present, Row
    <2>6. CASE result.rows = rows
      BY <1>4, <1>5, <2>6
    <2>7. CASE outcome = "created" /\ result.rows = rows \cup {row}
      BY <1>4, <2>5, <2>7
    <2> QED
      BY <2>4, <2>6, <2>7
  <1>7. CASE clientCalls[c].operation = "archive"
    <2>1. PICK id : id = clientCalls[c].id
      OBVIOUS
    <2>2. result = Archived(c)
      BY <1>3, <1>7
    <2>3. CASE Present(id) /\ RowOf(id).state # "purge_pending"
      <3>1. PICK old \in rows : old = RowOf(id)
        BY <2>3, RowFound DEF CatalogInv
      <3>2. result.rows = (rows \ {old}) \cup {[old EXCEPT !.state = "archived"]}
        BY <2>1, <2>2, <2>3, <3>1 DEF Archived
      <3> QED
        BY <1>4, <3>2
    <2>4. CASE ~(Present(id) /\ RowOf(id).state # "purge_pending")
      <3>1. result.rows = rows
        BY <2>1, <2>2, <2>4 DEF Archived
      <3> QED
        BY <1>4, <1>5, <3>1
    <2> QED
      BY <2>3, <2>4
  <1>8. CASE clientCalls[c].operation = "get"
    <2>1. result.rows = rows
      BY <1>3, <1>8 DEF Got
    <2> QED
      BY <1>4, <1>5, <2>1
  <1> QED
    BY <1>1, <1>6, <1>7, <1>8

\* A table with one row more has one more, and one with a row replaced as many.
LEMMA TransactionListing ==
    ASSUME ListingInv, NEW c \in Clients, CommitCall(c)
    PROVE  ListingOK(rows', listing')
  <1> USE DEF ListingInv
  <1>1. RowsOK(rows) /\ RowsOK(rows')
    BY CommitCallInv DEF CatalogInv, RowsOK, Unique
  <1>2. CASE UNCHANGED <<rows, listing>>
    BY <1>2
  <1>3. ASSUME NEW row, \A other \in rows : other.id # row.id, rows' = rows \cup {row},
               Counted(rows \cup {row})
        PROVE  ListingOK(rows', listing')
    <2>1. row \notin rows
      BY <1>3
    <2>2. Cardinality(rows \cup {row}) = Cardinality(rows) + 1 /\ Cardinality(rows) \in Nat
      BY <1>1, <2>1, TablesFinite, FS_AddElement
    <2>3. listing' = IF listing.step = "paging" THEN [listing EXCEPT !.registered = @ + 1] ELSE listing
      BY <1>3, <2>2 DEF Counted
    <2> QED
      BY <1>1, <1>3, <2>3, InsertedListing
  <1>4. ASSUME NEW old \in rows, NEW state \in {"active", "archived", "purge_pending"},
               rows' = (rows \ {old}) \cup {[old EXCEPT !.state = state]},
               Counted((rows \ {old}) \cup {[old EXCEPT !.state = state]})
        PROVE  ListingOK(rows', listing')
    <2>1. PICK after : after = (rows \ {old}) \cup {[old EXCEPT !.state = state]}
      OBVIOUS
    <2>2. RowsOK(after)
      BY <1>1, <1>4, <2>1
    <2>3. IdsOf(after) = IdsOf(rows)
      BY <1>1, <2>1, StateKeepsPlaces
    <2>4. Cardinality(after) = Cardinality(rows) /\ Cardinality(rows) \in Nat
      BY <1>1, <2>2, <2>3, TablesFinite
    <2>5. listing' = listing
      BY <1>4, <2>1, <2>4 DEF Counted
    <2> QED
      BY <1>1, <1>4, <2>5, StateKeepsListing
  <1> QED
    BY <1>2, <1>3, <1>4, TransactionRows

LEMMA PurgeListing ==
    ASSUME ListingInv, NEW id, Purge(id)
    PROVE  ListingOK(rows', listing')
  <1> USE DEF ListingInv
  <1>1. PICK old \in rows : old = RowOf(id)
    BY RowFound DEF Purge, CatalogInv
  <1>2. \/ rows' = (rows \ {old}) \cup {[old EXCEPT !.state = "purge_pending"]} /\ UNCHANGED listing
        \/ listing' = IF listing.step = "paging" THEN [listing EXCEPT !.purged = TRUE] ELSE listing
    BY <1>1 DEF Purge
  <1>3. CASE rows' = (rows \ {old}) \cup {[old EXCEPT !.state = "purge_pending"]} /\ UNCHANGED listing
    BY <1>3, StateKeepsListing DEF CatalogInv
  <1>4. CASE listing' = IF listing.step = "paging" THEN [listing EXCEPT !.purged = TRUE] ELSE listing
    BY <1>4, PurgedListing
  <1> QED
    BY <1>2, <1>3, <1>4

LEMMA ListingNextInv == ListingInv /\ [CatalogNext]_catalogVars => ListingInv'
  <1> SUFFICES ASSUME ListingInv, [CatalogNext]_catalogVars
               PROVE  ListingInv'
    OBVIOUS
  <1> USE DEF ListingInv
  <1>1. CatalogInv'
    BY CatalogNextInv
  <1>2. UNCHANGED <<rows, listing>> => ListingOK(rows', listing')
    OBVIOUS
  <1>3. ASSUME NEW c \in Clients, CommitCall(c)
        PROVE  ListingOK(rows', listing')
    BY <1>3, TransactionListing
  <1>4. ASSUME NEW id \in Ids, Purge(id)
        PROVE  ListingOK(rows', listing')
    BY <1>4, PurgeListing
  <1>5. ASSUME StartListing
        PROVE  ListingOK(rows', listing')
    BY <1>5, StartedListing DEF StartListing, CatalogInv
  <1>6. ASSUME ListRepositories
        PROVE  ListingOK(rows', listing')
    <2>1. PICK page : page = Page(Arranged(rows), listing.offset, ListPageSize)
      OBVIOUS
    <2>2. listing' = [listing EXCEPT
                        !.step = IF More(Arranged(rows), listing.offset, ListPageSize) THEN "paging" ELSE "listed",
                        !.offset = listing.offset + Len(page),
                        !.seen = listing.seen \o [i \in DOMAIN page |-> page[i].id]]
      BY <1>6, <2>1 DEF ListRepositories, Ordered, NextOffset
    <2>3. listing.step = "paging" /\ UNCHANGED rows
      BY <1>6 DEF ListRepositories
    <2> QED
      BY <2>1, <2>2, <2>3, PagedListing DEF CatalogInv
  <1>7. ASSUME NEW c \in Clients, NEW operation, NEW id, NEW key, Call(c, operation, id, key)
        PROVE  UNCHANGED <<rows, listing>>
    BY <1>7 DEF Call
  <1>8. ASSUME NEW c \in Clients, ResolveFails(c) \/ Resolve(c) \/ CloseSource(c) \/ EditSource(c)
        PROVE  UNCHANGED <<rows, listing>>
    BY <1>8 DEF ResolveFails, Resolve, CloseSource, EditSource
  <1>9. UNCHANGED catalogVars => UNCHANGED <<rows, listing>>
    BY DEF catalogVars
  <1>10. ListingOK(rows', listing')
    BY <1>2, <1>3, <1>4, <1>5, <1>6, <1>7, <1>8, <1>9 DEF CatalogNext
  <1> QED
    BY <1>1, <1>10

\* A listing that no purge disturbed shows every repository that was there when it
\* began, and shows one twice at most once per registration meanwhile; and a
\* publication is read whole.
THEOREM ListingsAlwaysWhole == CatalogSpec /\ ReadingSpec => []ListingsWhole
  <1>1. CatalogInit => ListingInv
    <2> SUFFICES ASSUME CatalogInit PROVE ListingInv
      OBVIOUS
    <2>1. listing = NotListing /\ NotListing.step = "none"
      BY DEF CatalogInit, NotListing
    <2> QED
      BY <2>1, CatalogInitInv DEF ListingInv, ListingOK
  <1>2. ListingInv /\ ArtifactsWhole => ListingsWhole
    BY DEF ListingInv, ListingOK, ListingsWhole
  <1> QED
    BY <1>1, <1>2, ListingNextInv, ArtifactsAlwaysWhole, PTL DEF CatalogSpec
=============================================================================
