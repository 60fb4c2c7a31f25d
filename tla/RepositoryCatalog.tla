---------------------------- MODULE RepositoryCatalog ----------------------------
(***************************************************************************)
(* The lifecycle service of repositories in one scope, over the store of   *)
(* the integration and the tables of the PostgreSQL adapter: clients       *)
(* register and archive repositories, retry what they got no answer to,    *)
(* and read the list of repositories page by page.                         *)
(*                                                                         *)
(* A cursor is an offset into what is listed when the page is read, newest *)
(* repository first.  Each process stamps its rows with a clock of its     *)
(* own.  PersistenceStore.tla has the operations of the tables in full.    *)
(***************************************************************************)
EXTENDS ArtifactPages

CONSTANTS
    Clients,
    Ids,            \* numbers: repository ids in order
    RequestIds,     \* request ids
    Fingerprints,   \* of sources
    ListPageSize,   \* of a listing
    MaxClock,       \* bound: clock readings
    MaxMade        \* bound: calls of the clients together

ASSUME CatalogAssumption ==
    /\ Ids \subseteq Nat /\ IsFiniteSet(Ids)
    /\ ListPageSize \in Nat \ {0} /\ MaxClock \in Nat \ {0} /\ MaxMade \in Nat

VARIABLES
    rows,           \* platform.repositories
    sources,        \* what each client's source handle leads to
    opened,         \* clients whose resolved source was not released
    clientCalls,    \* the call each client is in, or its last
    made,           \* calls made
    listing         \* a client that lists the repositories

catalogVars == <<rows, sources, opened, clientCalls, made, listing>>

Refusal(kind) == [kind |-> kind]
RepositoryRecord(row) == [kind |-> "repository", row |-> row]
Row(id, key, fingerprint, state, created) ==
    [id |-> id, key |-> key, fingerprint |-> fingerprint, state |-> state, created |-> created]
NoCall == [step |-> "idle", operation |-> "none", id |-> 0, key |-> "none", proof |-> "none",
         answer |-> [kind |-> "none"]]
NotListing == [step |-> "none"]

CatalogInit ==
    /\ \E ids \in SUBSET Ids : \E fingerprint \in [ids -> Fingerprints], created \in [ids -> 1..MaxClock] :
          /\ IsInjective(fingerprint)
          /\ rows = {Row(id, "earlier", fingerprint[id], "active", created[id]) : id \in ids}
    /\ sources \in [Clients -> Fingerprints]
    /\ opened = {} /\ made = 0
    /\ clientCalls = [c \in Clients |-> NoCall]
    /\ listing = NotListing

-----------------------------------------------------------------------------
(* Calls *)

In(c, step) == clientCalls[c].step = step
Answer(c, answer) == clientCalls' = [clientCalls EXCEPT ![c].step = "answered", ![c].answer = answer]
ToStep(c, step) == clientCalls' = [clientCalls EXCEPT ![c].step = step]

Call(c, operation, id, key) ==
    /\ (operation = "get") <=> (key = "none")
    /\ In(c, "idle") \/ In(c, "answered")
    /\ made < MaxMade /\ made' = made + 1
    /\ clientCalls' = [clientCalls EXCEPT ![c] =
         [NoCall EXCEPT !.step = IF operation = "register" THEN "resolving" ELSE "storing",
                      !.operation = operation, !.id = id, !.key = key]]
    /\ UNCHANGED <<rows, sources, opened, listing>>

\* SourceProofAdapter releases a source that has no fingerprint itself.
ResolveFails(c) ==
    /\ In(c, "resolving")
    /\ Answer(c, Refusal("source_unavailable"))
    /\ UNCHANGED <<rows, sources, opened, made, listing>>

Resolve(c) ==
    /\ In(c, "resolving")
    /\ clientCalls' = [clientCalls EXCEPT ![c].step = "resolved", ![c].proof = sources[c]]
    /\ opened' = opened \cup {c}
    /\ UNCHANGED <<rows, sources, made, listing>>

\* The source is released under a context of its own before anything is
\* decided; a release that fails and a caller that ended refuse the
\* registration.
Released(c) == opened \ {c}
CloseSource(c) ==
    /\ In(c, "resolved")
    /\ opened' = Released(c)
    /\ \/ Answer(c, Refusal("source_unavailable"))
       \/ Answer(c, Refusal("internal"))
       \/ ToStep(c, "storing")
    /\ UNCHANGED <<rows, sources, made, listing>>

\* The three unique keys of the table let one insert pass; what is found under
\* the id then must be what was asked for.
RowOf(id) == CHOOSE row \in rows : row.id = id
Present(id) == \E row \in rows : row.id = id
WrongRegisterOutcome(id, key, fingerprint) ==
    IF Present(id) THEN IF RowOf(id).key = key THEN "returned" ELSE "idempotency_conflict"
    ELSE IF \E row \in rows : row.key = key \/ row.fingerprint = fingerprint THEN "idempotency_conflict"
    ELSE "created"
RegisterOutcome(id, key, fingerprint) ==
    IF Present(id)
    THEN IF RowOf(id).key = key /\ RowOf(id).fingerprint = fingerprint THEN "returned" ELSE "idempotency_conflict"
    ELSE IF \E row \in rows : row.fingerprint = fingerprint THEN "idempotency_conflict"
    ELSE IF \E row \in rows : row.key = key THEN "not_found"
    ELSE "created"

Registered(c, created) ==
    LET call == clientCalls[c]
    IN  CASE RegisterOutcome(call.id, call.key, call.proof) = "created" ->
               [answer |-> RepositoryRecord(Row(call.id, call.key, call.proof, "active", created)),
                rows |-> rows \cup {Row(call.id, call.key, call.proof, "active", created)}]
          [] RegisterOutcome(call.id, call.key, call.proof) = "returned" ->
               [answer |-> RepositoryRecord(RowOf(call.id)), rows |-> rows]
          [] OTHER -> [answer |-> Refusal(RegisterOutcome(call.id, call.key, call.proof)), rows |-> rows]

Got(c) ==
    [answer |-> IF Present(clientCalls[c].id) THEN RepositoryRecord(RowOf(clientCalls[c].id)) ELSE Refusal("not_found"),
     rows |-> rows]

\* Archiving again is a success; the request id is only audited.
Archived(c) ==
    LET id == clientCalls[c].id
    IN  IF ~Present(id) THEN [answer |-> Refusal("not_found"), rows |-> rows]
        ELSE IF RowOf(id).state = "purge_pending" THEN [answer |-> Refusal("conflict"), rows |-> rows]
        ELSE LET row == [RowOf(id) EXCEPT !.state = "archived"]
             IN  [answer |-> RepositoryRecord(row), rows |-> (rows \ {RowOf(id)}) \cup {row}]

Counted(after) ==
    listing' = IF listing.step = "paging" /\ Cardinality(after) > Cardinality(rows)
               THEN [listing EXCEPT !.registered = @ + 1] ELSE listing

\* The transaction, whose answer may be lost with the connection or the caller,
\* before or after it commits.
CommitCall(c) ==
    /\ In(c, "storing")
    /\ \E created \in 1..MaxClock :
          LET result == CASE clientCalls[c].operation = "register" -> Registered(c, created)
                          [] clientCalls[c].operation = "archive" -> Archived(c)
                          [] clientCalls[c].operation = "get" -> Got(c)
          IN  \/ Answer(c, result.answer) /\ rows' = result.rows /\ Counted(result.rows)
              \/ Answer(c, Refusal("internal")) /\ rows' = result.rows /\ Counted(result.rows)
              \/ Answer(c, Refusal("internal")) /\ UNCHANGED <<rows, listing>>
    /\ UNCHANGED <<sources, opened, made>>

\* Retention, as in PersistenceStore.tla.
Purge(id) ==
    /\ Present(id)
    /\ \/ /\ RowOf(id).state = "archived"
          /\ rows' = (rows \ {RowOf(id)}) \cup {[RowOf(id) EXCEPT !.state = "purge_pending"]}
          /\ UNCHANGED listing
       \/ /\ RowOf(id).state = "purge_pending"
          /\ rows' = rows \ {RowOf(id)}
          /\ listing' = IF listing.step = "paging" THEN [listing EXCEPT !.purged = TRUE] ELSE listing
    /\ UNCHANGED <<sources, opened, clientCalls, made>>

EditSource(c) ==
    /\ clientCalls[c].step \in {"resolved", "answered"}
    /\ \E fingerprint \in Fingerprints \ {sources[c]} : sources' = [sources EXCEPT ![c] = fingerprint]
    /\ UNCHANGED <<rows, opened, clientCalls, made, listing>>

-----------------------------------------------------------------------------
(* The list of repositories *)

NewestFirst(a, b) == a.created > b.created \/ (a.created = b.created /\ a.id < b.id)
Arranged(table) == CHOOSE s \in SetToSeqs(table) : \A i, j \in DOMAIN s : i < j => NewestFirst(s[i], s[j])
Ordered == Arranged(rows)

StartListing ==
    /\ listing.step = "none"
    /\ listing' = [step |-> "paging", offset |-> 0, seen |-> <<>>, initial |-> {row.id : row \in rows},
                   purged |-> FALSE, registered |-> 0]
    /\ UNCHANGED <<rows, sources, opened, clientCalls, made>>

ListRepositories ==
    /\ listing.step = "paging"
    /\ LET page == Page(Ordered, listing.offset, ListPageSize)
       IN  listing' = [listing EXCEPT
                         !.step = IF More(Ordered, listing.offset, ListPageSize) THEN "paging" ELSE "listed",
                         !.offset = NextOffset(@, page),
                         !.seen = @ \o [i \in DOMAIN page |-> page[i].id]]
    /\ UNCHANGED <<rows, sources, opened, clientCalls, made>>

CatalogNext ==
    \/ \E c \in Clients :
          \/ \E operation \in {"register", "archive", "get"}, id \in Ids, key \in RequestIds \cup {"none"} : Call(c, operation, id, key)
          \/ ResolveFails(c) \/ Resolve(c) \/ CloseSource(c) \/ CommitCall(c) \/ EditSource(c)
    \/ \E id \in Ids : Purge(id)
    \/ StartListing \/ ListRepositories

CatalogSpec == CatalogInit /\ [][CatalogNext]_catalogVars

-----------------------------------------------------------------------------
(* Properties *)

\* A registration is answered with the repository of the source this very call
\* saw, whoever made the row and however often the call was tried, and no
\* answer leaves a source open; no two rows share an id, a source or, since
\* the clients came, a request.
RegistrationsTrue ==
    /\ \A c \in Clients :
          /\ clientCalls[c].step = "answered" => c \notin opened
          /\ clientCalls[c].operation = "register" /\ clientCalls[c].answer.kind = "repository" =>
               /\ clientCalls[c].answer.row.fingerprint = clientCalls[c].proof
               /\ clientCalls[c].answer.row.key = clientCalls[c].key
    /\ \A a, b \in rows : a # b =>
          a.id # b.id /\ a.fingerprint # b.fingerprint /\ (a.key = b.key => a.key = "earlier")

\* While nothing is purged, a listing shows every repository that was there
\* when it began, and none more often than repositories were registered
\* meanwhile; and a scan is read with all its artifacts.
ListingsWhole ==
    /\ listing.step = "listed" /\ ~listing.purged =>
          /\ listing.initial \subseteq ToSet(listing.seen)
          /\ Len(listing.seen) - Cardinality(ToSet(listing.seen)) <= listing.registered
    /\ ArtifactsWhole
=============================================================================
