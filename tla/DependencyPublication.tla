------------------------ MODULE DependencyPublication ------------------------
(***************************************************************************)
(* The dependency artifact bridge (internal/integration/dependency):       *)
(* Publish, Reconcile and Export of one dependency inventory over the      *)
(* persistence port, composed with PersistenceStore.                       *)
(*                                                                         *)
(* A call belongs to an instance, whose gate admits one call at a time.    *)
(* Instances of different processes meet only in the database: they may be *)
(* given the same scan, with equal or different inventories.               *)
(*                                                                         *)
(* Every store call can fail, and a transaction can commit although its    *)
(* answer is lost.  The context of the work ends when the caller or the    *)
(* runtime cancels it; the finalization and the reconciliation run on      *)
(* contexts of their own.  A process may crash between any two steps; what *)
(* it leaves on disk stays.                                                *)
(***************************************************************************)
EXTENDS Integers, FiniteSets

CONSTANTS Scopes, Repositories, Scans, Keys, Sources, Requests, Artifacts,
          Payloads, Contents, Hash, Manifests, Reasons, NoScan, NoReason,
          BatchLimit, MaxRegistrations, MaxCollections

CONSTANTS
    Instances,      \* bridge instances, each in a process of its own
    Publishers,     \* Publish calls
    Exporters,      \* Export calls
    At,             \* the instance of each call
    Inventory,      \* the digest of the inventory each Publish call is given
    Faults,         \* whether store calls, files fail and processes crash
    Maintained,     \* whether the repository is archived and purged
    MaxCalls        \* bound: how many calls are made

VARIABLES repositories, scans, publications, envelopes, dependencies,
          payloads, fresh, recent, collection, audit

VARIABLES
    calls,          \* the Publish and Export calls
    busy,           \* instances whose gate is taken
    leases,         \* calls that hold a lease of the runtime
    files           \* calls whose spool file is on disk

Store == INSTANCE PersistenceStore

storeVars == <<repositories, scans, publications, envelopes, dependencies,
               payloads, fresh, recent, collection, audit>>
bridgeVars == <<calls, busy, leases, files>>
publicationVars == <<storeVars, bridgeVars>>

Calls == Publishers \cup Exporters

ASSUME BridgeAssumption ==
    /\ At \in [Calls -> Instances]
    /\ Inventory \in [Publishers -> Payloads]
    /\ Publishers \cap Exporters = {}
    /\ {"failed", "canceled"} \subseteq Reasons
    /\ Faults \in BOOLEAN /\ Maintained \in BOOLEAN /\ MaxCalls \in Nat

Scope == CHOOSE sc \in Scopes : TRUE
Repository == CHOOSE r \in Repositories : TRUE
Scan == CHOOSE s \in Scans : TRUE
Artifact == CHOOSE a \in Artifacts : TRUE
Revision == CHOOSE q \in Requests : TRUE

\* One envelope, no dependencies between artifacts.
ManifestOf(d) == [artifacts |-> [a \in {Artifact} |-> d], dependencies |-> {}]

\* Request ids of the port are derived from the expectation.
Child(d) == <<"begin", d>>

\* What PersistenceStore assumes of the constants they share, and that there is
\* something to publish: the manifests and request ids of the Publish calls.
ASSUME PublishedAssumption ==
    /\ Hash \in [Contents -> Payloads]
    /\ Manifests \subseteq Store!ManifestType /\ \A m \in Manifests : Store!ValidGraph(m)
    /\ NoScan \notin Scans /\ NoReason \notin Reasons
    /\ BatchLimit \in Nat \ {0} /\ MaxRegistrations \in Nat /\ MaxCollections \in Nat
    /\ Scopes # {} /\ Repositories # {} /\ Scans # {} /\ Artifacts # {} /\ Requests # {}
    /\ \A c \in Publishers :
          ManifestOf(Inventory[c]) \in Manifests /\ Child(Inventory[c]) \in Keys

\* Conflict is "terminated" when it reports a scan that failed or was canceled.
Receipt(d) == [kind |-> "receipt", digest |-> d]
Exported(d) == [kind |-> "exported", digest |-> d]
Problem(kind) == [kind |-> kind]

-----------------------------------------------------------------------------
(* The call *)

Idle == [pc |-> "idle", ended |-> FALSE, digest |-> "none", begun |-> FALSE,
         attempted |-> FALSE, recheck |-> FALSE, committed |-> FALSE,
         finish |-> "none", leaked |-> FALSE, answer |-> Problem("pending")]

PublicationInit ==
    /\ Store!Init
    /\ calls = [c \in Calls |-> Idle]
    /\ busy = {} /\ leases = {} /\ files = {}

Inside(c) == calls[c].pc \notin {"idle", "returned", "crashed"}
Step(c, pc) == calls' = [calls EXCEPT ![c].pc = pc]
Return(c, answer) == calls' = [calls EXCEPT ![c].pc = "returned", ![c].answer = answer]

\* The deferred calls, in their order: finish the scan, close the spool,
\* release the lease and the gate.  The scan is finished only when Begin
\* returned it running, the call failed, and Publish was not attempted.
WrongAfterAnswer(call, answer) == "close"
AfterAnswer(call, answer) ==
    IF call.begun /\ answer.kind # "receipt" /\ ~call.attempted THEN "finish" ELSE "close"
Conclude(c, answer) ==
    calls' = [calls EXCEPT ![c].pc = AfterAnswer(calls[c], answer), ![c].answer = answer]

StoreOnly == UNCHANGED <<busy, leases, files>>
InMemory == StoreOnly /\ UNCHANGED storeVars
Interrupted(c) == calls[c].ended \/ Faults
Interrupt(c) ==
    /\ Interrupted(c)
    /\ Conclude(c, Problem(IF calls[c].ended THEN "canceled" ELSE "unavailable"))

\* admit: the gate, then the lease.
Admit(c) ==
    /\ calls[c].pc = "idle"
    /\ Cardinality({d \in Calls : calls[d].pc # "idle"}) < MaxCalls
    /\ IF At[c] \in busy
       THEN Return(c, Problem("busy")) /\ UNCHANGED busy
       ELSE Step(c, "acquire") /\ busy' = busy \cup {At[c]}
    /\ UNCHANGED <<leases, files, storeVars>>

Acquire(c) ==
    /\ calls[c].pc = "acquire"
    /\ \/ /\ Step(c, IF c \in Publishers THEN "encode" ELSE "export_scan")
          /\ leases' = leases \cup {c}
          /\ UNCHANGED busy
       \/ /\ Return(c, Problem("unavailable"))
          /\ busy' = busy \ {At[c]}
          /\ UNCHANGED leases
    /\ UNCHANGED <<files, storeVars>>

\* The caller leaves, or the runtime cancels the lease.
EndWork(c) ==
    /\ Inside(c) /\ ~calls[c].ended
    /\ calls' = [calls EXCEPT ![c].ended = TRUE]
    /\ InMemory

-----------------------------------------------------------------------------
(* The spool *)

\* The bytes stay in memory up to a threshold, and then in a file; a write
\* that fails poisons the spool, the file may exist already.
Spill(c) == files' = files \/ files' = files \cup {c}

Encode(c) ==
    /\ calls[c].pc = "encode"
    /\ \/ ~calls[c].ended /\ Step(c, "seal")
       \/ ~calls[c].ended /\ \E k \in {"limit_exceeded", "invalid_input"} : Conclude(c, Problem(k))
       \/ Interrupt(c)
    /\ Spill(c)
    /\ UNCHANGED <<busy, leases, storeVars>>

Seal(c) ==
    /\ calls[c].pc = "seal"
    /\ \/ /\ ~calls[c].ended
          /\ calls' = [calls EXCEPT ![c].pc = "repository", ![c].digest = Inventory[c]]
       \/ calls[c].ended /\ Interrupt(c)
       \/ Faults /\ c \in files /\ Conclude(c, Problem("unavailable"))
    /\ InMemory

\* Closing removes the file; when that fails the answer of a call that had
\* succeeded becomes the failure to clean up, and the file is left behind.
WrongRemoved(c) == IF calls[c].answer.kind = "limit_exceeded" THEN files ELSE files \ {c}
Removed(c) == files \ {c}
Close(c) ==
    /\ calls[c].pc = "close"
    /\ \/ files' = Removed(c) /\ Step(c, "release")
       \/ /\ Faults /\ c \in files
          /\ UNCHANGED files
          /\ calls' = [calls EXCEPT ![c].pc = "release", ![c].leaked = TRUE, ![c].answer =
                IF @.kind \in {"receipt", "exported"} THEN Problem("cleanup_failed") ELSE @]
    /\ UNCHANGED <<busy, leases, storeVars>>

Release(c) ==
    /\ calls[c].pc = "release"
    /\ Step(c, "returned")
    /\ leases' = leases \ {c}
    /\ busy' = busy \ {At[c]}
    /\ UNCHANGED <<files, storeVars>>

-----------------------------------------------------------------------------
(* Publish *)

ScanVisible == Store!ScanVisible(Scope, Repository, Scan)

CheckRepository(c) ==
    /\ calls[c].pc = "repository"
    /\ \/ IF ~Store!Visible(Scope, Repository) THEN Conclude(c, Problem("missing"))
          ELSE IF repositories[Repository].state # "active" THEN Conclude(c, Problem("conflict"))
          ELSE Step(c, "lookup")
       \/ Interrupt(c)
    /\ InMemory

Lookup(c) ==
    /\ calls[c].pc = "lookup"
    /\ \/ Step(c, IF ScanVisible THEN "reconcile" ELSE "begin")
       \/ Interrupt(c)
    /\ InMemory

\* An error of Begin, whatever it means, is reconciled: the scan it may have
\* begun is nobody's to finish.
Begin(c) ==
    /\ calls[c].pc = "begin"
    /\ LET d == calls[c].digest
           outcome == Store!BeginOutcome(Scope, Repository, Scan, Child(d), Revision)
           Running == calls' = [calls EXCEPT ![c].pc = "stage", ![c].begun = TRUE]
       IN \/ /\ Store!BeginScan(Scope, Repository, Scan, Child(d), Revision)
             /\ Running \/ (Interrupted(c) /\ Step(c, "reconcile"))
          \/ /\ outcome = "returned"
             /\ IF scans[Scan].state = "running" THEN Running ELSE Step(c, "reconcile")
             /\ UNCHANGED storeVars
          \/ /\ outcome \notin {"created", "returned"} \/ Interrupted(c)
             /\ Step(c, "reconcile")
             /\ UNCHANGED storeVars
    /\ StoreOnly

\* Another instance may have finished the scan since Begin: a rejection is
\* checked against the durable scan, which is believed only if it is the
\* expected publication.
Stage(c) ==
    /\ calls[c].pc = "stage"
    /\ LET d == calls[c].digest
           Rejected == calls' = [calls EXCEPT ![c].pc = "reconcile", ![c].recheck = TRUE]
       IN \/ \E bytes \in Contents :
               /\ Store!StagePayload(Scope, Repository, Scan, d, bytes)
               /\ Step(c, "publish") \/ Interrupt(c)
          \/ /\ ~Store!Running(Scan) /\ Rejected
             /\ UNCHANGED storeVars
          \/ Interrupt(c) /\ UNCHANGED storeVars
    /\ StoreOnly

Publish(c) ==
    /\ calls[c].pc = "publish"
    /\ LET m == ManifestOf(calls[c].digest)
           Attempted(committed) == calls' = [calls EXCEPT ![c].pc = "reconcile",
                ![c].attempted = TRUE, ![c].committed = committed]
       IN \/ Store!PublishScan(Scope, Repository, Scan, m, FALSE) /\ Attempted(TRUE)
          \/ /\ Store!PublishOutcome(Scope, Repository, Scan, m) # "created" \/ Interrupted(c)
             /\ Attempted(FALSE)
             /\ UNCHANGED storeVars
    /\ StoreOnly

\* finishCtx is detached; its result is ignored.
Operation(call) == IF call.ended THEN "cancelled" ELSE "failed"
Finish(c) ==
    /\ calls[c].pc = "finish"
    /\ LET Ended(result) == calls' = [calls EXCEPT ![c].pc = "close", ![c].finish = result]
           finishes == \/ Operation(calls[c]) = "cancelled"
                          /\ Store!CancelScan(Scope, Repository, Scan, "canceled")
                       \/ Operation(calls[c]) = "failed"
                          /\ Store!FailScan(Scope, Repository, Scan, "failed")
       IN \/ finishes /\ (Ended("answered") \/ (Faults /\ Ended("lost")))
          \/ ~Store!Running(Scan) /\ Ended("answered") /\ UNCHANGED storeVars
          \/ Faults /\ Ended("lost") /\ UNCHANGED storeVars
    /\ StoreOnly

-----------------------------------------------------------------------------
(* reconcileDetached *)

\* After a rejected Stage only the exact publication is accepted.
Settle(c, answer) ==
    Conclude(c, IF calls[c].recheck /\ answer.kind # "receipt" THEN Problem("missing") ELSE answer)

WrongUnproved == Problem("unavailable")
Unproved == Problem("uncertain")
Reconciled(state) ==
    IF state \in Store!FinishedStates THEN Problem("terminated") ELSE Problem("uncertain")

Reconcile(c) ==
    /\ calls[c].pc = "reconcile"
    /\ LET state == IF ScanVisible THEN scans[Scan].state ELSE "missing"
       IN \/ IF ScanVisible /\ scans[Scan].request # Revision
             THEN Settle(c, Problem("integrity_failure"))
             ELSE IF state = "succeeded" THEN Step(c, "get")
             ELSE Settle(c, Reconciled(state))
          \/ Faults /\ Settle(c, Unproved)
    /\ InMemory

\* Get reads the scan again, and then its envelopes.
GetScan(c) ==
    /\ calls[c].pc = "get"
    /\ \/ IF ScanVisible THEN Step(c, "compare") ELSE Settle(c, Problem("missing"))
       \/ Faults /\ Settle(c, Unproved)
    /\ InMemory

Listed == IF Scan \in DOMAIN publications THEN publications[Scan].manifest.artifacts ELSE Store!Empty
WrongCompared(d) == Receipt(d)
Compared(d) ==
    IF Listed = ManifestOf(d).artifacts THEN Receipt(d) ELSE Problem("integrity_failure")

Compare(c) ==
    /\ calls[c].pc = "compare"
    /\ \/ Settle(c, Compared(calls[c].digest))
       \/ Faults /\ Settle(c, Unproved)
    /\ InMemory

-----------------------------------------------------------------------------
(* Export *)

ExportScan(c) ==
    /\ calls[c].pc = "export_scan"
    /\ \/ IF ~ScanVisible THEN Conclude(c, Problem("missing"))
          ELSE IF scans[Scan].state # "succeeded" THEN Conclude(c, Problem("conflict"))
          ELSE Step(c, "export_list")
       \/ Interrupt(c)
    /\ InMemory

ExportList(c) ==
    /\ calls[c].pc = "export_list"
    /\ \/ IF Artifact \notin DOMAIN Listed THEN Conclude(c, Problem("integrity_failure"))
          ELSE calls' = [calls EXCEPT ![c].pc = "export", ![c].digest = Listed[Artifact]]
       \/ Interrupt(c)
    /\ InMemory

\* All bytes reach the spool, and are compared with the envelope, before any
\* reaches the caller.  Storage may deliver other bytes than were stored.
Delivered(c, bytes) ==
    IF Hash[bytes] = calls[c].digest THEN Exported(Hash[bytes]) ELSE Problem("integrity_failure")

ExportPayload(c) ==
    /\ calls[c].pc = "export"
    /\ \/ \E bytes \in Contents :
            /\ Artifact \in DOMAIN envelopes
            /\ ~calls[c].ended
            /\ bytes = payloads[envelopes[Artifact].payload] \/ Faults
            /\ Conclude(c, Delivered(c, bytes))
       \/ Artifact \notin DOMAIN envelopes /\ Conclude(c, Problem("missing"))
       \/ Interrupt(c)
    /\ Spill(c)
    /\ UNCHANGED <<busy, leases, storeVars>>

-----------------------------------------------------------------------------
(* Processes and everybody else at the store *)

Crash(i) ==
    /\ Faults
    /\ i \in busy
    /\ calls' = [c \in Calls |-> IF At[c] = i /\ Inside(c)
                                 THEN [calls[c] EXCEPT !.pc = "crashed"] ELSE calls[c]]
    /\ busy' = busy \ {i}
    /\ leases' = {c \in leases : At[c] # i}
    /\ UNCHANGED <<files, storeVars>>

Environment ==
    /\ \/ \E k \in Keys, src \in Sources : Store!RegisterRepository(Scope, Repository, k, src)
       \/ /\ Maintained
          /\ \/ Store!ArchiveRepository(Scope, Repository)
             \/ Store!MarkRepositoryForPurge(Scope, Repository)
             \/ \E B \in SUBSET Scans : Store!PurgeRepositoryBatch(Scope, Repository, B)
    /\ UNCHANGED bridgeVars

CallNext(c) ==
    \/ Acquire(c) \/ Encode(c) \/ Seal(c) \/ CheckRepository(c) \/ Lookup(c) \/ Begin(c)
    \/ Stage(c) \/ Publish(c) \/ Reconcile(c) \/ GetScan(c) \/ Compare(c) \/ Finish(c)
    \/ ExportScan(c) \/ ExportList(c) \/ ExportPayload(c) \/ Close(c) \/ Release(c)

PublicationNext ==
    \/ \E c \in Calls : Admit(c) \/ EndWork(c) \/ CallNext(c)
    \/ \E i \in Instances : Crash(i)
    \/ Environment

PublicationSpec == PublicationInit /\ [][PublicationNext]_publicationVars

-----------------------------------------------------------------------------
(* Properties *)

Purged == audit[<<"purge-repository-batch", Repository>>] > 0

\* What an answer says of the durable scan stays true until it is purged: a
\* receipt and an export name the digest that is stored, and a scan reported
\* as terminated never becomes a publication.
PublicationAnswersTrue ==
    \A c \in Calls :
        LET a == calls[c].answer IN
        /\ a.kind \in {"receipt", "exported"} /\ ~Purged =>
              Scan \in DOMAIN publications /\ publications[Scan].manifest = ManifestOf(a.digest)
        /\ a.kind = "terminated" /\ ~Purged =>
              Scan \in DOMAIN scans /\ scans[Scan].state \in Store!FinishedStates

\* A call whose own publication committed answers with a receipt, with a
\* failed clean-up, or that it does not know; it never denies it.
CommitsNotDenied ==
    \A c \in Publishers :
        calls[c].committed /\ calls[c].pc = "returned" /\ ~Purged =>
            calls[c].answer.kind \in {"receipt", "uncertain", "cleanup_failed"}

\* A call that leaves the scan it began running says that it does not know
\* what became of it, unless it asked the store to finish it and got no answer.
\* (After a purge another call may have begun the scan anew.)
NoSilentOrphans ==
    [][\A c \in Publishers :
          /\ calls[c].pc = "release" /\ calls'[c].pc = "returned"
          /\ calls[c].begun /\ calls[c].answer.kind # "uncertain" /\ Store!Running(Scan)
          /\ ~Purged
          => calls[c].finish = "lost"]_publicationVars

\* The gate of an instance is taken exactly while one of its calls is inside,
\* only such calls hold leases, and a spool file is on disk only while its
\* call holds one, unless removing it failed or its process crashed.
GateServesOne ==
    /\ \A i \in Instances :
          Cardinality({c \in Calls : At[c] = i /\ Inside(c)}) = (IF i \in busy THEN 1 ELSE 0)
    /\ \A c \in leases : Inside(c)
    /\ \A c \in files : c \in leases \/ calls[c].leaked \/ calls[c].pc = "crashed"
=============================================================================
