------------------------- MODULE PublicationPromise -------------------------
(***************************************************************************)
(* What the Persistence Port promises about a scan, without tables, locks, *)
(* digests or garbage: a scan is begun once, ends once, and if it ends by  *)
(* publication then everything it exports appears in that one step, is     *)
(* what the publisher submitted, and stays until the scan is purged.       *)
(*                                                                         *)
(* PersistenceStore implements it (Promise there): staging, collection,    *)
(* archiving and every replay are stuttering steps.                        *)
(***************************************************************************)
CONSTANTS Scans, Artifacts, Contents, Hash, Manifests

VARIABLES
    status,     \* what GetScan says of each scan
    exports     \* what ListArtifacts and ExportPayload deliver for it

promiseVars == <<status, exports>>

Ended == {"succeeded", "failed", "cancelled"}

PromiseInit ==
    /\ status = [s \in Scans |-> "absent"]
    /\ exports = [s \in Scans |-> {}]

PromiseBegin(s) ==
    /\ status[s] = "absent"
    /\ status' = [status EXCEPT ![s] = "running"]
    /\ UNCHANGED exports

PromiseFinish(s, outcome) ==
    /\ status[s] = "running"
    /\ status' = [status EXCEPT ![s] = outcome]
    /\ UNCHANGED exports

\* Each submitted artifact is exported with bytes that hash to its digest.
Delivers(m, E) ==
    /\ {e[1] : e \in E} = DOMAIN m.artifacts
    /\ \A e \in E : e[2] \in Contents /\ Hash[e[2]] = m.artifacts[e[1]]

PromisePublish(s, m) ==
    /\ status[s] = "running"
    /\ status' = [status EXCEPT ![s] = "succeeded"]
    /\ exports' = [exports EXCEPT ![s] = exports'[s]]
    /\ Delivers(m, exports'[s])

\* A purge batch forgets scans of any status, with all they export.
PromisePurge(B) ==
    /\ status' = [s \in Scans |-> IF s \in B THEN "absent" ELSE status[s]]
    /\ exports' = [s \in Scans |-> IF s \in B THEN {} ELSE exports[s]]

PromiseNext ==
    \/ \E s \in Scans :
        \/ PromiseBegin(s)
        \/ \E outcome \in {"failed", "cancelled"} : PromiseFinish(s, outcome)
        \/ \E m \in Manifests : PromisePublish(s, m)
    \/ \E B \in SUBSET Scans : PromisePurge(B)

PromiseSpec == PromiseInit /\ [][PromiseNext]_promiseVars
=============================================================================
