---------------------------- MODULE RuntimeStartup ----------------------------
(***************************************************************************)
(* How the runtime acquires and returns what it owns: Start of             *)
(* internal/runtime/app on what RuntimeConfiguration loads, Open and Close *)
(* of internal/runtime/postgres, the collector of                          *)
(* internal/runtime/observability, and the end of the shutdown.            *)
(* RuntimeLifecycle models the work in between.                            *)
(*                                                                         *)
(* Four goroutines are interleaved: the one that calls Start, the          *)
(* collector, the owner of the shutdown and the one closeResources starts. *)
(* A timer may fire at any moment it is armed; a panic ends the process.   *)
(***************************************************************************)
EXTENDS RuntimeConfiguration

CONSTANTS
    Injected,       \* whether an observability factory is injected
    Revisions,      \* compatibility proofs a database can give
    MaxExports      \* bound: how many collections begin

ASSUME StartupAssumption ==
    /\ Injected \subseteq BOOLEAN
    /\ "none" \notin Revisions
    /\ MaxExports \in Nat

VARIABLES
    request,    \* what Load is asked with
    config,     \* what it answers to that: a configuration, or none
    start,      \* the goroutine of Start
    pools,      \* the pools that were created, with their proofs and state
    observer,   \* the observability service
    collector,  \* its goroutine
    releaser,   \* the goroutine of closeResources
    owner       \* the end of runShutdown

startupVars == <<request, config, start, pools, observer, collector, releaser, owner>>

Configuration == CHOOSE c \in config : TRUE
Pool(i) ==
    LET plan == Configuration.pools[i]
    IN  [plan |-> plan.plan, host |-> plan.host, user |-> plan.user,
         connections |-> plan.connections, certificate |-> plan.certificate,
         proof |-> "none", open |-> TRUE]
PoolsOpen == {i \in DOMAIN pools : pools[i].open}

\* cancel and done are the fields StopCollection clears, canceled is the
\* context of the collector, finished its channel.
StartupInit ==
    /\ request \in Requests
    /\ config = Loaded[request]
    /\ \E injected \in Injected :
        observer = [kind |-> IF injected THEN "injected" ELSE "absent", opened |-> FALSE, started |-> FALSE, cancel |-> FALSE,
                    done |-> FALSE, canceled |-> FALSE, finished |-> FALSE, closed |-> FALSE,
                    timedOut |-> FALSE]
    /\ start = [pc |-> "load", ended |-> FALSE]
    /\ pools = <<>>
    /\ collector = [pc |-> "none", channel |-> FALSE, using |-> FALSE, exports |-> 0]
    /\ releaser = "none"
    /\ owner = "serving"

-----------------------------------------------------------------------------
(* Start *)

GoOn(pc) == start' = [start EXCEPT !.pc = pc]
StartOnly == UNCHANGED <<collector, releaser, owner>>

\* The startup timeout expires or the caller gives up.
EndStartup ==
    /\ start.pc \notin {"ready", "failed"} /\ ~start.ended
    /\ start' = [start EXCEPT !.ended = TRUE]
    /\ UNCHANGED pools /\ UNCHANGED observer /\ StartOnly

Load ==
    /\ start.pc = "load"
    /\ IF start.ended \/ config = {}
       THEN GoOn("failed")
       ELSE GoOn(IF observer.kind = "absent" THEN "pools" ELSE "observe")
    /\ UNCHANGED <<pools, observer>> /\ StartOnly

OpenObserver ==
    /\ start.pc = "observe"
    /\ \/ /\ GoOn("pools")
          /\ observer' = [observer EXCEPT !.opened = TRUE, !.kind =
                            IF Configuration.metrics THEN "metrics" ELSE "events"]
       \/ GoOn("failed") /\ UNCHANGED observer
    /\ UNCHANGED pools /\ StartOnly

\* TLS material, secret and configuration come before the pool is created.
OpenPool ==
    /\ start.pc = "pools"
    /\ Len(pools) < Len(Configuration.pools)
    /\ \/ /\ ~start.ended
          /\ pools' = Append(pools, Pool(Len(pools) + 1))
          /\ GoOn("verify")
       \/ GoOn("unwind") /\ UNCHANGED pools
    /\ UNCHANGED observer /\ StartOnly

\* Ping, session, compatibility and privileges of the pool just created; the
\* proofs of all pools must be the same.
WrongSameProof(revision) == TRUE
SameProof(revision) ==
    \A i \in 1..(Len(pools) - 1) : pools[i].proof = revision

VerifyPool ==
    /\ start.pc = "verify"
    /\ \/ \E revision \in Revisions :
            IF ~start.ended /\ SameProof(revision)
            THEN pools' = [pools EXCEPT ![Len(pools)].proof = revision] /\ GoOn("pools")
            ELSE GoOn("unwind") /\ UNCHANGED pools
       \/ GoOn("unwind") /\ UNCHANGED pools
    /\ UNCHANGED observer /\ StartOnly

\* The health monitor is made and walks to ready; its configuration may be
\* refused.
MakeHealth ==
    /\ start.pc = "pools" /\ Len(pools) = Len(Configuration.pools)
    /\ GoOn("collect") \/ GoOn("unwind")
    /\ UNCHANGED <<pools, observer>> /\ StartOnly

\* observer.Start; the collector runs on a context of its own.
StartCollector ==
    /\ start.pc = "collect"
    /\ IF observer.kind = "absent"
       THEN GoOn("ready") /\ UNCHANGED <<observer, collector>>
       ELSE IF start.ended
       THEN GoOn("unwind") /\ UNCHANGED <<observer, collector>>
       ELSE /\ GoOn("ready")
            /\ IF observer.kind = "metrics"
               THEN /\ observer' = [observer EXCEPT !.started = TRUE, !.cancel = TRUE, !.done = TRUE]
                    /\ collector' = [collector EXCEPT !.pc = "scheduled"]
               ELSE /\ observer' = [observer EXCEPT !.started = TRUE]
                    /\ UNCHANGED collector
    /\ UNCHANGED <<pools, releaser, owner>>

\* The deferred calls of a failed start: the pools, last first, and then the
\* observer, whose collection never started.
WrongLastOpen == CHOOSE i \in PoolsOpen : \A j \in PoolsOpen : i <= j
LastOpen == CHOOSE i \in PoolsOpen : \A j \in PoolsOpen : i >= j
CloseLast == pools' = [pools EXCEPT ![LastOpen].open = FALSE]

Unwind ==
    /\ start.pc = "unwind"
    /\ IF PoolsOpen # {}
       THEN CloseLast /\ UNCHANGED <<start, observer>>
       ELSE /\ GoOn("failed")
            /\ observer' = [observer EXCEPT !.closed = @ \/ observer.opened]
            /\ UNCHANGED pools
    /\ StartOnly

StartNext ==
    \/ Load \/ OpenObserver \/ OpenPool \/ VerifyPool \/ MakeHealth \/ StartCollector \/ Unwind

-----------------------------------------------------------------------------
(* The collector *)

Collecting(pc) == collector' = [collector EXCEPT !.pc = pc]
CollectorOnly == UNCHANGED <<start, pools, releaser, owner>>

\* The goroutine reads the field done, without the mutex, when it first runs;
\* it will close that channel when it returns.
Awake ==
    /\ collector.pc = "scheduled"
    /\ collector' = [collector EXCEPT !.pc = "due", !.channel = observer.done]
    /\ UNCHANGED observer /\ CollectorOnly

\* A collection asks every pool, unless they are closed or it was canceled.
BeginExport ==
    /\ collector.pc = "due"
    /\ collector.exports < MaxExports
    /\ collector' = [collector EXCEPT !.pc = "exporting", !.exports = @ + 1, !.using =
                        ~observer.canceled /\ PoolsOpen = DOMAIN pools]
    /\ UNCHANGED observer /\ CollectorOnly

EndExport ==
    /\ collector.pc = "exporting"
    /\ collector' = [collector EXCEPT !.pc = "waiting", !.using = FALSE]
    /\ UNCHANGED observer /\ CollectorOnly

\* select over the context and the ticker; both may be ready.
Tick ==
    /\ collector.pc = "waiting"
    /\ collector.exports < MaxExports
    /\ Collecting("due")
    /\ UNCHANGED observer /\ CollectorOnly

\* close(done): closing a nil channel is a panic.
LeaveCollector ==
    /\ collector.pc = "waiting" /\ observer.canceled
    /\ IF collector.channel
       THEN Collecting("ended") /\ observer' = [observer EXCEPT !.finished = TRUE]
       ELSE Collecting("panicked") /\ UNCHANGED observer
    /\ CollectorOnly

CollectorNext == Awake \/ BeginExport \/ EndExport \/ Tick \/ LeaveCollector

-----------------------------------------------------------------------------
(* Shutdown: StopCollection, Close of the pools, Close of the observer *)

\* StopCollection takes cancel and done under the mutex; a second caller finds
\* them cleared and returns at once.
NothingToStop == ~observer.started \/ ~observer.cancel
Cleared == [observer EXCEPT !.cancel = FALSE, !.done = FALSE, !.canceled = TRUE]

BeginShutdown ==
    /\ start.pc = "ready" /\ owner = "serving"
    /\ owner' = "closing"
    /\ releaser' = IF observer.kind = "absent" THEN "pools" ELSE "stop"
    /\ UNCHANGED <<start, pools, observer, collector>>

StopCollection ==
    /\ releaser = "stop"
    /\ IF NothingToStop
       THEN releaser' = "pools" /\ UNCHANGED observer
       ELSE releaser' = "stopping" /\ observer' = Cleared
    /\ UNCHANGED <<start, pools, collector, owner>>

WrongCollectionStopped == TRUE
CollectionStopped == observer.finished
EndStop ==
    /\ releaser = "stopping" /\ CollectionStopped
    /\ releaser' = "pools"
    /\ UNCHANGED <<start, pools, observer, collector, owner>>

GiveUpStop ==
    /\ releaser = "stopping"
    /\ releaser' = "pools"
    /\ observer' = [observer EXCEPT !.timedOut = TRUE]
    /\ UNCHANGED <<start, pools, collector, owner>>

\* A pool waits for its connections.
ClosePool ==
    /\ releaser = "pools" /\ PoolsOpen # {} /\ ~collector.using
    /\ CloseLast
    /\ UNCHANGED <<start, observer, collector, releaser, owner>>

EndClose ==
    /\ releaser = "pools" /\ PoolsOpen = {}
    /\ releaser' = "closed"
    /\ UNCHANGED <<start, pools, observer, collector, owner>>

\* The owner waits for closeResources, or for its own timer, and then closes
\* the observer on a fresh timeout.
AfterResources == owner' = IF observer.kind = "absent" THEN "done" ELSE "observer"
ResourcesReturned ==
    /\ owner = "closing" /\ releaser = "closed"
    /\ AfterResources
    /\ UNCHANGED <<start, pools, observer, collector, releaser>>

WrongGiveUpResources == FALSE
GiveUpResources ==
    /\ owner = "closing"
    /\ AfterResources
    /\ observer' = [observer EXCEPT !.timedOut = TRUE]
    /\ UNCHANGED <<start, pools, collector, releaser>>

CloseObserver ==
    /\ owner = "observer"
    /\ IF NothingToStop
       THEN owner' = "done" /\ observer' = [observer EXCEPT !.closed = TRUE]
       ELSE owner' = "awaiting" /\ observer' = Cleared
    /\ UNCHANGED <<start, pools, collector, releaser>>

ObserverClosed ==
    /\ owner = "awaiting"
    /\ owner' = "done"
    /\ IF observer.finished
       THEN observer' = [observer EXCEPT !.closed = TRUE]
       ELSE UNCHANGED observer
    /\ UNCHANGED <<start, pools, collector, releaser>>

FinishShutdown == ResourcesReturned \/ GiveUpResources \/ CloseObserver \/ ObserverClosed

ShutdownNext ==
    \/ BeginShutdown \/ StopCollection \/ EndStop \/ GiveUpStop \/ ClosePool \/ EndClose
    \/ FinishShutdown

Alive == collector.pc # "panicked"
StartupNext ==
    /\ Alive /\ UNCHANGED <<request, config>>
    /\ EndStartup \/ StartNext \/ CollectorNext \/ ShutdownNext

\* The caller of Start, the owner and its helper are scheduled; a pool may
\* wait for a connection, and a sink for ever.
StartupFairness ==
    /\ WF_startupVars(Alive /\ UNCHANGED <<request, config>> /\ StartNext)
    /\ WF_startupVars(Alive /\ UNCHANGED <<request, config>> /\ FinishShutdown)
StartupSpec == StartupInit /\ [][StartupNext]_startupVars /\ StartupFairness

-----------------------------------------------------------------------------
(* Properties *)

\* Start hands over everything or nothing: a ready runtime owns every pool of
\* its plan, in order, all with the same proof; a failed start, whichever
\* step of whichever pool failed, left no pool open and no collector, and
\* closed the observer it had opened.
StartAllOrNothing ==
    /\ start.pc = "ready" =>
          /\ Len(pools) = Len(Configuration.pools)
          /\ \A i, j \in DOMAIN pools : pools[i].proof = pools[j].proof /\ pools[i].proof # "none"
    /\ start.pc = "failed" =>
          /\ PoolsOpen = {} /\ collector.pc = "none"
          /\ observer.opened => observer.closed

\* The value that the last of the entries with a name gives it.
IsLast(entries, f, i) ==
    entries[i].name = f /\ \A j \in DOMAIN entries : entries[j].name = f => j <= i
LastSaid(entries, f, default) ==
    IF f \in Names(entries)
    THEN entries[CHOOSE i \in DOMAIN entries : IsLast(entries, f, i)].value
    ELSE default

\* The connections of the first k pools together.
Used ==
    LET used[k \in 0..Len(pools)] == IF k = 0 THEN 0 ELSE used[k - 1] + pools[k].connections
    IN  used

\* What the pools of the runtime may do together is what the operator said
\* last, whichever layer said it: their connections stay within the stated
\* budget (the default of a small profile), no pool reaches another machine
\* without a certificate it verifies against a name, and in staging and
\* production no two pools share a user, whatever the other layers say.
OpenedAsStated ==
    LET last(f, default) ==
            LastSaid(FileEntries(request) \o request.environment \o request.arguments, f, default)
    IN  pools # <<>> =>
          /\ Used[Len(pools)] <= last("budget", 4)
          /\ \A i \in DOMAIN pools :
                /\ pools[i].host = last("host", Empty)
                /\ pools[i].host \notin SocketOrLoopback => pools[i].certificate \in DnsNames
          /\ last("profile", "local") \in Guarded =>
                /\ IsInjective([i \in DOMAIN pools |-> pools[i].user])
                /\ \A i \in DOMAIN pools : pools[i].plan # "combined"

\* Pools close once and in reverse order of their construction, in a failed
\* start and in a shutdown alike.
ClosedInReverse ==
    [][\A i \in DOMAIN pools :
          /\ pools'[i].open => pools[i].open
          /\ pools[i].open /\ ~pools'[i].open =>
                \A j \in DOMAIN pools : j > i => ~pools[j].open]_startupVars

\* No collection runs once a pool began to close or the observer is closed,
\* unless a timer of the shutdown expired while it was waited for.
CollectionStopsFirst ==
    start.pc = "ready" /\ (PoolsOpen # DOMAIN pools \/ observer.closed) =>
        \/ observer.timedOut
        \/ collector.pc \in {"none", "ended"}

\* A start ends in ready or failed; a shutdown ends although a sink or a
\* connection never returns, unless the process is gone.
StartsAndStops ==
    /\ <>(start.pc \in {"ready", "failed"})
    /\ owner = "closing" ~> owner = "done" \/ ~Alive

-----------------------------------------------------------------------------
(* What the documents say and the code does not do *)

\* Metric collection is cancellable and stops before the pools close: a
\* shutdown that overtakes the start of the collector cannot crash it.
CollectorNeverPanics == Alive
=============================================================================
