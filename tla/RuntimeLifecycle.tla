--------------------------- MODULE RuntimeLifecycle ---------------------------
(***************************************************************************)
(* internal/runtime/app/implementation.go: work admission and the owner of *)
(* shutdown, over the health monitor and the connection pools.             *)
(*                                                                         *)
(* The runtime is modelled from the moment Start returned it.  The zeroWork*)
(* channel is replaced whenever work is admitted to an idle runtime, so a  *)
(* channel is named by the work it was made for (NoWork: the one Start     *)
(* made, already closed).  Timers may fire at any moment they are armed.   *)
(***************************************************************************)
EXTENDS HealthMonitor, Integers, FiniteSets

CONSTANTS
    Works,      \* admitted operations, each admitted at most once
    NoWork,
    Waiters     \* callers of Shutdown

ASSUME WorksAssumption == IsFiniteSet(Works) /\ NoWork \notin Works

VARIABLES
    accepting,  \* admission is open
    works,      \* what became of each operation; inFlight is a subset
    holding,    \* operations that hold a pooled connection
    zeroWork,   \* the current idle channel
    closed,     \* the channels that are closed
    force,      \* the force channel is closed
    step,       \* where runShutdown is
    captured,   \* the channel runShutdown waits on
    closer,     \* the goroutine of closeResources
    result,     \* what runShutdown has determined so far
    waiters     \* the Shutdown calls

workVars == <<accepting, works, holding, zeroWork, closed>>
ownerVars == <<step, captured, closer, result>>
runtimeVars == <<healthVars, workVars, ownerVars, force, waiters>>

InFlight == {w \in Works : works[w] \in {"active", "canceled"}}
Active == {w \in Works : works[w] = "active"}
Idle(channel) == channel \in closed

Steps == {"serving", "drain", "refuse", "wait", "cancel", "stop", "await",
          "close", "closing", "publish", "done"}

RuntimeInit ==
    /\ state = "ready" /\ readiness = "ready" /\ failures = 0 /\ fresh = TRUE
    /\ checks = {}
    /\ accepting = TRUE
    /\ works = [w \in Works |-> "new"]
    /\ holding = {}
    /\ zeroWork = NoWork
    /\ closed = {NoWork}
    /\ force = FALSE
    /\ step = "serving"
    /\ captured = NoWork
    /\ closer = "none"
    /\ result = [outcome |-> "graceful", initial |-> 0, canceled |-> 0, resourcesClosed |-> FALSE]
    /\ waiters = [c \in Waiters |-> "idle"]

-----------------------------------------------------------------------------
(* Work *)

\* An idle runtime makes a new idle channel with the work it admits.
WrongIdleChannel(w) == zeroWork
IdleChannel(w) == IF InFlight = {} THEN w ELSE zeroWork

Admit(w) ==
    /\ accepting
    /\ works[w] = "new"
    /\ zeroWork' = IdleChannel(w)
    /\ works' = [works EXCEPT ![w] = "active"]
    /\ UNCHANGED <<accepting, holding, closed, healthVars, ownerVars, force, waiters>>

\* An operation uses a connection of a pool; a closing pool hands out none,
\* and an operation whose context was canceled gets none.
Connect(w) ==
    /\ works[w] = "active" /\ w \notin holding
    /\ closer = "none"
    /\ holding' = holding \cup {w}
    /\ UNCHANGED <<accepting, works, zeroWork, closed, healthVars, ownerVars, force, waiters>>

Disconnect(w) ==
    /\ w \in holding
    /\ holding' = holding \ {w}
    /\ UNCHANGED <<accepting, works, zeroWork, closed, healthVars, ownerVars, force, waiters>>

\* Done of the work; a second Done finds nothing to release.
Release(w) ==
    /\ w \in InFlight \ holding
    /\ works' = [works EXCEPT ![w] = "released"]
    /\ closed' = IF InFlight = {w} THEN closed \cup {zeroWork} ELSE closed
    /\ UNCHANGED <<accepting, holding, zeroWork, healthVars, ownerVars, force, waiters>>

-----------------------------------------------------------------------------
(* Shutdown and Force *)

RequestShutdown(c) ==
    /\ waiters[c] = "idle"
    /\ waiters' = [waiters EXCEPT ![c] = "waiting"]
    /\ step' = IF step = "serving" THEN "drain" ELSE step
    /\ UNCHANGED <<healthVars, workVars, captured, closer, result, force>>

\* The result is broadcast by closing a channel.
WrongReceiveResult(c) ==
    /\ waiters[c] = "waiting" /\ step = "done"
    /\ \A d \in Waiters : waiters[d] # "answered"
    /\ waiters' = [waiters EXCEPT ![c] = "answered"]
    /\ UNCHANGED <<healthVars, workVars, ownerVars, force>>
ReceiveResult(c) ==
    /\ waiters[c] = "waiting" /\ step = "done"
    /\ waiters' = [waiters EXCEPT ![c] = "answered"]
    /\ UNCHANGED <<healthVars, workVars, ownerVars, force>>

AbandonWait(c) ==
    /\ waiters[c] = "waiting"
    /\ waiters' = [waiters EXCEPT ![c] = "abandoned"]
    /\ UNCHANGED <<healthVars, workVars, ownerVars, force>>

SignalForce ==
    /\ ~force
    /\ force' = TRUE
    /\ UNCHANGED <<healthVars, workVars, ownerVars, waiters>>

-----------------------------------------------------------------------------
(* runShutdown *)

StartDraining ==
    /\ step = "drain"
    /\ Transition("draining")
    /\ step' = "refuse"
    /\ UNCHANGED <<workVars, captured, closer, result, force, waiters>>

Refuse ==
    /\ step = "refuse"
    /\ accepting' = FALSE
    /\ result' = [result EXCEPT !.initial = Cardinality(InFlight)]
    /\ captured' = zeroWork
    /\ step' = "wait"
    /\ UNCHANGED <<works, holding, zeroWork, closed, healthVars, closer, force, waiters>>

\* select over the idle channel, the drain timer and the force channel; when
\* several are ready any may be taken.
Drained ==
    /\ step = "wait" /\ Idle(captured)
    /\ step' = "stop"
    /\ UNCHANGED <<healthVars, workVars, captured, closer, result, force, waiters>>

GiveUpDraining(outcome) ==
    /\ step = "wait"
    /\ outcome = "forced" => force
    /\ result' = [result EXCEPT !.outcome = outcome]
    /\ step' = "cancel"
    /\ UNCHANGED <<healthVars, workVars, captured, closer, force, waiters>>

\* cancelWork tells everything that is still in flight, and counts it.
WrongAfterCancel(w) == works[w]
AfterCancel(w) == IF w \in InFlight THEN "canceled" ELSE works[w]
CanceledCount == Cardinality(InFlight)

CancelWork ==
    /\ step = "cancel"
    /\ works' = [w \in Works |-> AfterCancel(w)]
    /\ result' = [result EXCEPT !.canceled = CanceledCount]
    /\ step' = "stop"
    /\ UNCHANGED <<accepting, holding, zeroWork, closed, healthVars, captured, closer,
                   force, waiters>>

Stop ==
    /\ step = "stop"
    /\ Transition("stopping")
    /\ captured' = IF result.canceled # 0 THEN zeroWork ELSE captured
    /\ step' = IF result.canceled # 0 THEN "await" ELSE "close"
    /\ UNCHANGED <<workVars, closer, result, force, waiters>>

Settled ==
    /\ step = "await" /\ Idle(captured)
    /\ step' = "close"
    /\ UNCHANGED <<healthVars, workVars, captured, closer, result, force, waiters>>

\* A timer that expires on work or on the pools makes the outcome forced.
WrongEscalated == result
Escalated == [result EXCEPT !.outcome = "forced"]

WrongGiveUpSettling == FALSE
GiveUpSettling ==
    /\ step = "await"
    /\ result' = Escalated
    /\ step' = "close"
    /\ UNCHANGED <<healthVars, workVars, captured, closer, force, waiters>>

CloseResources ==
    /\ step = "close"
    /\ closer' = "closing"
    /\ step' = "closing"
    /\ UNCHANGED <<healthVars, workVars, captured, result, force, waiters>>

\* postgres.Close returns once every connection came back.
PoolsClosed ==
    /\ closer = "closing" /\ holding = {}
    /\ closer' = "closed"
    /\ UNCHANGED <<healthVars, workVars, step, captured, result, force, waiters>>

ResourcesClosed ==
    /\ step = "closing" /\ closer = "closed"
    /\ Transition("stopped")
    /\ result' = [result EXCEPT !.resourcesClosed = TRUE]
    /\ step' = "publish"
    /\ UNCHANGED <<workVars, captured, closer, force, waiters>>

GiveUpClosing ==
    /\ step = "closing"
    /\ result' = Escalated
    /\ step' = "publish"
    /\ UNCHANGED <<healthVars, workVars, captured, closer, force, waiters>>

Publish ==
    /\ step = "publish"
    /\ step' = "done"
    /\ UNCHANGED <<healthVars, workVars, captured, closer, result, force, waiters>>

RunShutdown ==
    \/ StartDraining \/ Refuse \/ Drained \/ GiveUpDraining("forced")
    \/ GiveUpDraining("canceled") \/ CancelWork \/ Stop \/ Settled \/ GiveUpSettling
    \/ CloseResources \/ ResourcesClosed \/ GiveUpClosing \/ Publish

RuntimeNext ==
    \/ \E w \in Works : Admit(w) \/ Connect(w) \/ Disconnect(w) \/ Release(w)
    \/ \E c \in Waiters : RequestShutdown(c) \/ ReceiveResult(c) \/ AbandonWait(c)
    \/ SignalForce
    \/ RunShutdown
    \/ PoolsClosed
    \/ Observe /\ UNCHANGED <<workVars, ownerVars, force, waiters>>

RuntimeSpec == RuntimeInit /\ [][RuntimeNext]_runtimeVars

\* The owner's goroutine is scheduled and its armed timers fire; a Shutdown
\* call returns when it can.  Nothing is assumed of the admitted work.
RuntimeFairness ==
    /\ WF_runtimeVars(RunShutdown)
    /\ \A c \in Waiters : WF_runtimeVars(ReceiveResult(c))
FairRuntimeSpec == RuntimeSpec /\ RuntimeFairness

-----------------------------------------------------------------------------
(* Properties *)

\* Every variable holds a value the runtime can store.
RuntimeTypeOK ==
    /\ HealthTypeOK
    /\ accepting \in BOOLEAN /\ force \in BOOLEAN
    /\ works \in [Works -> {"new", "active", "canceled", "released"}]
    /\ holding \subseteq Works
    /\ zeroWork \in Works \cup {NoWork} /\ captured \in Works \cup {NoWork}
    /\ closed \subseteq Works \cup {NoWork}
    /\ step \in Steps
    /\ closer \in {"none", "closing", "closed"}
    /\ result \in [outcome : {"graceful", "canceled", "forced"}, initial : Nat,
                   canceled : Nat, resourcesClosed : BOOLEAN]
    /\ waiters \in [Waiters -> {"idle", "waiting", "answered", "abandoned"}]

\* The idle channel is closed exactly when no work is in flight, so it is
\* never closed twice (a panic) and a drain never waits on a channel that an
\* admission has replaced.
ZeroWorkExact ==
    /\ Idle(zeroWork) <=> InFlight = {}
    /\ step \in Steps \ {"serving", "drain", "refuse"} => captured = zeroWork

\* The pools begin to close only when no admitted operation is left that was
\* neither finished nor told to stop.
PoolsCloseAfterWork ==
    closer # "none" => Active = {} /\ ~accepting

\* A shutdown that is not reported as forced left nothing behind.
CleanUnlessForced ==
    step = "done" /\ result.outcome # "forced" =>
        /\ InFlight = {} /\ holding = {}
        /\ result.resourcesClosed /\ closer = "closed"
        /\ state = "stopped"

\* The runtime reports stopped only when its resources are closed, and no
\* step of the shutdown trips the monitor into the failed state.
StoppedMeansClosed ==
    /\ state = "stopped" => closer = "closed" /\ holding = {} /\ result.resourcesClosed
    /\ state # "failed"

\* No work enters after admission closed: what was canceled was there before.
CountsConsistent ==
    /\ result.canceled <= result.initial
    /\ step \in Steps \ {"serving", "drain", "refuse"} =>
          Cardinality(InFlight) <= result.initial

\* A started shutdown ends although work never finishes, connections never
\* come back or its callers left; a caller that stays gets the result.
ShutdownCompletes == step = "drain" ~> step = "done"
WaitersAnswered == \A c \in Waiters : waiters[c] = "waiting" ~> waiters[c] # "waiting"

=============================================================================
