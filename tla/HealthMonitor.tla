---------------------------- MODULE HealthMonitor ----------------------------
(***************************************************************************)
(* internal/runtime/health/implementation.go: the lifecycle state of the   *)
(* runtime and its readiness signal.                                       *)
(*                                                                         *)
(* A readiness check reads the state, asks the database without holding    *)
(* the mutex, and applies the answer later; other checks, transitions and  *)
(* snapshots happen in between.                                            *)
(*                                                                         *)
(* An operator named Wrong... is a mistake this code could have made; it   *)
(* is not part of the specification.                                       *)
(***************************************************************************)
EXTENDS Naturals

CONSTANTS
    Checkers,   \* callers of Readiness
    Threshold   \* failureThreshold

ASSUME ThresholdAssumption == Threshold \in Nat \ {0}

VARIABLES
    state,      \* the runtime state
    readiness,  \* the reason code of the stored readiness signal
    failures,   \* consecutiveFailures, capped at Threshold
    fresh,      \* lastDatabaseSuccess is at most two check intervals old
    checks      \* callers whose database check is in progress

healthVars == <<state, readiness, failures, fresh, checks>>

StartupStates == {"new", "loading", "validating", "connecting", "compatibility"}
States == StartupStates \cup {"ready", "draining", "stopping", "stopped", "failed"}

\* A signal is healthy for these reasons only; "starting" is unknown, the
\* others are unhealthy.
Healthy == {"ready", "grace"}
Reasons == Healthy \cup {"starting", "draining", "stopping", "stopped", "failed",
                         "internal", "stale", "database"}

Allowed(from) ==
    CASE from = "new"           -> {"loading", "failed", "stopped"}
      [] from = "loading"       -> {"validating", "failed", "stopping"}
      [] from = "validating"    -> {"connecting", "failed", "stopping"}
      [] from = "connecting"    -> {"compatibility", "failed", "stopping"}
      [] from = "compatibility" -> {"ready", "failed", "stopping"}
      [] from = "ready"         -> {"draining", "failed", "stopping"}
      [] from = "draining"      -> {"stopping", "stopped"}
      [] from \in {"stopping", "failed"} -> {"stopped"}
      [] from = "stopped"       -> {}

HealthInit ==
    /\ state = "new"
    /\ readiness = "starting"
    /\ failures = 0
    /\ fresh = FALSE
    /\ checks = {}

SignalOf(next) == IF next \in StartupStates THEN "starting" ELSE next

\* An illegal transition is refused and leaves the monitor failed.
Transition(next) ==
    /\ UNCHANGED checks
    /\ \/ next = state /\ UNCHANGED <<state, readiness, failures, fresh>>
       \/ /\ next \notin Allowed(state) \cup {state}
          /\ state' = "failed"
          /\ readiness' = "internal"
          /\ UNCHANGED <<failures, fresh>>
       \/ /\ next \in Allowed(state) /\ next = "ready"
          /\ state' = next
          /\ readiness' = "ready"
          /\ failures' = 0
          /\ fresh' = TRUE
       \/ /\ next \in Allowed(state) /\ next # "ready"
          /\ state' = next
          /\ readiness' = SignalOf(next)
          /\ UNCHANGED <<failures, fresh>>

\* Readiness in another state than ready answers from a snapshot.
BeginCheck(c) ==
    /\ c \notin checks
    /\ state = "ready"
    /\ checks' = checks \cup {c}
    /\ UNCHANGED <<state, readiness, failures, fresh>>

\* The answer is applied only if the monitor is still ready.
CheckSucceeds(c) ==
    /\ c \in checks
    /\ checks' = checks \ {c}
    /\ IF state = "ready"
       THEN readiness' = "ready" /\ failures' = 0 /\ fresh' = TRUE
       ELSE UNCHANGED <<readiness, failures, fresh>>
    /\ UNCHANGED state

WrongGracefulAge(n) == n < Threshold
Graceful(n) == n < Threshold /\ fresh

CheckFails(c) ==
    /\ c \in checks
    /\ checks' = checks \ {c}
    /\ IF state = "ready"
       THEN /\ failures' = IF failures < Threshold THEN failures + 1 ELSE failures
            /\ readiness' = IF Graceful(failures') THEN "grace" ELSE "database"
       ELSE UNCHANGED <<failures, readiness>>
    /\ UNCHANGED <<state, fresh>>

\* The caller's own context ended: nothing is recorded.
CheckCanceled(c) ==
    /\ c \in checks
    /\ checks' = checks \ {c}
    /\ UNCHANGED <<state, readiness, failures, fresh>>

Snapshot ==
    /\ state = "ready" /\ ~fresh
    /\ readiness' = "stale"
    /\ UNCHANGED <<state, failures, fresh, checks>>

\* More than two check intervals pass without a success.
Age ==
    /\ fresh
    /\ fresh' = FALSE
    /\ UNCHANGED <<state, readiness, failures, checks>>

Observe ==
    \/ \E c \in Checkers :
        BeginCheck(c) \/ CheckSucceeds(c) \/ CheckFails(c) \/ CheckCanceled(c)
    \/ Snapshot
    \/ Age

HealthNext == (\E next \in States : Transition(next)) \/ Observe

HealthSpec == HealthInit /\ [][HealthNext]_healthVars

-----------------------------------------------------------------------------
(* Properties *)

\* State, reason and counters are what the code can store.
HealthTypeOK ==
    /\ state \in States
    /\ readiness \in Reasons
    /\ failures \in 0..Threshold
    /\ fresh \in BOOLEAN
    /\ checks \subseteq Checkers

\* Readiness is healthy only in the ready state: a check that was under way
\* when the runtime left it cannot bring readiness back.
HealthyOnlyWhenReady == readiness \in Healthy => state = "ready"

\* Healthy readiness has at most Threshold - 1 failures behind it, and the
\* grace signal at least one.
GraceBounded ==
    /\ readiness \in Healthy => failures < Threshold
    /\ readiness = "grace" => failures > 0

\* Once unhealthy, a ready runtime becomes healthy again only by a check that
\* succeeded, never by a failure that falls back into the grace period.
RecoveryNeedsSuccess ==
    [][state = "ready" /\ state' = "ready"
       /\ readiness \notin Healthy /\ readiness' \in Healthy
       => readiness' = "ready" /\ failures' = 0 /\ fresh']_healthVars
=============================================================================
