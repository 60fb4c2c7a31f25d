---------------------------- MODULE RuntimeProofs ----------------------------
(***************************************************************************)
(* Theorems about HealthMonitor and RuntimeLifecycle for every number of   *)
(* checkers, operations and callers, and every failure threshold, and      *)
(* about RuntimeStartup for every set of requests, every file there may be *)
(* and every number of collections: a start is all or nothing, pools close *)
(* in reverse, collection stops before they do, and every pool is what the *)
(* accepted configuration, and so the operator, says.                      *)
(*                                                                         *)
(* The inductive invariant StartupInv says at which step of Start which    *)
(* pools exist and agree (StartInv), that the pools still open are always  *)
(* the first of them (PoolsInv), and where the collector may be while the  *)
(* shutdown closes what it uses (CollectInv).                              *)
(***************************************************************************)
EXTENDS RuntimeLifecycle, RuntimeStartup, FiniteSetTheorems, SequenceTheorems,
        WellFoundedInduction, TLAPS

-----------------------------------------------------------------------------
(* The health monitor *)

\* A ready runtime whose readiness is not healthy has used up its grace: only
\* a success can give it back.
GraceExhausted ==
    state = "ready" /\ readiness \notin Healthy => ~fresh \/ failures = Threshold

HealthInv == HealthTypeOK /\ HealthyOnlyWhenReady /\ GraceBounded /\ GraceExhausted

LEMMA HealthInitInv == HealthInit => HealthInv
  <1> SUFFICES ASSUME HealthInit PROVE HealthInv
    OBVIOUS
  <1>1. HealthTypeOK
    <2>1. failures \in 0..Threshold
      BY ThresholdAssumption DEF HealthInit
    <2>2. state \in States /\ readiness \in Reasons
      BY DEF HealthInit, States, StartupStates, Reasons
    <2>3. fresh \in BOOLEAN /\ checks \subseteq Checkers
      BY Zenon DEF HealthInit
    <2> QED
      BY <2>1, <2>2, <2>3 DEF HealthTypeOK
  <1>2. HealthyOnlyWhenReady /\ GraceBounded /\ GraceExhausted
    BY DEF HealthInit, HealthyOnlyWhenReady, GraceBounded, GraceExhausted, Healthy
  <1> QED
    BY <1>1, <1>2 DEF HealthInv

\* Transition, and the steps of Observe, as RuntimeLifecycle takes them too.
LEMMA TransitionInv ==
    ASSUME HealthInv, NEW next \in States, Transition(next)
    PROVE  HealthInv'
  <1> USE ThresholdAssumption
      DEF HealthInv, HealthTypeOK, HealthyOnlyWhenReady, GraceBounded, GraceExhausted,
          States, StartupStates, Reasons, Healthy
  <1>1. CASE next = state /\ UNCHANGED healthVars
    BY <1>1 DEF healthVars
  <1>2. CASE state' = "failed" /\ readiness' = "internal" /\ UNCHANGED <<failures, fresh, checks>>
    BY <1>2
  <1>3. CASE state' = "ready" /\ readiness' = "ready" /\ failures' = 0 /\ fresh' = TRUE
             /\ UNCHANGED checks
    BY <1>3
  <1>4. CASE next # "ready" /\ state' = next /\ readiness' = SignalOf(next)
             /\ UNCHANGED <<failures, fresh, checks>>
    BY <1>4 DEF SignalOf
  <1> QED
    BY <1>1, <1>2, <1>3, <1>4 DEF Transition, healthVars

LEMMA ObserveInv ==
    ASSUME HealthInv, Observe
    PROVE  HealthInv'
  <1> USE ThresholdAssumption
      DEF HealthInv, HealthTypeOK, HealthyOnlyWhenReady, GraceBounded, GraceExhausted,
          States, StartupStates, Reasons, Healthy
  <1>1. ASSUME NEW c \in Checkers, BeginCheck(c) PROVE HealthInv'
    BY <1>1 DEF BeginCheck
  <1>2. ASSUME NEW c \in Checkers, CheckSucceeds(c) PROVE HealthInv'
    <2>1. CASE state = "ready"
      <3>1. /\ state' = "ready" /\ readiness' = "ready" /\ failures' = 0 /\ fresh'
            /\ checks' \subseteq Checkers
        BY <1>2, <2>1 DEF CheckSucceeds
      <3>2. fresh' \in BOOLEAN
        BY <1>2, <2>1 DEF CheckSucceeds
      <3> QED
        BY <3>1, <3>2
    <2>2. CASE state # "ready"
      BY <1>2, <2>2 DEF CheckSucceeds
    <2> QED
      BY <2>1, <2>2
  <1>3. ASSUME NEW c \in Checkers, CheckFails(c) PROVE HealthInv'
    BY <1>3 DEF CheckFails, Graceful
  <1>4. ASSUME NEW c \in Checkers, CheckCanceled(c) PROVE HealthInv'
    BY <1>4 DEF CheckCanceled
  <1>5. CASE Snapshot
    BY <1>5 DEF Snapshot
  <1>6. CASE Age
    BY <1>6 DEF Age
  <1> QED
    BY <1>1, <1>2, <1>3, <1>4, <1>5, <1>6 DEF Observe

LEMMA HealthStepInv == HealthInv /\ [HealthNext]_healthVars => HealthInv'
  <1>1. ASSUME HealthInv, UNCHANGED healthVars PROVE HealthInv'
    BY <1>1 DEF healthVars, HealthInv, HealthTypeOK, HealthyOnlyWhenReady, GraceBounded,
                GraceExhausted
  <1> QED
    BY <1>1, TransitionInv, ObserveInv DEF HealthNext

LEMMA AlwaysHealthInv == HealthSpec => []HealthInv
  BY HealthInitInv, HealthStepInv, PTL DEF HealthSpec

\* State, readiness reason and failure count are always what the code can
\* store.
THEOREM HealthTypeCorrect == HealthSpec => []HealthTypeOK
  <1>1. HealthInv => HealthTypeOK
    BY DEF HealthInv
  <1> QED
    BY <1>1, AlwaysHealthInv, PTL

\* A check that was under way when the runtime left the ready state cannot
\* bring healthy readiness back.
THEOREM HealthyReadinessOnlyWhenReady == HealthSpec => []HealthyOnlyWhenReady
  <1>1. HealthInv => HealthyOnlyWhenReady
    BY DEF HealthInv
  <1> QED
    BY <1>1, AlwaysHealthInv, PTL

\* The grace period ends before the failure threshold.
THEOREM GraceAlwaysBounded == HealthSpec => []GraceBounded
  <1>1. HealthInv => GraceBounded
    BY DEF HealthInv
  <1> QED
    BY <1>1, AlwaysHealthInv, PTL

\* A ready runtime that became unhealthy recovers only by a successful check.
THEOREM RecoveryOnlyBySuccess == HealthSpec => RecoveryNeedsSuccess
  <1> DEFINE recovers == state = "ready" /\ state' = "ready"
                         /\ readiness \notin Healthy /\ readiness' \in Healthy
             succeeds == readiness' = "ready" /\ failures' = 0 /\ fresh'
  <1>1. ASSUME HealthInv, HealthNext, recovers PROVE succeeds
    <2> USE <1>1, ThresholdAssumption
        DEF HealthInv, HealthTypeOK, GraceExhausted, Healthy
    <2>1. CASE \E next \in States : Transition(next)
      BY <2>1 DEF Transition
    <2>2. ASSUME NEW c \in Checkers, CheckSucceeds(c) PROVE succeeds
      BY <2>2 DEF CheckSucceeds
    <2>3. ASSUME NEW c \in Checkers, CheckFails(c) PROVE succeeds
      BY <2>3 DEF CheckFails, Graceful
    <2>4. ASSUME NEW c \in Checkers, BeginCheck(c) \/ CheckCanceled(c) PROVE succeeds
      BY <2>4 DEF BeginCheck, CheckCanceled
    <2>5. CASE Snapshot \/ Age
      BY <2>5 DEF Snapshot, Age
    <2> QED
      BY <2>1, <2>2, <2>3, <2>4, <2>5 DEF HealthNext, Observe
  <1>2. HealthInv /\ [HealthNext]_healthVars => [recovers => succeeds]_healthVars
    BY <1>1
  <1> QED
    BY <1>2, AlwaysHealthInv, PTL DEF HealthSpec, RecoveryNeedsSuccess

-----------------------------------------------------------------------------
(* The shutdown owner *)

Admitting == {"serving", "drain", "refuse"}
Told == {"stop", "await", "close", "closing", "publish", "done"}
Resolved == {"close", "closing", "publish", "done"}
Ending == {"publish", "done"}

\* Where the owner is decides the lifecycle state, admission and the pools.
OwnerInv ==
    /\ accepting => step \in Admitting
    /\ step \in {"serving", "drain"} => state = "ready"
    /\ step \in {"refuse", "wait", "cancel", "stop"} => state = "draining"
    /\ step \in {"await", "close", "closing"} => state = "stopping"
    /\ step \in Ending => \/ state = "stopped" /\ closer = "closed" /\ result.resourcesClosed
                          \/ state = "stopping" /\ result.outcome = "forced"
    /\ step \notin Ending \cup {"closing"} => closer = "none"

\* What the owner may rely on about the admitted work.
WorkInv ==
    /\ holding \subseteq InFlight
    /\ closer = "closed" => holding = {}
    /\ zeroWork # NoWork => works[zeroWork] # "new"
    /\ \A w \in closed \cap Works : works[w] # "new"
    /\ step \in Told => Active = {}

\* What the owner has counted and concluded is still true of the work.
ResultInv ==
    /\ step \notin Told => result.canceled = 0
    /\ step \notin Admitting => Cardinality(InFlight) <= result.initial
    /\ result.canceled <= result.initial
    /\ step = "stop" /\ result.canceled = 0 => InFlight = {}
    /\ step \in Resolved /\ result.outcome # "forced" => InFlight = {}

RuntimeInv ==
    /\ RuntimeTypeOK
    /\ HealthInv
    /\ OwnerInv
    /\ WorkInv
    /\ ZeroWorkExact
    /\ ResultInv

\* The steps that leave the owner where it is and change no shared result.
Caller ==
    \/ \E c \in Waiters : ReceiveResult(c) \/ AbandonWait(c)
    \/ SignalForce
Worker == \E w \in Works : Admit(w) \/ Connect(w) \/ Disconnect(w) \/ Release(w)
Watcher == Observe /\ UNCHANGED <<workVars, ownerVars, force, waiters>>

LEMMA InFlightFinite ==
    ASSUME NEW S \in SUBSET Works
    PROVE  /\ IsFiniteSet(S) /\ Cardinality(S) \in Nat
           /\ Cardinality(S) = 0 <=> S = {}
           /\ \A T \in SUBSET S : Cardinality(T) <= Cardinality(S)
  BY WorksAssumption, FS_Subset, FS_CardinalityType, FS_EmptySet

LEMMA RuntimeInitInv == RuntimeInit => RuntimeInv
  <1> SUFFICES ASSUME RuntimeInit PROVE RuntimeInv
    OBVIOUS
  <1>1. HealthInv
    <2>1. failures \in 0..Threshold
      BY ThresholdAssumption DEF RuntimeInit
    <2>2. state \in States /\ readiness \in Reasons
      BY DEF RuntimeInit, States, Reasons, Healthy
    <2>3. fresh \in BOOLEAN /\ checks \subseteq Checkers
      BY Zenon DEF RuntimeInit
    <2>4. HealthyOnlyWhenReady /\ GraceBounded /\ GraceExhausted
      BY ThresholdAssumption
         DEF RuntimeInit, HealthyOnlyWhenReady, GraceBounded, GraceExhausted, Healthy
    <2> QED
      BY <2>1, <2>2, <2>3, <2>4 DEF HealthInv, HealthTypeOK
  <1>2. InFlight = {} /\ Active = {}
    BY DEF RuntimeInit, InFlight, Active
  <1>3. RuntimeTypeOK
    <2>1. accepting \in BOOLEAN /\ force \in BOOLEAN
      BY Zenon DEF RuntimeInit
    <2>2. result \in [outcome : {"graceful", "canceled", "forced"}, initial : Nat,
                      canceled : Nat, resourcesClosed : BOOLEAN]
      BY DEF RuntimeInit
    <2> QED
      BY <1>1, <2>1, <2>2 DEF RuntimeInit, RuntimeTypeOK, HealthInv, Steps
  <1>4. OwnerInv
    BY DEF RuntimeInit, OwnerInv, Admitting, Ending
  <1>5. WorkInv
    BY <1>2, WorksAssumption DEF RuntimeInit, WorkInv, Told
  <1>6. ZeroWorkExact
    BY <1>2 DEF RuntimeInit, ZeroWorkExact, Idle
  <1>7. ResultInv
    BY <1>2, InFlightFinite DEF RuntimeInit, ResultInv, Told, Admitting, Resolved
  <1> QED
    BY <1>1, <1>3, <1>4, <1>5, <1>6, <1>7 DEF RuntimeInv

LEMMA WorkerFrame ==
    ASSUME Worker
    PROVE  UNCHANGED <<accepting, healthVars, ownerVars, force, waiters>>
  <1>1. PICK w \in Works : Admit(w) \/ Connect(w) \/ Disconnect(w) \/ Release(w)
    BY DEF Worker
  <1> QED
    BY <1>1 DEF Admit, Connect, Disconnect, Release

LEMMA CallerFrame ==
    ASSUME Caller
    PROVE  UNCHANGED <<healthVars, workVars, ownerVars>>
  BY DEF Caller, ReceiveResult, AbandonWait, SignalForce

LEMMA RuntimeStepHealth ==
    ASSUME HealthInv, [RuntimeNext]_runtimeVars
    PROVE  HealthInv'
  <1>1. ASSUME UNCHANGED healthVars PROVE HealthInv'
    BY <1>1 DEF healthVars, HealthInv, HealthTypeOK, HealthyOnlyWhenReady, GraceBounded,
                GraceExhausted
  <1>2. CASE StartDraining \/ Stop \/ ResourcesClosed
    BY <1>2, TransitionInv DEF StartDraining, Stop, ResourcesClosed, States
  <1>3. CASE Watcher
    BY <1>3, ObserveInv DEF Watcher
  <1>4. CASE Worker \/ Caller \/ PoolsClosed \/ \E c \in Waiters : RequestShutdown(c)
    BY <1>1, <1>4, WorkerFrame, CallerFrame DEF PoolsClosed, RequestShutdown
  <1>5. CASE Refuse \/ Drained \/ GiveUpDraining("forced") \/ GiveUpDraining("canceled")
             \/ CancelWork \/ Settled \/ GiveUpSettling \/ CloseResources \/ GiveUpClosing
             \/ Publish
    BY <1>1, <1>5 DEF Refuse, Drained, GiveUpDraining, CancelWork, Settled, GiveUpSettling,
       CloseResources, GiveUpClosing, Publish
  <1>6. CASE UNCHANGED runtimeVars
    BY <1>1, <1>6 DEF runtimeVars
  <1> QED
    BY <1>2, <1>3, <1>4, <1>5, <1>6
       DEF RuntimeNext, RunShutdown, Worker, Caller, Watcher

\* The owner's transitions are always the legal ones.
LEMMA OwnerTransition ==
    /\ state = "ready" /\ Transition("draining") => state' = "draining"
    /\ state = "draining" /\ Transition("stopping") => state' = "stopping"
    /\ state = "stopping" /\ Transition("stopped") => state' = "stopped"
  BY DEF Transition, Allowed, SignalOf, StartupStates

LEMMA WatcherKeepsState ==
    ASSUME Watcher
    PROVE  UNCHANGED <<state, workVars, ownerVars, force, waiters>>
  BY DEF Watcher, Observe, BeginCheck, CheckSucceeds, CheckFails, CheckCanceled, Snapshot, Age

\* The actions of the owner that move step or result, and the other actions
\* that this invariant can see.
LEMMA RuntimeStepOwner ==
    ASSUME RuntimeTypeOK, OwnerInv, [RuntimeNext]_runtimeVars
    PROVE  OwnerInv'
  <1> USE DEF OwnerInv, Admitting, Ending
  <1>1. ASSUME UNCHANGED <<accepting, state, step, closer, result>> PROVE OwnerInv'
    BY <1>1
  <1>2. CASE Worker \/ Caller \/ Watcher \/ UNCHANGED runtimeVars
    BY <1>1, <1>2, WorkerFrame, CallerFrame, WatcherKeepsState
       DEF runtimeVars, healthVars, workVars, ownerVars
  <1>3. ASSUME NEW c \in Waiters, RequestShutdown(c) PROVE OwnerInv'
    BY <1>3 DEF RequestShutdown, healthVars, workVars
  <1>4. CASE PoolsClosed
    BY <1>4 DEF PoolsClosed, healthVars, workVars
  <1>5. CASE StartDraining
    BY <1>5, OwnerTransition DEF StartDraining, workVars
  <1>6. CASE Refuse
    BY <1>6 DEF Refuse, healthVars
  <1>7. CASE Drained \/ Settled
    BY <1>7 DEF Drained, Settled, healthVars, workVars
  <1>8. CASE GiveUpDraining("forced") \/ GiveUpDraining("canceled")
    BY <1>8 DEF GiveUpDraining, healthVars, workVars
  <1>9. CASE CancelWork
    BY <1>9 DEF CancelWork, healthVars
  <1>10. CASE Stop
    BY <1>10, OwnerTransition DEF Stop, workVars
  <1>11. CASE GiveUpSettling
    BY <1>11 DEF GiveUpSettling, Escalated, healthVars, workVars
  <1>12. CASE CloseResources
    BY <1>12 DEF CloseResources, healthVars, workVars
  <1>13. CASE ResourcesClosed
    BY <1>13, OwnerTransition DEF ResourcesClosed, RuntimeTypeOK, workVars
  <1>14. CASE GiveUpClosing
    BY <1>14 DEF GiveUpClosing, Escalated, RuntimeTypeOK, healthVars, workVars
  <1>15. CASE Publish
    BY <1>15 DEF Publish, healthVars, workVars
  <1> QED
    BY <1>2, <1>3, <1>4, <1>5, <1>6, <1>7, <1>8, <1>9, <1>10, <1>11, <1>12, <1>13, <1>14,
       <1>15 DEF RuntimeNext, RunShutdown, Worker, Caller, Watcher

LEMMA RuntimeStepType ==
    ASSUME RuntimeTypeOK, HealthTypeOK', [RuntimeNext]_runtimeVars
    PROVE  RuntimeTypeOK'
  <1> USE DEF RuntimeTypeOK
  <1>0. Cardinality(InFlight) \in Nat
    BY InFlightFinite DEF InFlight
  <1>1. ASSUME NEW w \in Works, Admit(w) PROVE RuntimeTypeOK'
    BY <1>1 DEF Admit, IdleChannel, healthVars, ownerVars
  <1>2. ASSUME NEW w \in Works, Connect(w) \/ Disconnect(w) PROVE RuntimeTypeOK'
    BY <1>2 DEF Connect, Disconnect, healthVars, ownerVars
  <1>3. ASSUME NEW w \in Works, Release(w) PROVE RuntimeTypeOK'
    BY <1>3 DEF Release, healthVars, ownerVars
  <1>4. ASSUME NEW c \in Waiters, RequestShutdown(c) \/ ReceiveResult(c) \/ AbandonWait(c)
        PROVE RuntimeTypeOK'
    BY <1>4 DEF RequestShutdown, ReceiveResult, AbandonWait, Steps, healthVars, ownerVars,
       workVars
  <1>5. CASE SignalForce
    <2>1. force' \in BOOLEAN
      BY <1>5 DEF SignalForce
    <2>2. UNCHANGED <<healthVars, ownerVars, workVars, waiters>>
      BY <1>5 DEF SignalForce
    <2> QED
      BY <2>1, <2>2 DEF ownerVars, workVars
  <1>6. CASE Watcher \/ UNCHANGED runtimeVars
    BY <1>6 DEF Watcher, runtimeVars, workVars, ownerVars
  <1>7. CASE PoolsClosed
    BY <1>7 DEF PoolsClosed, workVars
  <1>8. CASE Refuse
    BY <1>0, <1>8 DEF Refuse, Steps
  <1>9. CASE CancelWork
    BY <1>0, <1>9 DEF CancelWork, AfterCancel, CanceledCount, Steps
  <1>10. CASE StartDraining \/ Drained \/ Stop \/ Settled \/ CloseResources \/ Publish
    BY <1>10 DEF StartDraining, Drained, Stop, Settled, CloseResources, Publish, Steps, workVars
  <1>11. CASE GiveUpDraining("forced") \/ GiveUpDraining("canceled")
    BY <1>11 DEF GiveUpDraining, Steps, workVars
  <1>12. CASE GiveUpSettling \/ GiveUpClosing
    BY <1>12 DEF GiveUpSettling, GiveUpClosing, Escalated, Steps, workVars
  <1>13. CASE ResourcesClosed
    BY <1>13 DEF ResourcesClosed, Steps, workVars
  <1> QED
    BY <1>1, <1>2, <1>3, <1>4, <1>5, <1>6, <1>7, <1>8, <1>9, <1>10, <1>11, <1>12, <1>13
       DEF RuntimeNext, RunShutdown, Watcher

LEMMA RuntimeStepWork ==
    ASSUME RuntimeTypeOK, OwnerInv, WorkInv, ZeroWorkExact, ResultInv,
           [RuntimeNext]_runtimeVars
    PROVE  WorkInv'
  <1> USE DEF RuntimeTypeOK, WorkInv, InFlight, Active, Told
  <1>1. ASSUME UNCHANGED <<works, holding, zeroWork, closed, closer>>,
               step' \in Told => step \in Told
        PROVE WorkInv'
    BY <1>1
  <1>2. CASE Caller \/ Watcher \/ UNCHANGED runtimeVars
    BY <1>1, <1>2, CallerFrame, WatcherKeepsState DEF runtimeVars, workVars, ownerVars
  <1>3. ASSUME NEW w \in Works, Admit(w) PROVE WorkInv'
    BY <1>3, WorksAssumption DEF Admit, IdleChannel, OwnerInv, Admitting, ownerVars
  <1>4. ASSUME NEW w \in Works, Connect(w) PROVE WorkInv'
    BY <1>4 DEF Connect, ownerVars
  <1>5. ASSUME NEW w \in Works, Disconnect(w) PROVE WorkInv'
    BY <1>5 DEF Disconnect, ownerVars
  <1>6. ASSUME NEW w \in Works, Release(w) PROVE WorkInv'
    BY <1>6, WorksAssumption DEF Release, ownerVars
  <1>7. ASSUME NEW c \in Waiters, RequestShutdown(c) PROVE WorkInv'
    BY <1>1, <1>7 DEF RequestShutdown, workVars
  <1>8. CASE PoolsClosed
    BY <1>8 DEF PoolsClosed, workVars
  <1>9. CASE CancelWork
    BY <1>9 DEF CancelWork, AfterCancel
  <1>10. CASE Drained
    BY <1>10 DEF Drained, ZeroWorkExact, Idle, Steps, workVars
  <1>11. CASE CloseResources
    BY <1>11 DEF CloseResources, workVars
  <1>12. CASE Refuse
    BY <1>1, <1>12 DEF Refuse
  <1>13. CASE StartDraining \/ GiveUpDraining("forced") \/ GiveUpDraining("canceled")
              \/ Stop \/ Settled \/ GiveUpSettling \/ ResourcesClosed \/ GiveUpClosing
              \/ Publish
    BY <1>1, <1>13 DEF StartDraining, GiveUpDraining, Stop, Settled, GiveUpSettling,
       ResourcesClosed, GiveUpClosing, Publish, workVars
  <1> QED
    BY <1>2, <1>3, <1>4, <1>5, <1>6, <1>7, <1>8, <1>9, <1>10, <1>11, <1>12, <1>13
       DEF RuntimeNext, RunShutdown, Caller, Watcher

LEMMA RuntimeStepZero ==
    ASSUME RuntimeTypeOK, OwnerInv, WorkInv, ZeroWorkExact, [RuntimeNext]_runtimeVars
    PROVE  ZeroWorkExact'
  <1> USE DEF RuntimeTypeOK, ZeroWorkExact, Idle, InFlight, Steps
  <1>1. ASSUME UNCHANGED <<works, zeroWork, closed>>,
               captured' \in {captured, zeroWork},
               step' \in {"serving", "drain", "refuse"} \/ captured' = zeroWork
                 \/ step \notin {"serving", "drain", "refuse"}
        PROVE ZeroWorkExact'
    BY <1>1
  <1>2. CASE Caller \/ Watcher \/ UNCHANGED runtimeVars
    BY <1>2, CallerFrame, WatcherKeepsState DEF runtimeVars, workVars, ownerVars
  <1>3. ASSUME NEW w \in Works, Admit(w) PROVE ZeroWorkExact'
    BY <1>3, WorksAssumption DEF Admit, IdleChannel, OwnerInv, WorkInv, Admitting, ownerVars
  <1>4. ASSUME NEW w \in Works, Connect(w) \/ Disconnect(w) PROVE ZeroWorkExact'
    BY <1>4 DEF Connect, Disconnect, ownerVars
  <1>5. ASSUME NEW w \in Works, Release(w) PROVE ZeroWorkExact'
    BY <1>5 DEF Release, ownerVars
  <1>6. ASSUME NEW c \in Waiters, RequestShutdown(c) PROVE ZeroWorkExact'
    BY <1>6 DEF RequestShutdown, workVars
  <1>7. CASE CancelWork
    <2>1. InFlight' = InFlight
      BY <1>7 DEF CancelWork, AfterCancel
    <2> QED
      BY <1>7, <2>1 DEF CancelWork
  <1>8. CASE Refuse
    BY <1>1, <1>8 DEF Refuse
  <1>9. CASE Stop
    BY <1>1, <1>9 DEF Stop, workVars
  <1>10. CASE PoolsClosed \/ StartDraining
    BY <1>1, <1>10 DEF PoolsClosed, StartDraining, workVars
  <1>11. CASE Drained \/ GiveUpDraining("forced") \/ GiveUpDraining("canceled")
              \/ Settled \/ GiveUpSettling \/ CloseResources \/ ResourcesClosed
              \/ GiveUpClosing \/ Publish
    BY <1>1, <1>11 DEF Drained, GiveUpDraining, Settled, GiveUpSettling, CloseResources,
       ResourcesClosed, GiveUpClosing, Publish, workVars
  <1> QED
    BY <1>2, <1>3, <1>4, <1>5, <1>6, <1>7, <1>8, <1>9, <1>10, <1>11
       DEF RuntimeNext, RunShutdown, Caller, Watcher

LEMMA RuntimeStepResult ==
    ASSUME RuntimeTypeOK, OwnerInv, WorkInv, ZeroWorkExact, ResultInv,
           [RuntimeNext]_runtimeVars
    PROVE  ResultInv'
  <1> USE DEF RuntimeTypeOK, ResultInv, Told, Admitting, Resolved
  <1>0. /\ InFlight \in SUBSET Works
        /\ Cardinality(InFlight) \in Nat
        /\ Cardinality(InFlight) = 0 <=> InFlight = {}
    BY InFlightFinite DEF InFlight
  \* Work only leaves once admission has closed.
  <1>1. ASSUME InFlight' \subseteq InFlight, UNCHANGED <<step, result>>
        PROVE  ResultInv'
    <2>1. Cardinality(InFlight') \in Nat /\ Cardinality(InFlight') <= Cardinality(InFlight)
      BY <1>0, <1>1, InFlightFinite
    <2> QED
      BY <1>0, <1>1, <2>1
  <1>2. CASE Caller \/ Watcher \/ UNCHANGED runtimeVars
    <2>1. UNCHANGED <<works, step, result>>
      BY <1>2, CallerFrame, WatcherKeepsState DEF runtimeVars, workVars, ownerVars
    <2> QED
      BY <1>1, <2>1 DEF InFlight
  <1>3. ASSUME NEW w \in Works, Admit(w) PROVE ResultInv'
    BY <1>3 DEF Admit, OwnerInv, ownerVars
  <1>4. ASSUME NEW w \in Works, Connect(w) \/ Disconnect(w) \/ Release(w) PROVE ResultInv'
    <2>1. InFlight' \subseteq InFlight /\ UNCHANGED <<step, result>>
      BY <1>4 DEF Connect, Disconnect, Release, InFlight, ownerVars
    <2> QED
      BY <1>1, <2>1
  <1>5. ASSUME NEW c \in Waiters, RequestShutdown(c) PROVE ResultInv'
    <2>1. InFlight' = InFlight
      BY <1>5 DEF RequestShutdown, workVars, InFlight
    <2> QED
      BY <1>5, <2>1 DEF RequestShutdown
  <1>6. CASE CancelWork
    <2>1. InFlight' = InFlight
      BY <1>6 DEF CancelWork, AfterCancel, InFlight
    <2> QED
      BY <1>0, <1>6, <2>1 DEF CancelWork, CanceledCount
  <1>7. CASE Refuse
    <2>1. InFlight' = InFlight
      BY <1>7 DEF Refuse, InFlight
    <2> QED
      BY <1>0, <1>7, <2>1 DEF Refuse
  <1>8. ASSUME UNCHANGED works PROVE InFlight' = InFlight
    BY <1>8 DEF InFlight
  <1>9. CASE Drained \/ Settled
    <2>1. InFlight' = InFlight /\ InFlight = {}
      BY <1>8, <1>9 DEF Drained, Settled, ZeroWorkExact, Idle, Steps, workVars
    <2> QED
      BY <1>0, <1>9, <2>1 DEF Drained, Settled
  <1>10. CASE Stop
    BY <1>0, <1>8, <1>10 DEF Stop, workVars
  <1>11. CASE PoolsClosed \/ StartDraining \/ CloseResources \/ ResourcesClosed \/ Publish
    BY <1>0, <1>8, <1>11 DEF PoolsClosed, StartDraining, CloseResources, ResourcesClosed,
       Publish, workVars
  <1>12. CASE GiveUpDraining("forced") \/ GiveUpDraining("canceled")
    BY <1>0, <1>8, <1>12 DEF GiveUpDraining, workVars
  <1>13. CASE GiveUpSettling \/ GiveUpClosing
    BY <1>0, <1>8, <1>13 DEF GiveUpSettling, GiveUpClosing, Escalated, workVars
  <1> QED
    BY <1>2, <1>3, <1>4, <1>5, <1>6, <1>7, <1>9, <1>10, <1>11, <1>12, <1>13
       DEF RuntimeNext, RunShutdown, Caller, Watcher

LEMMA AlwaysRuntimeInv == RuntimeSpec => []RuntimeInv
  <1>1. ASSUME RuntimeInv, [RuntimeNext]_runtimeVars PROVE RuntimeInv'
    <2>1. HealthInv'
      BY <1>1, RuntimeStepHealth DEF RuntimeInv
    <2>2. RuntimeTypeOK'
      BY <1>1, <2>1, RuntimeStepType DEF RuntimeInv, HealthInv
    <2> QED
      BY <1>1, <2>1, <2>2, RuntimeStepOwner, RuntimeStepWork, RuntimeStepZero,
         RuntimeStepResult DEF RuntimeInv
  <1> QED
    BY <1>1, RuntimeInitInv, PTL DEF RuntimeSpec

\* Every variable of the runtime holds a value the code can store.
THEOREM RuntimeTypeCorrect == RuntimeSpec => []RuntimeTypeOK
  <1>1. RuntimeInv => RuntimeTypeOK
    BY DEF RuntimeInv
  <1> QED
    BY <1>1, AlwaysRuntimeInv, PTL

\* The idle channel is closed exactly while no work is in flight, and a
\* shutdown waits on the current one.
THEOREM ZeroWorkAlwaysExact == RuntimeSpec => []ZeroWorkExact
  <1>1. RuntimeInv => ZeroWorkExact
    BY DEF RuntimeInv
  <1> QED
    BY <1>1, AlwaysRuntimeInv, PTL

\* The pools never begin to close under work that was neither finished nor
\* told to stop.
THEOREM PoolsAlwaysCloseAfterWork == RuntimeSpec => []PoolsCloseAfterWork
  <1>1. RuntimeInv => PoolsCloseAfterWork
    BY DEF RuntimeInv, RuntimeTypeOK, OwnerInv, WorkInv, PoolsCloseAfterWork, Ending, Told,
           Admitting
  <1> QED
    BY <1>1, AlwaysRuntimeInv, PTL

\* A shutdown that is not reported as forced left nothing behind.
THEOREM AlwaysCleanUnlessForced == RuntimeSpec => []CleanUnlessForced
  <1>1. RuntimeInv => CleanUnlessForced
    BY DEF RuntimeInv, OwnerInv, WorkInv, ResultInv, CleanUnlessForced, Ending, Resolved
  <1> QED
    BY <1>1, AlwaysRuntimeInv, PTL

\* The runtime reports stopped only with its resources closed, and a shutdown
\* never trips the monitor into the failed state.
THEOREM StoppedAlwaysMeansClosed == RuntimeSpec => []StoppedMeansClosed
  <1>1. RuntimeInv => StoppedMeansClosed
    BY DEF RuntimeInv, RuntimeTypeOK, OwnerInv, WorkInv, StoppedMeansClosed, Ending, Steps
  <1> QED
    BY <1>1, AlwaysRuntimeInv, PTL

\* What was canceled, and what is left, was admitted before admission closed.
THEOREM CountsAlwaysConsistent == RuntimeSpec => []CountsConsistent
  <1>1. RuntimeInv => CountsConsistent
    BY DEF RuntimeInv, ResultInv, CountsConsistent, Admitting
  <1> QED
    BY <1>1, AlwaysRuntimeInv, PTL

-----------------------------------------------------------------------------
(* Pools as they are made *)

Configurations == UNION {Loaded[r] : r \in Requests}

\* The pool i of the configuration c, with its proof, open or closed.
Made(c, i, p, o) ==
    [plan |-> c.pools[i].plan, host |-> c.pools[i].host, user |-> c.pools[i].user,
     connections |-> c.pools[i].connections, certificate |-> c.pools[i].certificate,
     proof |-> p, open |-> o]

Proofs == Revisions \cup {"none"}
PoolsOf(c) == {Made(c, i, p, o) : i \in Nat, p \in Proofs, o \in BOOLEAN}

LEMMA MadeFields ==
    ASSUME NEW c, NEW i, NEW p, NEW o
    PROVE  /\ Made(c, i, p, o).proof = p
           /\ Made(c, i, p, o).open = o
  BY DEF Made

LEMMA MadeVerified ==
    ASSUME NEW c, NEW i, NEW p, NEW o, NEW q, NEW pool, pool = Made(c, i, p, o)
    PROVE  [pool EXCEPT !.proof = q] = Made(c, i, q, o)
  BY DEF Made

LEMMA MadeClosed ==
    ASSUME NEW c, NEW i, NEW p, NEW o, NEW pool, pool = Made(c, i, p, o)
    PROVE  [pool EXCEPT !.open = FALSE] = Made(c, i, p, FALSE)
  <1>1. PICK f : f = FALSE
    OBVIOUS
  <1>2. [pool EXCEPT !.open = f] = Made(c, i, p, f)
    BY DEF Made
  <1> QED
    BY <1>1, <1>2, Zenon

LEMMA MadeInPools ==
    ASSUME NEW c, NEW i \in Nat, NEW p \in Proofs, NEW o \in BOOLEAN
    PROVE  Made(c, i, p, o) \in PoolsOf(c)
  <1>1. \E j \in Nat, q \in Proofs, r \in BOOLEAN : Made(c, i, p, o) = Made(c, j, q, r)
    BY Zenon
  <1> QED
    BY <1>1 DEF PoolsOf

\* A configuration lists one pool, or three.
LEMMA PlanLength ==
    ASSUME NEW c \in Configurations
    PROVE  /\ Len(c.pools) \in {1, 3}
           /\ DOMAIN c.pools = 1..Len(c.pools)
  <1>1. PICK v : c = Configured(v)
    BY DEF Configurations, Loaded
  <1>2. c.pools = [i \in DOMAIN PlanOf(v.profile) |-> Opened(v, PlanOf(v.profile)[i])]
    BY <1>1 DEF Configured
  <1>3. PICK n \in {1, 3} : DOMAIN PlanOf(v.profile) = 1..n
    BY DEF PlanOf, Roles
  <1>4. DOMAIN c.pools = 1..n
    BY <1>2, <1>3
  <1>5. c.pools \in Seq({Opened(v, PlanOf(v.profile)[i]) : i \in 1..n})
    BY <1>2, <1>3
  <1>6. Len(c.pools) \in Nat /\ DOMAIN c.pools = 1..Len(c.pools)
    BY <1>5, LenProperties, Zenon
  <1>7. n \in 1..Len(c.pools) /\ (Len(c.pools) # 0 => Len(c.pools) \in 1..n)
    BY <1>4, <1>6
  <1>8. Len(c.pools) = n
    BY <1>6, <1>7
  <1> QED
    BY <1>6, <1>8

-----------------------------------------------------------------------------
(* The inductive invariant *)

StartSteps == {"load", "observe", "pools", "verify", "collect", "unwind", "ready", "failed"}
CollectorSteps == {"none", "scheduled", "due", "exporting", "waiting", "ended", "panicked"}
ReleaserSteps == {"none", "stop", "stopping", "pools", "closed"}
OwnerSteps == {"serving", "closing", "observer", "awaiting", "done"}
Kinds == {"absent", "injected", "metrics", "events"}

StartType == [pc : StartSteps, ended : BOOLEAN]
ObserverType ==
    [kind : Kinds, opened : BOOLEAN, started : BOOLEAN, cancel : BOOLEAN, done : BOOLEAN,
     canceled : BOOLEAN, finished : BOOLEAN, closed : BOOLEAN, timedOut : BOOLEAN]
CollectorType == [pc : CollectorSteps, channel : BOOLEAN, using : BOOLEAN, exports : Nat]

StartupTypeOK ==
    /\ request \in Requests /\ config = Loaded[request]
    /\ start \in StartType /\ observer \in ObserverType /\ collector \in CollectorType
    /\ releaser \in ReleaserSteps /\ owner \in OwnerSteps

\* Every pool is one the configuration plans, and those still open are the
\* first of them.
PoolsInv ==
    /\ pools \in Seq(PoolsOf(Configuration))
    /\ pools # <<>> => config # {} /\ Len(pools) <= Len(Configuration.pools)
    /\ \A i \in DOMAIN pools :
          \E p \in Proofs, o \in BOOLEAN : pools[i] = Made(Configuration, i, p, o)
    /\ \E k \in 0..Len(pools) : PoolsOpen = 1..k

Agree(n) == \A i, j \in 1..n : pools[i].proof = pools[j].proof /\ pools[i].proof # "none"

\* What Start made, verified and may have to give back, at each of its steps.
StartInv ==
    /\ start.pc \in {"load", "observe"} => pools = <<>> /\ ~observer.opened
    /\ start.pc \in StartSteps \ {"load", "failed"} => config # {}
    /\ start.pc = "pools" => Agree(Len(pools))
    /\ start.pc = "verify" => Len(pools) > 0 /\ Agree(Len(pools) - 1)
    /\ start.pc \in {"collect", "ready"} =>
          Agree(Len(pools)) /\ Len(pools) = Len(Configuration.pools)
    /\ start.pc \in StartSteps \ {"unwind", "ready", "failed"} => PoolsOpen = DOMAIN pools
    /\ start.pc = "failed" => PoolsOpen = {} /\ (observer.opened => observer.closed)
    /\ start.pc # "ready" =>
          /\ collector.pc = "none" /\ owner = "serving" /\ releaser = "none"
          /\ ~observer.started /\ ~observer.canceled

\* Nothing collects, unless a timer of the shutdown has expired.
Stopped == observer.timedOut \/ collector.pc \in {"none", "ended"}

\* The collector is stopped by whoever takes the function that cancels it, and
\* the others find it taken: both ways it has ended before a pool closes.
CollectInv ==
    /\ collector.pc # "none" => observer.kind = "metrics" /\ observer.started
    /\ collector.pc # "none" => observer.cancel \/ observer.canceled
    /\ observer.finished => collector.pc = "ended"
    /\ owner = "serving" => releaser = "none"
    /\ start.pc = "ready" /\ releaser \in {"none", "stop", "stopping"} => PoolsOpen = DOMAIN pools
    /\ releaser \in {"none", "stop"} /\ observer.canceled => observer.timedOut
    /\ releaser \in {"pools", "closed"} => Stopped
    /\ owner \in {"observer", "awaiting", "done"} => observer.timedOut \/ releaser = "closed"
    /\ start.pc \notin {"unwind", "failed"} /\ observer.closed => owner = "done"

StartupInv == StartupTypeOK /\ PoolsInv /\ StartInv /\ CollectInv

LEMMA StartupInitInv == StartupInit => StartupInv
  <1> SUFFICES ASSUME StartupInit PROVE StartupInv
    OBVIOUS
  <1> USE DEF StartupInit
  <1>1. StartupTypeOK
    <2>1. PICK injected \in Injected :
        observer = [kind |-> IF injected THEN "injected" ELSE "absent", opened |-> FALSE,
                    started |-> FALSE, cancel |-> FALSE, done |-> FALSE, canceled |-> FALSE,
                    finished |-> FALSE, closed |-> FALSE, timedOut |-> FALSE]
      OBVIOUS
    <2> QED
      BY <2>1 DEF StartupTypeOK, StartType, ObserverType, CollectorType, StartSteps, Kinds,
                  CollectorSteps, ReleaserSteps, OwnerSteps
  <1>2. PoolsInv
    BY DEF PoolsInv, PoolsOpen
  <1>3. StartInv
    BY DEF StartInv, StartSteps, PoolsOpen
  <1>4. CollectInv
    BY DEF CollectInv, Stopped
  <1> QED
    BY <1>1, <1>2, <1>3, <1>4 DEF StartupInv

-----------------------------------------------------------------------------
(* Pools are made in order and closed in reverse *)

LEMMA ConfigurationMade ==
    ASSUME StartupTypeOK, config # {}
    PROVE  Configuration \in Configurations
  BY DEF StartupTypeOK, Configuration, Configurations

LEMMA PoolsFacts ==
    ASSUME PoolsInv
    PROVE  /\ Len(pools) \in Nat /\ DOMAIN pools = 1..Len(pools)
           /\ PoolsOpen \subseteq DOMAIN pools
           /\ pools = <<>> <=> Len(pools) = 0
  BY DEF PoolsInv, PoolsOpen

\* Closing the last open pool closes that one alone, and opens none.
LEMMA CloseLastCloses ==
    ASSUME PoolsInv, PoolsOpen # {}, CloseLast, UNCHANGED config
    PROVE  /\ PoolsInv'
           /\ Len(pools') = Len(pools) /\ DOMAIN pools' = DOMAIN pools
           /\ \A i \in DOMAIN pools : pools'[i].proof = pools[i].proof
           /\ \E k \in 1..Len(pools) : PoolsOpen = 1..k /\ PoolsOpen' = 1..(k - 1)
  <1>1. PICK c : c = Configuration
    OBVIOUS
  <1>2. c = Configuration'
    BY <1>1 DEF Configuration
  <1>3. PICK k \in 0..Len(pools) : PoolsOpen = 1..k
    BY DEF PoolsInv
  <1>4. Len(pools) \in Nat /\ DOMAIN pools = 1..Len(pools) /\ k \in 1..Len(pools)
    BY <1>3, PoolsFacts
  <1>5. LastOpen = k
    BY <1>3, <1>4 DEF LastOpen
  <1>6. PICK p \in Proofs, o \in BOOLEAN : pools[k] = Made(c, k, p, o)
    BY <1>1, <1>4 DEF PoolsInv
  <1>7. pools' = [pools EXCEPT ![k] = Made(c, k, p, FALSE)]
    <2>1. pools' = [pools EXCEPT ![k] = [pools[k] EXCEPT !.open = FALSE]]
      BY <1>5 DEF CloseLast
    <2>2. [pools[k] EXCEPT !.open = FALSE] = Made(c, k, p, FALSE)
      BY <1>6, MadeClosed, Zenon
    <2> QED
      BY <2>1, <2>2
  <1>8. Made(c, k, p, FALSE) \in PoolsOf(c)
    <2>1. k \in Nat
      BY <1>4
    <2> QED
      BY <1>6, <2>1, MadeInPools, Zenon
  <1>9. pools' \in Seq(PoolsOf(c)) /\ Len(pools') = Len(pools) /\ DOMAIN pools' = DOMAIN pools
    <2>1. pools \in Seq(PoolsOf(c))
      BY <1>1, Zenon DEF PoolsInv
    <2> QED
      BY <1>4, <1>7, <1>8, <2>1, ExceptSeq
  <1>10. /\ pools'[k] = Made(c, k, p, FALSE)
         /\ \A i \in DOMAIN pools : i # k => pools'[i] = pools[i]
    BY <1>4, <1>7
  <1>11. ~pools'[k].open /\ pools'[k].proof = p /\ pools[k].proof = p
    BY <1>6, <1>10 DEF Made
  <1>12. PoolsOpen' = 1..(k - 1)
    <2>1. \A i \in 1..Len(pools) : i # k => (pools'[i].open <=> i \in 1..k)
      BY <1>3, <1>4, <1>10 DEF PoolsOpen
    <2>2. \A i \in 1..Len(pools) : pools'[i].open <=> i \in 1..(k - 1)
      BY <1>4, <1>11, <2>1
    <2>3. DOMAIN pools' = 1..Len(pools) /\ 1..(k - 1) \subseteq 1..Len(pools)
      BY <1>4, <1>9
    <2> QED
      BY <2>2, <2>3 DEF PoolsOpen
  <1>13. PoolsInv'
    <2>1. \A i \in DOMAIN pools' : \E q \in Proofs, r \in BOOLEAN : pools'[i] = Made(c, i, q, r)
      BY <1>1, <1>6, <1>9, <1>10 DEF PoolsInv
    <2>2. pools # <<>> /\ (pools' # <<>> => config' # {} /\ Len(pools') <= Len(c.pools))
      BY <1>1, <1>4, <1>9, PoolsFacts DEF PoolsInv
    <2>3. k - 1 \in 0..Len(pools')
      BY <1>4, <1>9
    <2> QED
      BY <1>2, <1>9, <1>12, <2>1, <2>2, <2>3 DEF PoolsInv
  <1> QED
    BY <1>3, <1>4, <1>9, <1>10, <1>11, <1>12, <1>13

\* A pool is made after all others and is open like them.
LEMMA OpenPoolOpens ==
    ASSUME StartupTypeOK, PoolsInv, StartInv, start.pc = "pools",
           Len(pools) < Len(Configuration.pools), UNCHANGED config,
           pools' = Append(pools, Pool(Len(pools) + 1))
    PROVE  /\ PoolsInv'
           /\ Len(pools') = Len(pools) + 1 /\ PoolsOpen' = DOMAIN pools'
           /\ \A i \in 1..Len(pools) : pools'[i] = pools[i]
  <1>1. PICK c : c = Configuration
    OBVIOUS
  <1>2. c = Configuration'
    BY <1>1 DEF Configuration
  <1>3. PICK n \in Nat : n = Len(pools) /\ DOMAIN pools = 1..n
    BY PoolsFacts
  <1>4. Pool(n + 1) = Made(c, n + 1, "none", TRUE)
    BY <1>1 DEF Pool, Made
  <1>5. Pool(n + 1) \in PoolsOf(c)
    <2>1. n + 1 \in Nat /\ "none" \in Proofs
      BY DEF Proofs
    <2> QED
      BY <1>4, <2>1, MadeInPools, Zenon
  <1>6. pools \in Seq(PoolsOf(c))
    BY <1>1, Zenon DEF PoolsInv
  <1>7. /\ pools' \in Seq(PoolsOf(c)) /\ Len(pools') = n + 1 /\ DOMAIN pools' = 1..(n + 1)
        /\ \A i \in 1..n : pools'[i] = pools[i]
        /\ pools'[n + 1] = Pool(n + 1)
    BY <1>3, <1>5, <1>6, AppendProperties, LenProperties
  <1>8. PoolsOpen = 1..n
    BY <1>3 DEF StartInv, StartSteps
  <1>9. PoolsOpen' = 1..(n + 1)
    <2>1. pools'[n + 1].open
      BY <1>4, <1>7 DEF Made
    <2>2. \A i \in 1..n : pools'[i].open
      BY <1>3, <1>7, <1>8 DEF PoolsOpen
    <2>3. ASSUME NEW i \in 1..(n + 1) PROVE pools'[i].open
      <3>1. CASE i \in 1..n
        BY <2>2, <3>1
      <3>2. CASE i = n + 1
        BY <2>1, <3>2
      <3>3. i \in 1..n \/ i = n + 1
        OBVIOUS
      <3> QED
        BY <3>1, <3>2, <3>3, Zenon
    <2> QED
      BY <1>7, <2>3 DEF PoolsOpen
  <1>10. \A i \in DOMAIN pools' : \E q \in Proofs, r \in BOOLEAN : pools'[i] = Made(c, i, q, r)
    <2>1. \A i \in 1..n : \E q \in Proofs, r \in BOOLEAN : pools'[i] = Made(c, i, q, r)
      BY <1>1, <1>3, <1>7 DEF PoolsInv
    <2>2. \E q \in Proofs, r \in BOOLEAN : pools'[n + 1] = Made(c, n + 1, q, r)
      BY <1>4, <1>7, Zenon DEF Proofs
    <2> QED
      BY <1>7, <2>1, <2>2
  <1>11. config' # {} /\ Len(pools') <= Len(c.pools)
    <2>1. config # {}
      BY DEF StartInv, StartSteps
    <2>2. Len(c.pools) \in Nat
      BY <1>1, <2>1, ConfigurationMade, PlanLength
    <2> QED
      BY <1>1, <1>3, <1>7, <2>1, <2>2
  <1> QED
    BY <1>2, <1>3, <1>7, <1>9, <1>10, <1>11 DEF PoolsInv

\* The pool made last takes its proof and stays as it is.
LEMMA VerifyPoolAgrees ==
    ASSUME StartupTypeOK, PoolsInv, StartInv, start.pc = "verify", UNCHANGED config,
           NEW revision \in Revisions, SameProof(revision),
           pools' = [pools EXCEPT ![Len(pools)].proof = revision]
    PROVE  /\ PoolsInv' /\ Agree(Len(pools))'
           /\ Len(pools') = Len(pools) /\ PoolsOpen' = DOMAIN pools'
  <1>1. PICK c : c = Configuration
    OBVIOUS
  <1>2. c = Configuration'
    BY <1>1 DEF Configuration
  <1>3. PICK n \in Nat \ {0} : n = Len(pools) /\ DOMAIN pools = 1..n
    BY PoolsFacts DEF StartInv
  <1>4. PICK p \in Proofs, o \in BOOLEAN : pools[n] = Made(c, n, p, o)
    BY <1>1, <1>3 DEF PoolsInv
  <1>5. pools' = [pools EXCEPT ![n] = Made(c, n, revision, o)]
    <2>1. pools' = [pools EXCEPT ![n] = [pools[n] EXCEPT !.proof = revision]]
      BY <1>3
    <2>2. [pools[n] EXCEPT !.proof = revision] = Made(c, n, revision, o)
      <3>1. PICK b : b = o
        OBVIOUS
      <3>2. pools[n] = Made(c, n, p, b)
        BY <1>4, <3>1, Zenon
      <3>3. [pools[n] EXCEPT !.proof = revision] = Made(c, n, revision, b)
        BY <3>2, MadeVerified, SMT
      <3> QED
        BY <3>1, <3>3, Zenon
    <2> QED
      BY <2>1, <2>2
  <1>6. Made(c, n, revision, o) \in PoolsOf(c)
    <2>1. n \in Nat /\ revision \in Proofs
      BY DEF Proofs
    <2> QED
      BY <1>4, <2>1, MadeInPools, Zenon
  <1>7. /\ pools' \in Seq(PoolsOf(c)) /\ Len(pools') = n /\ DOMAIN pools' = 1..n
        /\ \A i \in 1..(n - 1) : pools'[i] = pools[i]
        /\ pools'[n] = Made(c, n, revision, o)
    <2>1. pools \in Seq(PoolsOf(c))
      BY <1>1, Zenon DEF PoolsInv
    <2> QED
      BY <1>3, <1>5, <1>6, <2>1, ExceptSeq, LenProperties
  <1>8. PoolsOpen = 1..n
    BY <1>3 DEF StartInv, StartSteps
  <1>9. PoolsOpen' = 1..n
    <2>1. pools[n].open /\ (pools'[n].open <=> pools[n].open)
      BY <1>3, <1>4, <1>7, <1>8 DEF Made, PoolsOpen
    <2>2. \A i \in 1..(n - 1) : pools'[i].open
      BY <1>3, <1>7, <1>8 DEF PoolsOpen
    <2>3. ASSUME NEW i \in 1..n PROVE pools'[i].open
      <3>1. CASE i \in 1..(n - 1)
        BY <2>2, <3>1
      <3>2. CASE i = n
        BY <2>1, <3>2
      <3>3. i \in 1..(n - 1) \/ i = n
        OBVIOUS
      <3> QED
        BY <3>1, <3>2, <3>3, Zenon
    <2> QED
      BY <1>7, <2>3 DEF PoolsOpen
  <1>10. \A i \in DOMAIN pools' : \E q \in Proofs, r \in BOOLEAN : pools'[i] = Made(c, i, q, r)
    <2>1. \A i \in 1..(n - 1) : \E q \in Proofs, r \in BOOLEAN : pools'[i] = Made(c, i, q, r)
      BY <1>1, <1>3, <1>7 DEF PoolsInv
    <2>2. \E q \in Proofs, r \in BOOLEAN : pools'[n] = Made(c, n, q, r)
      BY <1>4, <1>7, Zenon DEF Proofs
    <2> QED
      BY <1>7, <2>1, <2>2
  <1>11. Agree(n)'
    <2>1. \A i \in 1..(n - 1) : pools'[i].proof = revision
      BY <1>3, <1>7 DEF SameProof
    <2>2. pools'[n].proof = revision
      BY <1>7 DEF Made
    <2>3. \A i \in 1..n : pools'[i].proof = revision
      BY <2>1, <2>2
    <2> QED
      BY <2>3, StartupAssumption DEF Agree
  <1>12. pools # <<>>
    BY <1>3
  <1> QED
    BY <1>1, <1>2, <1>3, <1>7, <1>9, <1>10, <1>11, <1>12 DEF PoolsInv

-----------------------------------------------------------------------------
(* Every step keeps the invariant *)

LEMMA StartupTypeStep ==
    ASSUME StartupTypeOK, StartupNext
    PROVE  StartupTypeOK'
  <1>1. request' \in Requests /\ config' = Loaded[request']
    BY DEF StartupNext, StartupTypeOK
  <1>2. start' \in StartType
    <2> USE DEF StartupTypeOK, StartType, StartSteps
    <2>1. CASE EndStartup
      BY <2>1 DEF EndStartup
    <2>2. CASE StartNext
      BY <2>2 DEF StartNext, Load, OpenObserver, OpenPool, VerifyPool, MakeHealth, StartCollector,
                  Unwind, GoOn
    <2>3. CASE CollectorNext
      BY <2>3 DEF CollectorNext, Awake, BeginExport, EndExport, Tick, LeaveCollector, CollectorOnly
    <2>4. CASE ShutdownNext
      BY <2>4
         DEF ShutdownNext, BeginShutdown, StopCollection, EndStop, GiveUpStop, ClosePool,
             EndClose,
                  FinishShutdown, ResourcesReturned, GiveUpResources, CloseObserver, ObserverClosed
    <2> QED
      BY <2>1, <2>2, <2>3, <2>4 DEF StartupNext
  <1>3. observer' \in ObserverType
    <2> USE DEF StartupTypeOK, ObserverType, Kinds
    <2>1. CASE EndStartup
      BY <2>1 DEF EndStartup
    <2>2. CASE Load \/ OpenObserver \/ OpenPool \/ VerifyPool \/ MakeHealth
      BY <2>2 DEF Load, OpenObserver, OpenPool, VerifyPool, MakeHealth
    <2>3. CASE StartCollector
      BY <2>3 DEF StartCollector
    <2>4. CASE Unwind
      BY <2>4 DEF Unwind
    <2>5. CASE CollectorNext
      BY <2>5 DEF CollectorNext, Awake, BeginExport, EndExport, Tick, LeaveCollector, CollectorOnly
    <2>6. CASE BeginShutdown \/ StopCollection \/ EndStop \/ GiveUpStop \/ ClosePool \/ EndClose
      BY <2>6 DEF BeginShutdown, StopCollection, EndStop, GiveUpStop, ClosePool, EndClose, Cleared
    <2>7. CASE FinishShutdown
      BY <2>7
         DEF FinishShutdown, ResourcesReturned, GiveUpResources, CloseObserver, ObserverClosed,
             Cleared
    <2> QED
      BY <2>1, <2>2, <2>3, <2>4, <2>5, <2>6, <2>7 DEF StartupNext, StartNext, ShutdownNext
  <1>4. collector' \in CollectorType
    <2> USE DEF StartupTypeOK, CollectorType, CollectorSteps
    <2>1. CASE EndStartup
      BY <2>1 DEF EndStartup, StartOnly
    <2>2. CASE StartNext
      BY <2>2 DEF StartNext, Load, OpenObserver, OpenPool, VerifyPool, MakeHealth, StartCollector,
                  Unwind, StartOnly
    <2>3. CASE Awake
      BY <2>3 DEF Awake, ObserverType
    <2>4. CASE BeginExport
      <3>1. PICK b \in BOOLEAN : b = (~observer.canceled /\ PoolsOpen = DOMAIN pools)
        BY Zenon
      <3>2. PICK n \in Nat : n = collector.exports + 1
        OBVIOUS
      <3>3. collector' = [collector EXCEPT !.pc = "exporting", !.exports = n, !.using = b]
        BY <2>4, <3>1, <3>2, Zenon DEF BeginExport
      <3> QED
        BY <3>3
    <2>5. CASE EndExport \/ Tick \/ LeaveCollector
      BY <2>5 DEF EndExport, Tick, LeaveCollector, Collecting
    <2>6. CASE ShutdownNext
      BY <2>6
         DEF ShutdownNext, BeginShutdown, StopCollection, EndStop, GiveUpStop, ClosePool,
             EndClose,
                  FinishShutdown, ResourcesReturned, GiveUpResources, CloseObserver, ObserverClosed
    <2> QED
      BY <2>1, <2>2, <2>3, <2>4, <2>5, <2>6 DEF StartupNext, CollectorNext
  <1>5. releaser' \in ReleaserSteps
    <2> USE DEF StartupTypeOK, ReleaserSteps
    <2>1. CASE EndStartup \/ StartNext
      BY <2>1 DEF EndStartup, StartNext, Load, OpenObserver, OpenPool, VerifyPool, MakeHealth,
                  StartCollector, Unwind, StartOnly
    <2>2. CASE CollectorNext
      BY <2>2 DEF CollectorNext, Awake, BeginExport, EndExport, Tick, LeaveCollector, CollectorOnly
    <2>3. CASE ShutdownNext
      BY <2>3
         DEF ShutdownNext, BeginShutdown, StopCollection, EndStop, GiveUpStop, ClosePool,
             EndClose,
                  FinishShutdown, ResourcesReturned, GiveUpResources, CloseObserver, ObserverClosed
    <2> QED
      BY <2>1, <2>2, <2>3 DEF StartupNext
  <1>6. owner' \in OwnerSteps
    <2> USE DEF StartupTypeOK, OwnerSteps
    <2>1. CASE EndStartup \/ StartNext
      BY <2>1 DEF EndStartup, StartNext, Load, OpenObserver, OpenPool, VerifyPool, MakeHealth,
                  StartCollector, Unwind, StartOnly
    <2>2. CASE CollectorNext
      BY <2>2 DEF CollectorNext, Awake, BeginExport, EndExport, Tick, LeaveCollector, CollectorOnly
    <2>3. CASE ShutdownNext
      BY <2>3
         DEF ShutdownNext, BeginShutdown, StopCollection, EndStop, GiveUpStop, ClosePool,
             EndClose,
                  FinishShutdown, ResourcesReturned, GiveUpResources, CloseObserver, ObserverClosed,
                  AfterResources
    <2> QED
      BY <2>1, <2>2, <2>3 DEF StartupNext
  <1> QED
    BY <1>1, <1>2, <1>3, <1>4, <1>5, <1>6 DEF StartupTypeOK

\* While the pools stay as they are, so does everything said about them.
LEMMA PoolsStay ==
    ASSUME PoolsInv, UNCHANGED <<pools, config>>
    PROVE  /\ PoolsInv' /\ PoolsOpen' = PoolsOpen /\ Configuration' = Configuration
           /\ DOMAIN pools' = DOMAIN pools
           /\ \A n : Agree(n)' <=> Agree(n)
  BY DEF PoolsInv, PoolsOpen, Configuration, Agree

LEMMA StartNextInv ==
    ASSUME StartupInv, StartNext, UNCHANGED config
    PROVE  PoolsInv' /\ StartInv' /\ CollectInv'
  <1> USE DEF StartupInv
  <1>1. CASE Load
    <2>1. PoolsInv'
      BY <1>1, PoolsStay DEF Load
    <2>2. StartInv' /\ CollectInv'
      BY <1>1, PoolsStay
         DEF Load, GoOn, StartOnly, StartInv, CollectInv, Stopped, StartupTypeOK, StartType,
             ObserverType, StartSteps, PoolsOpen, Agree
    <2> QED
      BY <2>1, <2>2
  <1>2. CASE OpenObserver
    <2>1. PoolsInv' /\ pools' = <<>> /\ PoolsOpen' = PoolsOpen /\ config' # {}
      BY <1>2, PoolsStay DEF OpenObserver, StartInv, StartSteps
    <2>2. PoolsOpen' = DOMAIN pools'
      BY <1>2, <2>1 DEF OpenObserver, StartInv, StartSteps, PoolsOpen
    <2>3. UNCHANGED <<observer.started, observer.cancel, observer.canceled, observer.finished,
                      observer.closed, observer.timedOut>>
      BY <1>2 DEF OpenObserver, StartupTypeOK, ObserverType
    <2>4. start'.pc \in {"pools", "failed"} /\ (start'.pc = "failed" => UNCHANGED observer)
      BY <1>2 DEF OpenObserver, GoOn, StartupTypeOK, StartType
    <2>5. Agree(Len(pools))'
      BY <2>1 DEF Agree
    <2>6. StartInv'
      BY <1>2, <2>1, <2>2, <2>3, <2>4, <2>5 DEF OpenObserver, StartOnly, StartInv, StartSteps
    <2>7. CollectInv'
      BY <1>2, <2>3, <2>4 DEF OpenObserver, StartOnly, StartInv, CollectInv, Stopped
    <2> QED
      BY <2>1, <2>6, <2>7
  <1>3. CASE OpenPool
    <2>1. UNCHANGED observer /\ StartOnly
      BY <1>3 DEF OpenPool
    <2>2. CASE pools' = Append(pools, Pool(Len(pools) + 1)) /\ GoOn("verify")
      <3>1. /\ PoolsInv' /\ Len(pools') = Len(pools) + 1 /\ PoolsOpen' = DOMAIN pools'
            /\ \A i \in 1..Len(pools) : pools'[i] = pools[i]
        BY <1>3, <2>2, OpenPoolOpens DEF OpenPool
      <3>2. start'.pc = "verify" /\ start.pc = "pools" /\ config' # {}
        BY <1>3, <2>2 DEF OpenPool, GoOn, StartupTypeOK, StartType, StartInv, StartSteps
      <3>3. Agree(Len(pools) - 1)' /\ Len(pools') > 0
        BY <3>1, <3>2, PoolsFacts DEF StartInv, Agree
      <3> QED
        BY <2>1, <3>1, <3>2, <3>3 DEF StartOnly, StartInv, StartSteps, CollectInv, Stopped
    <2>3. CASE UNCHANGED pools /\ GoOn("unwind")
      <3>1. PoolsInv'
        BY <2>3, PoolsStay
      <3>2. start'.pc = "unwind" /\ start.pc = "pools" /\ config' # {}
        BY <1>3, <2>3 DEF OpenPool, GoOn, StartupTypeOK, StartType, StartInv, StartSteps
      <3> QED
        BY <2>1, <3>1, <3>2 DEF StartOnly, StartInv, StartSteps, CollectInv, Stopped
    <2> QED
      BY <1>3, <2>2, <2>3 DEF OpenPool
  <1>4. CASE VerifyPool
    BY <1>4, PoolsStay, VerifyPoolAgrees
       DEF VerifyPool, GoOn, StartOnly, StartInv, CollectInv, Stopped, StartupTypeOK, StartType,
           ObserverType, StartSteps, Agree
  <1>5. CASE MakeHealth
    BY <1>5, PoolsStay
       DEF MakeHealth, GoOn, StartOnly, StartInv, CollectInv, Stopped, StartupTypeOK, StartType,
           ObserverType, StartSteps, PoolsOpen, Agree
  <1>6. CASE StartCollector
    <2>1. /\ PoolsInv' /\ PoolsOpen' = PoolsOpen /\ DOMAIN pools' = DOMAIN pools
          /\ Len(pools') = Len(Configuration.pools)' /\ Agree(Len(pools))' /\ config' # {}
          /\ PoolsOpen = DOMAIN pools
      BY <1>6, PoolsStay DEF StartCollector, StartInv, StartSteps
    <2>2. /\ start.pc = "collect" /\ start'.pc \in {"ready", "unwind"}
          /\ start'.pc = "unwind" => UNCHANGED <<observer, collector>>
      BY <1>6 DEF StartCollector, GoOn, StartupTypeOK, StartType
    <2>3. UNCHANGED <<observer.kind, observer.canceled, observer.finished, observer.closed,
                      observer.timedOut>>
      BY <1>6 DEF StartCollector, StartupTypeOK, ObserverType
    <2>4. \/ collector'.pc = "none"
          \/ observer'.kind = "metrics" /\ observer'.started /\ observer'.cancel
      BY <1>6, <2>2 DEF StartCollector, StartInv, StartupTypeOK, ObserverType
    <2>5. StartInv'
      BY <1>6, <2>1, <2>2 DEF StartCollector, StartInv, StartSteps
    <2>6. CollectInv'
      BY <1>6, <2>1, <2>2, <2>3, <2>4 DEF StartCollector, StartInv, CollectInv, Stopped
    <2> QED
      BY <2>1, <2>5, <2>6
  <1>7. CASE Unwind
    BY <1>7, PoolsStay, CloseLastCloses
       DEF Unwind, GoOn, StartOnly, StartInv, CollectInv, Stopped, StartupTypeOK, StartType,
           ObserverType, StartSteps, PoolsOpen, Agree
  <1> QED
    BY <1>1, <1>2, <1>3, <1>4, <1>5, <1>6, <1>7 DEF StartNext

LEMMA EndStartupInv ==
    ASSUME StartupInv, EndStartup, UNCHANGED config
    PROVE  PoolsInv' /\ StartInv' /\ CollectInv'
  <1> USE DEF StartupInv, EndStartup
  <1>1. /\ PoolsInv' /\ PoolsOpen' = PoolsOpen /\ DOMAIN pools' = DOMAIN pools
        /\ Configuration' = Configuration /\ \A n : Agree(n)' <=> Agree(n)
    BY PoolsStay
  <1>2. start'.pc = start.pc
    BY DEF StartupTypeOK, StartType
  <1> QED
    BY <1>1, <1>2 DEF StartInv, CollectInv, Stopped, StartOnly, StartSteps

\* The collector runs only once the runtime is ready, and ends only canceled.
LEMMA CollectorNextInv ==
    ASSUME StartupInv, CollectorNext, UNCHANGED config
    PROVE  PoolsInv' /\ StartInv' /\ CollectInv'
  <1> USE DEF StartupInv
  <1>1. CollectorOnly
    BY DEF CollectorNext, Awake, BeginExport, EndExport, Tick, LeaveCollector
  <1>2. /\ PoolsInv' /\ PoolsOpen' = PoolsOpen /\ DOMAIN pools' = DOMAIN pools
        /\ Configuration' = Configuration /\ \A n : Agree(n)' <=> Agree(n)
    BY <1>1, PoolsStay DEF CollectorOnly
  <1>3. collector.pc \notin {"none", "ended"}
    BY DEF CollectorNext, Awake, BeginExport, EndExport, Tick, LeaveCollector
  <1>4. start.pc = "ready" /\ ~observer.finished
    BY <1>3 DEF StartInv, CollectInv
  <1>5. StartInv'
    BY <1>1, <1>2, <1>4 DEF CollectorOnly, StartInv, StartSteps
  <1>6. ASSUME UNCHANGED observer, collector'.pc # "none" PROVE CollectInv'
    <2>1. PoolsOpen' = PoolsOpen /\ DOMAIN pools' = DOMAIN pools
      BY <1>2
    <2>2. UNCHANGED <<start, releaser, owner>>
      BY <1>1 DEF CollectorOnly
    <2> QED
      BY <1>3, <1>4, <1>6, <2>1, <2>2 DEF CollectInv, Stopped
  <1>7. ASSUME LeaveCollector PROVE CollectInv'
    <2>1. CASE collector'.pc = "ended"
      <3>1. UNCHANGED <<observer.kind, observer.started, observer.cancel, observer.canceled,
                        observer.closed, observer.timedOut>>
        BY <1>7, <2>1 DEF LeaveCollector, StartupTypeOK, ObserverType
      <3>2. PoolsOpen' = PoolsOpen /\ DOMAIN pools' = DOMAIN pools
        BY <1>2
      <3>3. UNCHANGED <<start, releaser, owner>>
        BY <1>1 DEF CollectorOnly
      <3> QED
        BY <1>3, <1>4, <2>1, <3>1, <3>2, <3>3 DEF CollectInv, Stopped
    <2>2. CASE UNCHANGED observer /\ collector'.pc = "panicked"
      BY <1>6, <2>2
    <2> QED
      BY <1>7, <2>1, <2>2 DEF LeaveCollector, Collecting, StartupTypeOK, CollectorType
  <1>8. ASSUME Awake \/ BeginExport \/ EndExport \/ Tick PROVE CollectInv'
    <2>1. UNCHANGED observer
      BY <1>8 DEF Awake, BeginExport, EndExport, Tick
    <2>2. collector'.pc # "none"
      BY <1>8 DEF Awake, BeginExport, EndExport, Tick, Collecting, StartupTypeOK, CollectorType
    <2> QED
      BY <1>6, <2>1, <2>2
  <1> QED
    BY <1>2, <1>5, <1>6, <1>7, <1>8 DEF CollectorNext

\* The cancellation is taken once, by the releaser or by the owner.
LEMMA ClearedFields ==
    ASSUME observer \in ObserverType
    PROVE  /\ Cleared.canceled /\ ~Cleared.cancel
           /\ Cleared.kind = observer.kind /\ (Cleared.opened <=> observer.opened)
           /\ Cleared.started <=> observer.started
           /\ Cleared.finished <=> observer.finished
           /\ Cleared.closed <=> observer.closed
           /\ Cleared.timedOut <=> observer.timedOut
  BY DEF Cleared, ObserverType

LEMMA ShutdownNextInv ==
    ASSUME StartupInv, ShutdownNext, UNCHANGED config
    PROVE  PoolsInv' /\ StartInv' /\ CollectInv'
  <1> USE DEF StartupInv
  <1>1. UNCHANGED start /\ start.pc = "ready"
    BY DEF ShutdownNext, BeginShutdown, StopCollection, EndStop, GiveUpStop, ClosePool, EndClose,
           FinishShutdown, ResourcesReturned, GiveUpResources, CloseObserver, ObserverClosed, StartInv
  <1>2. ASSUME UNCHANGED pools PROVE PoolsInv' /\ StartInv' /\ PoolsOpen' = PoolsOpen
    <2>1. /\ PoolsInv' /\ PoolsOpen' = PoolsOpen /\ DOMAIN pools' = DOMAIN pools
          /\ Configuration' = Configuration /\ \A n : Agree(n)' <=> Agree(n)
      BY <1>2, PoolsStay
    <2>2. StartInv'
      BY <1>1, <1>2, <2>1 DEF StartInv, StartSteps
    <2> QED
      BY <2>1, <2>2
  <1> USE DEF StartupTypeOK, CollectInv, Stopped
  <1>3. CASE BeginShutdown
    BY <1>1, <1>2, <1>3 DEF BeginShutdown, StartInv
  <1>4. CASE StopCollection
    <2>1. CASE NothingToStop /\ releaser' = "pools" /\ UNCHANGED observer
      BY <1>1, <1>2, <1>4, <2>1 DEF StopCollection, NothingToStop
    <2>2. CASE ~NothingToStop /\ releaser' = "stopping" /\ observer' = Cleared
      BY <1>1, <1>2, <1>4, <2>2, ClearedFields DEF StopCollection
    <2> QED
      BY <1>4, <2>1, <2>2 DEF StopCollection
  <1>5. CASE EndStop
    BY <1>1, <1>2, <1>5 DEF EndStop, CollectionStopped
  <1>6. CASE GiveUpStop
    BY <1>1, <1>2, <1>6 DEF GiveUpStop, ObserverType
  <1>7. CASE ClosePool
    <2>1. /\ PoolsInv' /\ Len(pools') = Len(pools)
          /\ \A i \in DOMAIN pools : pools'[i].proof = pools[i].proof
      BY <1>7, CloseLastCloses DEF ClosePool
    <2>2. Agree(Len(pools))'
      BY <1>1, <2>1, PoolsFacts DEF StartInv, Agree
    <2>3. Configuration' = Configuration
      BY DEF Configuration
    <2>4. StartInv'
      BY <1>1, <2>1, <2>2, <2>3 DEF StartInv, StartSteps
    <2> QED
      BY <1>1, <1>7, <2>1, <2>4 DEF ClosePool
  <1>8. CASE EndClose
    BY <1>1, <1>2, <1>8 DEF EndClose
  <1>9. CASE ResourcesReturned \/ GiveUpResources
    BY <1>1, <1>2, <1>9 DEF ResourcesReturned, GiveUpResources, AfterResources, ObserverType
  <1>10. CASE CloseObserver
    <2>1. CASE NothingToStop
      BY <1>1, <1>2, <1>10, <2>1 DEF CloseObserver, ObserverType
    <2>2. CASE ~NothingToStop
      BY <1>1, <1>2, <1>10, <2>2, ClearedFields DEF CloseObserver
    <2> QED
      BY <2>1, <2>2
  <1>11. CASE ObserverClosed
    BY <1>1, <1>2, <1>11 DEF ObserverClosed, ObserverType
  <1> QED
    BY <1>3, <1>4, <1>5, <1>6, <1>7, <1>8, <1>9, <1>10, <1>11 DEF ShutdownNext, FinishShutdown

LEMMA StartupStepInv == StartupInv /\ [StartupNext]_startupVars => StartupInv'
  <1> SUFFICES ASSUME StartupInv, [StartupNext]_startupVars PROVE StartupInv'
    OBVIOUS
  <1>1. CASE StartupNext
    <2>1. StartupTypeOK'
      BY <1>1, StartupTypeStep DEF StartupInv
    <2>2. UNCHANGED config
      BY <1>1 DEF StartupNext
    <2>3. PoolsInv' /\ StartInv' /\ CollectInv'
      BY <1>1, <2>2, EndStartupInv, StartNextInv, CollectorNextInv, ShutdownNextInv
         DEF StartupNext
    <2> QED
      BY <2>1, <2>3 DEF StartupInv
  <1>2. CASE UNCHANGED startupVars
    <2>1. /\ PoolsInv' /\ PoolsOpen' = PoolsOpen /\ Configuration' = Configuration
          /\ \A n : Agree(n)' <=> Agree(n)
      BY <1>2, PoolsStay DEF startupVars, StartupInv
    <2>2. StartupTypeOK' /\ StartInv' /\ CollectInv'
      BY <1>2, <2>1 DEF startupVars, StartupInv, StartupTypeOK, StartInv, CollectInv, Stopped
    <2> QED
      BY <2>1, <2>2 DEF StartupInv
  <1> QED
    BY <1>1, <1>2

-----------------------------------------------------------------------------
(* What follows from it *)

THEOREM AlwaysStartupInv == StartupSpec => []StartupInv
  BY StartupInitInv, StartupStepInv, PTL DEF StartupSpec

\* A ready runtime owns every pool of its plan, all with one proof; a failed
\* start, at whichever step it failed, owns nothing.
THEOREM StartsAllOrNothing == StartupSpec => []StartAllOrNothing
  <1>1. StartupInv => StartAllOrNothing
    <2> SUFFICES ASSUME StartupInv PROVE StartAllOrNothing
      OBVIOUS
    <2>1. DOMAIN pools = 1..Len(pools)
      BY PoolsFacts DEF StartupInv
    <2> QED
      BY <2>1 DEF StartupInv, StartInv, StartAllOrNothing, Agree
  <1> QED
    BY <1>1, AlwaysStartupInv, PTL

\* No collection runs beside a closing pool or a closed observer, unless a
\* timer of the shutdown expired.
THEOREM CollectionAlwaysStopsFirst == StartupSpec => []CollectionStopsFirst
  <1>1. StartupInv => CollectionStopsFirst
    BY DEF StartupInv, StartupTypeOK, ReleaserSteps, CollectInv, Stopped, CollectionStopsFirst
  <1> QED
    BY <1>1, AlwaysStartupInv, PTL

\* A step keeps what is open among the pools there are, or closes the last.
LEMMA PoolsStep ==
    ASSUME StartupInv, StartupNext
    PROVE  \/ \A i \in DOMAIN pools : pools'[i].open <=> i \in PoolsOpen
           \/ \E k \in 1..Len(pools) :
                 /\ PoolsOpen = 1..k
                 /\ \A i \in DOMAIN pools : pools'[i].open <=> i \in 1..(k - 1)
  <1> USE DEF StartupInv
  <1>1. UNCHANGED config
    BY DEF StartupNext
  <1>2. CASE UNCHANGED pools
    BY <1>2 DEF PoolsOpen
  <1>3. ASSUME CloseLast, PoolsOpen # {}
        PROVE  \E k \in 1..Len(pools) :
                  /\ PoolsOpen = 1..k
                  /\ \A i \in DOMAIN pools : pools'[i].open <=> i \in 1..(k - 1)
    <2>1. /\ DOMAIN pools' = DOMAIN pools
          /\ \E k \in 1..Len(pools) : PoolsOpen = 1..k /\ PoolsOpen' = 1..(k - 1)
      BY <1>1, <1>3, CloseLastCloses
    <2>2. \A i \in DOMAIN pools : pools'[i].open <=> i \in PoolsOpen'
      BY <2>1 DEF PoolsOpen
    <2> QED
      BY <2>1, <2>2
  <1>4. CASE OpenPool
    <2>1. CASE pools' = Append(pools, Pool(Len(pools) + 1))
      <3>1. \A i \in DOMAIN pools : pools'[i] = pools[i]
        BY <1>1, <1>4, <2>1, OpenPoolOpens, PoolsFacts DEF OpenPool
      <3> QED
        BY <3>1 DEF PoolsOpen
    <2> QED
      BY <1>2, <1>4, <2>1 DEF OpenPool
  <1>5. CASE VerifyPool
    <2>1. CASE ~UNCHANGED pools
      <3>1. start.pc = "verify" /\ \E revision \in Revisions :
                SameProof(revision) /\ pools' = [pools EXCEPT ![Len(pools)].proof = revision]
        BY <1>5, <2>1 DEF VerifyPool
      <3>2. Len(pools') = Len(pools) /\ PoolsOpen' = DOMAIN pools' /\ PoolsInv'
        BY <1>1, <3>1, VerifyPoolAgrees
      <3>3. DOMAIN pools' = 1..Len(pools')
        BY <3>2, LenProperties DEF PoolsInv
      <3>4. DOMAIN pools = 1..Len(pools) /\ PoolsOpen = DOMAIN pools
        BY <3>1, PoolsFacts DEF StartInv, StartSteps
      <3>5. \A i \in DOMAIN pools : pools'[i].open <=> i \in PoolsOpen'
        BY <3>2, <3>3, <3>4 DEF PoolsOpen
      <3> QED
        BY <3>2, <3>3, <3>4, <3>5
    <2> QED
      BY <1>2, <2>1
  <1>6. CASE Unwind \/ ClosePool
    BY <1>2, <1>3, <1>6 DEF Unwind, ClosePool
  <1>7. CASE EndStartup \/ Load \/ OpenObserver \/ MakeHealth \/ StartCollector
    BY <1>2, <1>7 DEF EndStartup, Load, OpenObserver, MakeHealth, StartCollector
  <1>8. CASE CollectorNext
    BY <1>2, <1>8
       DEF CollectorNext, Awake, BeginExport, EndExport, Tick, LeaveCollector, CollectorOnly
  <1>9. CASE BeginShutdown \/ StopCollection \/ EndStop \/ GiveUpStop \/ EndClose \/ FinishShutdown
    BY <1>2, <1>9 DEF BeginShutdown, StopCollection, EndStop, GiveUpStop, EndClose, FinishShutdown,
                      ResourcesReturned, GiveUpResources, CloseObserver, ObserverClosed
  <1> QED
    BY <1>4, <1>5, <1>6, <1>7, <1>8, <1>9 DEF StartupNext, StartNext, ShutdownNext

\* A pool that is closed stays closed, and closes only after all that were
\* made later.
THEOREM AlwaysClosedInReverse == StartupSpec => ClosedInReverse
  <1> DEFINE LastFirst ==
        \A i \in DOMAIN pools :
          /\ pools'[i].open => pools[i].open
          /\ pools[i].open /\ ~pools'[i].open =>
                \A j \in DOMAIN pools : j > i => ~pools[j].open
  <1>1. StartupInv /\ [StartupNext]_startupVars => [LastFirst]_startupVars
    <2> SUFFICES ASSUME StartupInv, StartupNext PROVE LastFirst
      OBVIOUS
    <2>1. DOMAIN pools = 1..Len(pools) /\ Len(pools) \in Nat
      BY PoolsFacts DEF StartupInv
    <2>2. \A i \in DOMAIN pools : pools[i].open <=> i \in PoolsOpen
      BY DEF PoolsOpen
    <2>3. CASE \A i \in DOMAIN pools : pools'[i].open <=> i \in PoolsOpen
      BY <2>2, <2>3
    <2>4. ASSUME NEW k \in 1..Len(pools), PoolsOpen = 1..k,
                 \A i \in DOMAIN pools : pools'[i].open <=> i \in 1..(k - 1)
          PROVE  LastFirst
      BY <2>1, <2>2, <2>4
    <2> QED
      BY <2>3, <2>4, PoolsStep
  <1> QED
    BY <1>1, AlwaysStartupInv, PTL DEF StartupSpec, ClosedInReverse

-----------------------------------------------------------------------------
(* What the accepted configuration allows a pool *)

\* The rules on one pool of a plan: the transport to another machine is
\* authenticated by name, and a guarded profile keeps the roles apart.
PoolAccepted(v, pool) ==
    /\ pool.host = v.host
    /\ pool.host \notin SocketOrLoopback => pool.certificate \in DnsNames
    /\ v.profile \in Guarded => pool.plan # "combined"
    /\ pool.connections \in 1..v.budget

LEMMA AcceptedRules ==
    ASSUME NEW v, NEW stated, Accepted(v, stated)
    PROVE  /\ v.profile \in Guarded => SeparateAccepted(v, stated)
           /\ v.profile \notin Guarded => CombinedAccepted(v)
           /\ TLSAccepted(v)
  BY DEF Accepted

LEMMA AcceptedPool ==
    ASSUME NEW v, NEW stated, Accepted(v, stated), NEW i \in DOMAIN PlanOf(v.profile)
    PROVE  PoolAccepted(v, Opened(v, PlanOf(v.profile)[i]))
  <1>1. PICK plan : plan = PlanOf(v.profile)[i]
    OBVIOUS
  <1>2. v.profile \in Guarded => plan \in {"ingest", "read", "retention"}
    BY <1>1 DEF PlanOf, Roles
  <1>3. v.profile \notin Guarded => plan = "combined"
    BY <1>1 DEF PlanOf
  <1>4. ToSet(Roles) = {"ingest", "read", "retention"}
    BY DEF Roles, ToSet
  <1>5. Opened(v, plan).connections \in 1..v.budget
    BY <1>2, <1>3, <1>4, AcceptedRules DEF Opened, SeparateAccepted, CombinedAccepted, Sized
  <1>6. Opened(v, plan).host \notin SocketOrLoopback => Opened(v, plan).certificate \in DnsNames
    BY AcceptedRules DEF Opened, TLSAccepted
  <1> QED
    BY <1>1, <1>2, <1>5, <1>6 DEF PoolAccepted, Opened

LEMMA SeparatePools ==
    ASSUME NEW v, NEW stated, Accepted(v, stated), v.profile \in Guarded
    PROVE  LET opened(i) == Opened(v, PlanOf(v.profile)[i])
           IN  /\ DOMAIN PlanOf(v.profile) = 1..3
               /\ \A i, j \in 1..3 : opened(i).user = opened(j).user => i = j
               /\ opened(1).connections + opened(2).connections + opened(3).connections <= v.budget
  <1>1. PlanOf(v.profile) = Roles /\ SeparateAccepted(v, stated)
    BY AcceptedRules DEF PlanOf
  <1>2. \A i, j \in 1..3 : v[UserOf[Roles[i]]] = v[UserOf[Roles[j]]] => i = j
    <2>1. DOMAIN Roles = 1..3
      BY DEF Roles
    <2> QED
      BY <1>1, <2>1 DEF SeparateAccepted, IsInjective
  <1>3. v.ingestMax + v.readMax + v.retentionMax <= v.budget
    BY <1>1 DEF SeparateAccepted, WithinBudget
  <1>4. \A i \in 1..3 : Opened(v, Roles[i]).user = v[UserOf[Roles[i]]]
    BY DEF Opened, Roles
  <1>5. /\ Opened(v, Roles[1]).connections = v.ingestMax
        /\ Opened(v, Roles[2]).connections = v.readMax
        /\ Opened(v, Roles[3]).connections = v.retentionMax
    BY DEF Opened, Roles, MaxOf
  <1> QED
    BY <1>1, <1>2, <1>3, <1>4, <1>5 DEF Roles

Connections(i) == IF i \in DOMAIN pools THEN pools[i].connections ELSE 0

\* Pools exist only under a configuration that was accepted as a whole: each
\* obeys its rules, in staging and production no two are of one user, and
\* together, at most three, they stay within the budget.
PoolsAsAccepted ==
    LET v == Effective(request)
    IN  pools # <<>> =>
          /\ Loads(request)
          /\ \A i \in DOMAIN pools : i \in 1..3 /\ PoolAccepted(v, pools[i])
          /\ v.profile \in Guarded =>
                \A i, j \in DOMAIN pools : pools[i].user = pools[j].user => i = j
          /\ Connections(1) + Connections(2) + Connections(3) <= v.budget

\* Whatever fails, and whenever, no pool is ever opened outside what the
\* validated configuration allows.
THEOREM PoolsAlwaysAsAccepted == StartupSpec => []PoolsAsAccepted
  <1>1. StartupInv => PoolsAsAccepted
    <2> SUFFICES ASSUME StartupInv, pools # <<>> PROVE PoolsAsAccepted
      BY DEF PoolsAsAccepted
    <2>1. PICK v : v = Effective(request)
      OBVIOUS
    <2>2. Loads(request) /\ config = {Configured(v)}
      BY <2>1 DEF StartupInv, StartupTypeOK, PoolsInv, Loaded
    <2>3. Configuration = Configured(v)
      BY <2>2 DEF Configuration
    <2>4. PICK stated : Accepted(v, stated)
      BY <2>1, <2>2 DEF Loads
    <2>5. PICK plan : plan = PlanOf(v.profile)
      OBVIOUS
    <2>6. Configuration.pools = [i \in DOMAIN plan |-> Opened(v, plan[i])]
      BY <2>3, <2>5 DEF Configured
    <2>7. \/ v.profile \in Guarded /\ DOMAIN plan = 1..3
          \/ v.profile \notin Guarded /\ DOMAIN plan = 1..1
      BY <2>5 DEF PlanOf, Roles
    <2>8. Configuration \in Configurations
      BY <2>2, ConfigurationMade DEF StartupInv
    <2>9. /\ DOMAIN pools = 1..Len(pools) /\ Len(pools) \in Nat
          /\ DOMAIN pools \subseteq DOMAIN plan
      BY <2>6, <2>8, PlanLength, PoolsFacts DEF StartupInv, PoolsInv
    <2>10. ASSUME NEW i \in DOMAIN pools
           PROVE  /\ pools[i].plan = Opened(v, plan[i]).plan
                  /\ pools[i].host = Opened(v, plan[i]).host
                  /\ pools[i].user = Opened(v, plan[i]).user
                  /\ pools[i].connections = Opened(v, plan[i]).connections
                  /\ pools[i].certificate = Opened(v, plan[i]).certificate
      <3>1. PICK p \in Proofs, o \in BOOLEAN : pools[i] = Made(Configuration, i, p, o)
        BY DEF StartupInv, PoolsInv
      <3>2. Configuration.pools[i] = Opened(v, plan[i])
        BY <2>6, <2>9
      <3> QED
        BY <3>1, <3>2 DEF Made
    <2>11. ASSUME NEW i \in DOMAIN pools PROVE PoolAccepted(v, pools[i])
      <3>1. PoolAccepted(v, Opened(v, plan[i]))
        BY <2>4, <2>5, <2>9, AcceptedPool
      <3> QED
        BY <2>10, <3>1 DEF PoolAccepted
    <2>12. v.profile \in Guarded =>
              /\ \A i, j \in 1..3 : Opened(v, plan[i]).user = Opened(v, plan[j]).user => i = j
              /\ Opened(v, plan[1]).connections + Opened(v, plan[2]).connections
                    + Opened(v, plan[3]).connections <= v.budget
      BY <2>4, <2>5, SeparatePools
    <2>13. \A i \in DOMAIN plan : Opened(v, plan[i]).connections \in 1..v.budget
      BY <2>4, <2>5, AcceptedPool DEF PoolAccepted
    <2>14. v.budget \in Nat
      <3>1. PICK b : b = v.budget
        OBVIOUS
      <3>2. b \in 1..64 \/ b = 4
        BY <2>4, <3>1, AcceptedRules, Zenon DEF SeparateAccepted, CombinedAccepted
      <3>3. 1..64 \subseteq Nat /\ 4 \in Nat
        OBVIOUS
      <3> QED
        BY <3>1, <3>2, <3>3, Zenon
    <2>15. \A i \in DOMAIN plan :
              Connections(i) = Opened(v, plan[i]).connections \/ Connections(i) = 0
      BY <2>10 DEF Connections
    <2>16. Connections(1) + Connections(2) + Connections(3) <= v.budget
      <3>1. CASE v.profile \in Guarded
        <4>1. DOMAIN plan = 1..3
          BY <2>7, <3>1
        <4>2. PICK a \in Nat, b \in Nat, c \in Nat :
                  /\ a = Opened(v, plan[1]).connections
                  /\ b = Opened(v, plan[2]).connections
                  /\ c = Opened(v, plan[3]).connections
          BY <2>13, <2>14, <4>1
        <4>3. a + b + c <= v.budget
          BY <2>12, <3>1, <4>2
        <4>4. /\ Connections(1) = a \/ Connections(1) = 0
              /\ Connections(2) = b \/ Connections(2) = 0
              /\ Connections(3) = c \/ Connections(3) = 0
          BY <2>15, <4>1, <4>2
        <4> QED
          BY <2>14, <4>3, <4>4
      <3>2. CASE v.profile \notin Guarded
        <4>1. Connections(2) = 0 /\ Connections(3) = 0
          BY <2>7, <2>9, <3>2 DEF Connections
        <4> QED
          BY <2>7, <2>13, <2>14, <2>15, <3>2, <4>1
      <3> QED
        BY <3>1, <3>2
    <2>17. \A i \in DOMAIN pools : i \in 1..3
      BY <2>7, <2>9
    <2>18. v.profile \in Guarded =>
              \A i, j \in DOMAIN pools : pools[i].user = pools[j].user => i = j
      BY <2>10, <2>12, <2>17
    <2> QED
      BY <2>1, <2>2, <2>11, <2>16, <2>17, <2>18 DEF PoolsAsAccepted
  <1> QED
    BY <1>1, AlwaysStartupInv, PTL

-----------------------------------------------------------------------------
(* What the operator said last *)


\* Some number of a nonempty set of positions is the last.
LEMMA GreatestPosition ==
    ASSUME NEW n \in Nat, NEW S \in SUBSET (1..n), S # {}
    PROVE  \E i \in S : \A j \in S : j <= i
  <1>1. PICK T : T = {k \in Nat : n - k \in S}
    OBVIOUS
  <1>2. T \in SUBSET Nat /\ T # {}
    <2>1. PICK i \in S : i \in 1..n
      OBVIOUS
    <2>2. n - i \in Nat /\ n - (n - i) = i
      BY <2>1
    <2> QED
      BY <1>1, <2>1, <2>2
  <1>3. PICK k \in T : \A m \in T : ~(m < k)
    <2>1. PICK R : R = OpToRel(<, Nat)
      OBVIOUS
    <2>2. IsWellFoundedOn(R, Nat)
      BY <2>1, NatLessThanWellFounded
    <2>3. PICK k \in T : \A m \in T : ~(<<m, k>> \in R)
      BY <1>2, <2>2, WFMin
    <2> QED
      BY <1>2, <2>1, <2>3 DEF OpToRel
  <1>4. ASSUME NEW j \in S PROVE j <= n - k
    <2>1. j \in 1..n /\ n - j \in Nat /\ n - (n - j) = j
      OBVIOUS
    <2>2. n - j \in T
      BY <1>1, <2>1
    <2>3. k \in Nat /\ ~(n - j < k)
      BY <1>1, <1>3, <2>2
    <2> QED
      BY <2>1, <2>3
  <1> QED
    BY <1>1, <1>3, <1>4

\* The last entry of a name is the one that no later entry has the name of.
LEMMA LastFound ==
    ASSUME NEW s, NEW n \in Nat, DOMAIN s = 1..n, NEW f, NEW d, NEW i \in 1..n, IsLast(s, f, i)
    PROVE  LastSaid(s, f, d) = s[i].value
  <1>1. f \in Names(s)
    BY DEF Names, IsLast
  <1>2. ASSUME NEW j \in DOMAIN s, IsLast(s, f, j) PROVE j = i
    <2>1. j <= i /\ i <= j
      BY <1>2 DEF IsLast
    <2> QED
      BY <2>1
  <1>3. (CHOOSE j \in DOMAIN s : IsLast(s, f, j)) = i
    BY <1>2
  <1> QED
    BY <1>1, <1>3 DEF LastSaid

LEMMA LastMissing ==
    ASSUME NEW s, NEW f, NEW d, f \notin Names(s)
    PROVE  LastSaid(s, f, d) = d /\ Override(s, f, d) = d
  BY DEF LastSaid, Override

LEMMA OverrideFound ==
    ASSUME NEW s, NEW f, NEW d, Once(s), NEW i \in DOMAIN s, s[i].name = f
    PROVE  Override(s, f, d) = s[i].value
  <1>1. \A j \in DOMAIN s : s[j].name = f => j = i
    BY DEF Once
  <1>2. (CHOOSE j \in DOMAIN s : s[j].name = f) = i
    BY <1>1
  <1> QED
    BY <1>2 DEF Override, Names

\* What a layer that names every field once says comes after all that was
\* said below it.
LEMMA LastOfLayers ==
    ASSUME NEW S, NEW s \in Seq(S), NEW t \in Seq(S), Once(t), NEW f, NEW d
    PROVE  LastSaid(s \o t, f, d) = Override(t, f, LastSaid(s, f, d))
  <1>1. PICK m \in Nat, n \in Nat : m = Len(s) /\ n = Len(t)
    BY LenProperties
  <1>2. PICK u : u = s \o t
    OBVIOUS
  <1>3. /\ DOMAIN s = 1..m /\ DOMAIN t = 1..n /\ DOMAIN u = 1..(m + n)
        /\ \A i \in 1..m : u[i] = s[i]
        /\ \A i \in 1..n : u[m + i] = t[i]
    <2>1. u \in Seq(S) /\ Len(u) = m + n
      BY <1>1, <1>2, ConcatProperties
    <2>2. DOMAIN u = 1..(m + n)
      BY <2>1, LenProperties
    <2>3. \A i \in 1..n : m + i \in (m + 1)..(m + n) /\ m + i - m = i
      OBVIOUS
    <2> QED
      BY <1>1, <1>2, <2>2, <2>3, ConcatProperties, LenProperties
  <1>4. \A i \in 1..(m + n) : i \in 1..m \/ \E j \in 1..n : i = m + j
    <2> TAKE i \in 1..(m + n)
    <2>1. CASE i > m
      <3>1. i - m \in 1..n /\ i = m + (i - m)
        BY <2>1
      <3> QED
        BY <3>1
    <2> QED
      BY <2>1
  <1>5. CASE f \in Names(t)
    <2>1. PICK j \in 1..n : t[j].name = f
      BY <1>3, <1>5 DEF Names
    <2>2. \A k \in 1..n : t[k].name = f => k = j
      BY <1>3, <2>1 DEF Once
    <2>3. m + j \in 1..(m + n) /\ u[m + j].name = f /\ u[m + j] = t[j]
      BY <1>3, <2>1
    <2>4. ASSUME NEW i \in 1..(m + n), u[i].name = f PROVE i <= m + j
      <3>1. CASE i \in 1..m
        BY <3>1
      <3>2. ASSUME NEW k \in 1..n, i = m + k PROVE i <= m + j
        <4>1. t[k].name = f
          BY <1>3, <2>4, <3>2
        <4> QED
          BY <2>2, <3>2, <4>1
      <3> QED
        BY <1>4, <3>1, <3>2
    <2>5. IsLast(u, f, m + j)
      BY <1>3, <2>3, <2>4 DEF IsLast
    <2>6. m + n \in Nat
      OBVIOUS
    <2>7. LastSaid(u, f, d) = t[j].value
      BY <1>3, <2>3, <2>5, <2>6, LastFound
    <2>8. \A b : Override(t, f, b) = t[j].value
      BY <1>3, <2>1, OverrideFound
    <2> QED
      BY <1>2, <2>7, <2>8
  <1>6. CASE f \notin Names(t)
    <2>1. \A k \in 1..n : t[k].name # f
      BY <1>3, <1>6 DEF Names
    <2>2. \A i \in 1..(m + n) : u[i].name = f => i \in 1..m /\ s[i].name = f
      BY <1>3, <1>4, <2>1
    <2>3. \A i \in 1..m : i \in 1..(m + n) /\ u[i] = s[i]
      BY <1>3
    <2>4. LastSaid(u, f, d) = LastSaid(s, f, d)
      <3>1. CASE f \in Names(s)
        <4>1. PICK I : I = {i \in 1..m : s[i].name = f}
          OBVIOUS
        <4>2. I \in SUBSET (1..m) /\ I # {}
          BY <1>3, <3>1, <4>1 DEF Names
        <4>3. PICK i \in I : \A j \in I : j <= i
          BY <4>2, GreatestPosition
        <4>4. i \in 1..m /\ IsLast(s, f, i) /\ i \in 1..(m + n) /\ IsLast(u, f, i) /\ u[i] = s[i]
          BY <1>3, <2>2, <2>3, <4>1, <4>3 DEF IsLast
        <4>5. LastSaid(s, f, d) = s[i].value
          BY <1>3, <4>4, LastFound
        <4>6. m + n \in Nat
          OBVIOUS
        <4>7. LastSaid(u, f, d) = u[i].value
          BY <1>3, <4>4, <4>6, LastFound
        <4> QED
          BY <4>4, <4>5, <4>7
      <3>2. CASE f \notin Names(s)
        <4>1. f \notin Names(u)
          BY <1>3, <2>2, <3>2 DEF Names
        <4> QED
          BY <3>2, <4>1, LastMissing
      <3> QED
        BY <3>1, <3>2
    <2>5. \A b : Override(t, f, b) = b
      BY <1>6, LastMissing
    <2> QED
      BY <1>2, <2>4, <2>5
  <1> QED
    BY <1>5, <1>6

\* What the operator said last is what the configuration holds.
LEMMA SaidIsLayered ==
    ASSUME NEW r \in Requests, LayersAccepted(r), NEW f, NEW d
    PROVE  LastSaid(FileEntries(r) \o r.environment \o r.arguments, f, d)
             = Layered(r, FileEntries(r), f, d)
  <1>1. PICK file, env, args : file = FileEntries(r) /\ env = r.environment /\ args = r.arguments
    OBVIOUS
  <1>2. PICK S : S = (ToSet(file) \cup ToSet(env)) \cup ToSet(args)
    OBVIOUS
  <1>3. env \in Seq(S) /\ args \in Seq(S)
    <2>1. env \in Seq(ToSet(env)) /\ args \in Seq(ToSet(args))
      BY <1>1, LayersAssumption
    <2> QED
      BY <1>2, <2>1
  <1>4. file \in Seq(S)
    <2>1. CASE ConfigFile(r) = Empty
      <3>1. file = <<>>
        BY <1>1, <2>1 DEF FileEntries
      <3> QED
        BY <3>1
    <2>2. CASE ConfigFile(r) # Empty
      <3>1. ConfigFile(r) \in DOMAIN Files /\ file = Files[ConfigFile(r)]
        BY <1>1, <2>2 DEF FileEntries, LayersAccepted
      <3>2. file \in Seq(ToSet(file))
        BY <3>1, LayersAssumption
      <3> QED
        BY <1>2, <3>2
    <2> QED
      BY <2>1, <2>2
  <1>5. Once(file) /\ Once(env) /\ Once(args)
    BY <1>1 DEF LayersAccepted, EnvironmentAccepted, ArgumentsAccepted, FileAccepted
  <1>6. LastSaid(file, f, d) = Override(file, f, d)
    <2>1. PICK none : none = <<>>
      OBVIOUS
    <2>2. none \in Seq(S) /\ none \o file = file /\ Names(none) = {}
      BY <1>4, <2>1, ConcatEmptySeq DEF Names
    <2>3. \A lower \in Seq(S) :
            LastSaid(lower \o file, f, d) = Override(file, f, LastSaid(lower, f, d))
      BY <1>4, <1>5, LastOfLayers
    <2>4. LastSaid(none, f, d) = d
      BY <2>2, LastMissing
    <2> QED
      BY <2>2, <2>3, <2>4, Zenon
  <1>7. LastSaid(file \o env, f, d) = Override(env, f, LastSaid(file, f, d))
    BY <1>3, <1>4, <1>5, LastOfLayers
  <1>8. LastSaid((file \o env) \o args, f, d) = Override(args, f, LastSaid(file \o env, f, d))
    <2>1. PICK lower : lower = file \o env
      OBVIOUS
    <2>2. lower \in Seq(S)
      BY <1>3, <1>4, <2>1, ConcatProperties
    <2>3. LastSaid(lower \o args, f, d) = Override(args, f, LastSaid(lower, f, d))
      BY <1>3, <1>5, <2>2, LastOfLayers
    <2> QED
      BY <2>1, <2>3
  <1> QED
    BY <1>1, <1>6, <1>7, <1>8 DEF Layered

\* A field that some layer states does not depend on its default.
LEMMA StatedNotDefault ==
    ASSUME NEW r, NEW f, f \in Stated(r), NEW d, NEW e
    PROVE  Layered(r, FileEntries(r), f, d) = Layered(r, FileEntries(r), f, e)
  BY DEF Stated, Layered, Override

\* What the pools use together, one pool or three.
LEMMA UsedIsSum ==
    ASSUME NEW n \in 0..3, n = Len(pools), \A i \in 1..n : pools[i].connections \in Nat
    PROVE  Used[n] = (IF 1 <= n THEN pools[1].connections ELSE 0)
                        + (IF 2 <= n THEN pools[2].connections ELSE 0)
                        + (IF 3 <= n THEN pools[3].connections ELSE 0)
  <1> DEFINE first(i) == IF i <= n THEN pools[i].connections ELSE 0
             sum == [k \in 0..n |-> IF k = 0 THEN 0 ELSE IF k = 1 THEN first(1)
                                    ELSE IF k = 2 THEN first(1) + first(2)
                                    ELSE first(1) + first(2) + first(3)]
             Sums(g) == g = [k \in 0..n |-> IF k = 0 THEN 0 ELSE g[k - 1] + pools[k].connections]
  <1>1. first(1) \in Nat /\ first(2) \in Nat /\ first(3) \in Nat
    OBVIOUS
  <1>2. Sums(sum)
    <2>1. ASSUME NEW k \in 0..n
          PROVE  sum[k] = IF k = 0 THEN 0 ELSE sum[k - 1] + pools[k].connections
      <3>1. CASE k = 0
        BY <3>1
      <3>2. CASE k = 1
        <4>1. k - 1 \in 0..n /\ sum[k - 1] = 0 /\ sum[k] = first(1) /\ first(1) = pools[k].connections
          BY <3>2
        <4> QED
          BY <1>1, <3>2, <4>1
      <3>3. CASE k = 2
        <4>1. /\ k - 1 \in 0..n /\ sum[k - 1] = first(1) /\ sum[k] = first(1) + first(2)
              /\ first(2) = pools[k].connections
          BY <3>3
        <4> QED
          BY <1>1, <3>3, <4>1
      <3>4. CASE k = 3
        <4>1. /\ k - 1 \in 0..n /\ sum[k - 1] = first(1) + first(2)
              /\ sum[k] = first(1) + first(2) + first(3) /\ first(3) = pools[k].connections
          BY <3>4
        <4> QED
          BY <1>1, <3>4, <4>1
      <3>5. k \in {0, 1, 2, 3}
        OBVIOUS
      <3> QED
        BY <3>1, <3>2, <3>3, <3>4, <3>5
    <2> QED
      BY <2>1
  <1>3. Sums(Used)
    <2>1. Used = CHOOSE g : Sums(g)
      BY DEF Used
    <2> HIDE DEF Sums, sum
    <2> QED
      BY <1>2, <2>1
  <1>4. \A k \in 0..n : Used[k] = IF k = 0 THEN 0 ELSE Used[k - 1] + pools[k].connections
    <2>1. PICK g : g = Used
      OBVIOUS
    <2> QED
      BY <1>3, <2>1
  <1>5. Used[0] = 0
    BY <1>4
  <1>6. 1 <= n => Used[1] = Used[0] + pools[1].connections
    BY <1>4
  <1>7. 2 <= n => Used[2] = Used[1] + pools[2].connections
    BY <1>4
  <1>8. 3 <= n => Used[3] = Used[2] + pools[3].connections
    BY <1>4
  <1> QED
    BY <1>5, <1>6, <1>7, <1>8

\* The effective configuration says what was said last.
LEMMA EffectiveAsSaid ==
    ASSUME NEW r \in Requests, Loads(r), NEW v, v = Effective(r)
    PROVE  LET last(f, d) == LastSaid(FileEntries(r) \o r.environment \o r.arguments, f, d)
           IN  /\ v.profile = last("profile", "local")
               /\ v.host = last("host", Empty)
               /\ v.budget = last("budget", 4)
  <1> DEFINE last(f, d) == LastSaid(FileEntries(r) \o r.environment \o r.arguments, f, d)
             said(f, d) == Layered(r, FileEntries(r), f, d)
             default == DefaultValues(SelectedProfile(r))
  <1>1. \A f, d : last(f, d) = said(f, d)
    BY SaidIsLayered DEF Loads
  <1>2. \A f \in FileFields : v[f] = said(f, default[f])
    BY DEF Effective
  <1>3. {"profile", "host", "budget"} \subseteq FileFields
    BY DEF FileFields, Overridable
  <1>4. SelectedProfile(r) = said("profile", "local")
    BY DEF SelectedProfile
  <1>5. v.profile = said("profile", "local")
    <2>1. default.profile = SelectedProfile(r)
      BY DEF DefaultValues
    <2>2. v.profile = said("profile", SelectedProfile(r))
      BY <1>2, <1>3, <2>1
    <2>3. \A d : said("profile", d) = d \/ said("profile", d) = said("profile", "local")
      BY DEF Layered, Override
    <2> QED
      BY <1>4, <2>2, <2>3
  <1>6. v.host = said("host", Empty)
    <2>1. default.host = Empty
      BY DEF DefaultValues
    <2> QED
      BY <1>2, <1>3, <2>1
  <1>7. v.budget = said("budget", 4)
    <2>1. CASE v.profile \in Guarded
      <3>1. "budget" \in Stated(r)
        BY <2>1 DEF Loads, Accepted, SeparateAccepted
      <3> QED
        BY <1>2, <1>3, <3>1, StatedNotDefault
    <2>2. CASE v.profile \notin Guarded
      <3>1. default.budget = 4
        BY <1>4, <1>5, <2>2 DEF DefaultValues
      <3> QED
        BY <1>2, <1>3, <3>1
    <2> QED
      BY <2>1, <2>2
  <1> QED
    BY <1>1, <1>5, <1>6, <1>7

\* No pool the runtime opens goes beyond what the operator said last.
THEOREM AlwaysOpenedAsStated == StartupSpec => []OpenedAsStated
  <1>1. StartupInv /\ PoolsAsAccepted => OpenedAsStated
    <2> SUFFICES ASSUME StartupInv, PoolsAsAccepted, pools # <<>> PROVE OpenedAsStated
      BY DEF OpenedAsStated
    <2>1. PICK v : v = Effective(request)
      OBVIOUS
    <2>2. request \in Requests /\ Loads(request)
      BY DEF StartupInv, StartupTypeOK, PoolsAsAccepted
    <2>4. PICK n \in Nat : n = Len(pools) /\ DOMAIN pools = 1..n
      BY PoolsFacts DEF StartupInv
    <2>5. /\ \A i \in 1..n : i \in 1..3 /\ PoolAccepted(v, pools[i])
          /\ v.profile \in Guarded =>
                \A i, j \in 1..n : pools[i].user = pools[j].user => i = j
          /\ Connections(1) + Connections(2) + Connections(3) <= v.budget
      BY <2>1, <2>4 DEF PoolsAsAccepted
    <2>6. Used[n] <= v.budget
      <3>1. n \in 0..3
        <4>1. CASE n = 0
          BY <4>1
        <4>2. CASE n # 0
          <5>1. n \in 1..n
            BY <4>2
          <5> QED
            BY <2>5, <5>1
        <4> QED
          BY <4>1, <4>2
      <3>2. \A i \in 1..n : pools[i].connections \in Nat
        <4>1. \A i \in 1..n : pools[i].connections \in 1..v.budget
          BY <2>5 DEF PoolAccepted
        <4>2. \A k : 1..k \subseteq Nat
          OBVIOUS
        <4> QED
          BY <4>1, <4>2
      <3>3. Used[n] = Connections(1) + Connections(2) + Connections(3)
        BY <2>4, <3>1, <3>2, UsedIsSum DEF Connections
      <3> QED
        BY <2>5, <3>3
    <2>7. \A i \in 1..n :
             /\ pools[i].host = v.host
             /\ pools[i].host \notin SocketOrLoopback => pools[i].certificate \in DnsNames
             /\ v.profile \in Guarded => pools[i].plan # "combined"
      BY <2>5 DEF PoolAccepted
    <2>8. v.profile \in Guarded => IsInjective([i \in DOMAIN pools |-> pools[i].user])
      BY <2>4, <2>5 DEF IsInjective
    <2> QED
      BY <2>1, <2>2, <2>4, <2>6, <2>7, <2>8, EffectiveAsSaid DEF OpenedAsStated
  <1> QED
    BY <1>1, AlwaysStartupInv, PoolsAlwaysAsAccepted, PTL
=============================================================================
