----------------------------- MODULE PolicyProofs -----------------------------
(***************************************************************************)
(* Theorems of Policy, for any number of callers and any configuration: the *)
(* composition keeps to the specifications of its parts, calls nest, and a  *)
(* refusal ends a call.  With the theorems of BulkheadProofs follows how    *)
(* many callers reach the backend, with those of CircuitBreakerProofs, too, *)
(* what a listener knows and what a policy that nobody uses looks like.     *)
(***************************************************************************)
EXTENDS Policy, FiniteSetTheorems, TLAPS

BP == INSTANCE BulkheadProofs
\* probes and herd only matter to the theorem about ProbeQuota, which is not used here.
CP == INSTANCE CircuitBreakerProofs WITH ResetCalls <- FALSE, probes <- 0, herd <- 0

Domains ==
  DOMAIN at = Callers /\ DOMAIN pc = Callers /\ DOMAIN stage = Callers /\ DOMAIN lastErr = Callers

Nested(c) ==
  /\ pc[c] # "idle" => stage[c] = "attempt"
  /\ stage[c] # "idle" <=> at[c] = "running"

\* A goroutine with a refusal on its hands is on its way out of the loop.
Leaving(c) ==
  lastErr[c] = "circuitOpen" /\ stage[c] # "idle" => stage[c] \in {"judge", "done"}

IInv == Domains /\ \A c \in Callers : Nested(c) /\ Leaving(c)

-----------------------------------------------------------------------------
(***************************************************************************)
(* What the steps of the parts do to the goroutine's places.               *)
(***************************************************************************)
LEMMA LoadStateMoves ==
  ASSUME NEW c \in Callers, CB!LoadState(c)
  PROVE  pc[c] = "idle" /\ \E place : pc' = [pc EXCEPT ![c] = place]
<1>1. pc[c] = "idle"
  BY DEF CB!LoadState
<1> QED
  BY <1>1, Zenon DEF CB!LoadState

LEMMA UnlockMoves ==
  ASSUME NEW c \in Callers, NEW b, NEW next, CB!Unlock(c, b, next)
  PROVE  \E place : pc' = [pc EXCEPT ![c] = place]
BY Zenon DEF CB!Unlock

LEMMA BreakerMoves ==
  ASSUME NEW c \in Callers,
         \/ CB!LoadState(c) \/ CB!AllowWhenOpen(c) \/ CB!AllowWhenHalfOpen(c)
         \/ CB!Succeed(c) \/ CB!Fail(c)
         \/ CB!RecordSuccess(c) \/ CB!RecordFailure(c) \/ CB!Invoke(c)
  PROVE  \E place : pc' = [pc EXCEPT ![c] = place]
<1>1. CASE CB!LoadState(c)
  BY <1>1, LoadStateMoves
<1>2. CASE CB!AllowWhenOpen(c)
  BY <1>2, UnlockMoves, Zenon DEF CB!AllowWhenOpen
<1>3. CASE CB!AllowWhenHalfOpen(c)
  BY <1>3, UnlockMoves, Zenon DEF CB!AllowWhenHalfOpen
<1>4. CASE CB!Succeed(c) \/ CB!Fail(c)
  BY <1>4, Zenon DEF CB!Succeed, CB!Fail, CB!Finish
<1>5. CASE CB!RecordSuccess(c) \/ CB!RecordFailure(c)
  BY <1>5, UnlockMoves, Zenon DEF CB!RecordSuccess, CB!RecordFailure
<1>6. CASE CB!Invoke(c)
  BY <1>6, Zenon DEF CB!Invoke
<1> QED
  BY <1>1, <1>2, <1>3, <1>4, <1>5, <1>6

\* The requests that are in the breaker already.
LEMMA BreakerIsEntered ==
  ASSUME NEW c \in Callers,
         \/ CB!AllowWhenOpen(c) \/ CB!AllowWhenHalfOpen(c)
         \/ CB!Succeed(c) \/ CB!Fail(c)
         \/ CB!RecordSuccess(c) \/ CB!RecordFailure(c) \/ CB!Invoke(c)
  PROVE  pc[c] # "idle"
BY DEF CB!AllowWhenOpen, CB!AllowWhenHalfOpen, CB!Succeed, CB!Fail, CB!Finish,
       CB!RecordSuccess, CB!RecordFailure, CB!Invoke

-----------------------------------------------------------------------------
(***************************************************************************)
(* A step of c leaves the places of the others alone.                      *)
(***************************************************************************)
Others(c) ==
  \A d \in Callers \ {c} :
    /\ at'[d] = at[d] /\ pc'[d] = pc[d]
    /\ stage'[d] = stage[d] /\ lastErr'[d] = lastErr[d]

Holds(c) == Domains' /\ Others(c) /\ Nested(c)' /\ Leaving(c)'

LEMMA StepHolds ==
  ASSUME IInv, NEW c \in Callers, Call(c) \/ Proceed(c)
  PROVE  Holds(c)
<1> USE DEF IInv, Domains, Holds, Others, Nested, Leaving
<1>1. CASE Call(c)
  BY <1>1 DEF Call, BH!TryAcquire, BH!GoTo, breakerVars, retryVars
<1>2. CASE Acquire(c)
  BY <1>2 DEF Acquire, BH!CheckQueue, BH!JoinQueue, BH!TakeSlot, BH!GiveUp, BH!LeaveQueue,
              BH!GoTo, breakerVars, retryVars
<1>3. CASE Enter(c)
  BY <1>3 DEF Enter, BH!Begin, BH!GoTo, RP!Start, RP!GoOn, breakerVars
<1>4. CASE Loop(c)
  <2>1. CASE RP!CheckContext(c)
    BY <1>4, <2>1 DEF Loop, RP!CheckContext, RP!GoOn, breakerVars, bulkheadVars
  <2>2. CASE RP!Judge(c)
    BY <1>4, <2>2 DEF Loop, RP!Judge, RP!GoOn, RP!IsRetryable, breakerVars, bulkheadVars
  <2>3. CASE RP!Backoff(c)
    BY <1>4, <2>3 DEF Loop, RP!Backoff, RP!GoOn, breakerVars, bulkheadVars
  <2> QED
    BY <1>4, <2>1, <2>2, <2>3 DEF Loop
<1>5. CASE Ask(c)
  <2>1. PICK place : pc' = [pc EXCEPT ![c] = place]
    BY <1>5, LoadStateMoves DEF Ask
  <2> QED
    BY <1>5, <2>1 DEF Ask, retryVars, bulkheadVars
<1>6. CASE Answer(c)
  <2>1. PICK place : pc' = [pc EXCEPT ![c] = place]
    BY <1>6, BreakerMoves DEF Answer
  <2>2. stage[c] = "attempt"
    BY <1>6, BreakerIsEntered DEF Answer
  <2> QED
    BY <1>6, <2>1, <2>2 DEF Answer, RP!Return, RP!GoOn, retryVars, bulkheadVars
<1>7. CASE Record(c)
  <2>1. PICK place : pc' = [pc EXCEPT ![c] = place]
    BY <1>7, BreakerMoves DEF Record
  <2>2. stage[c] = "attempt"
    BY <1>7, BreakerIsEntered DEF Record
  <2> QED
    BY <1>7, <2>1, <2>2 DEF Record, RP!Return, RP!GoOn, retryVars, bulkheadVars
<1>8. CASE SucceedWith(c)
  <2>1. PICK place : pc' = [pc EXCEPT ![c] = place]
    BY <1>8, BreakerMoves DEF SucceedWith
  <2>2. stage[c] = "attempt"
    BY <1>8, BreakerIsEntered DEF SucceedWith
  <2> QED
    BY <1>8, <2>1, <2>2 DEF SucceedWith, bulkheadVars
<1>9. ASSUME NEW e \in BackendErrors, FailWith(c, e)
      PROVE  Holds(c)
  <2>1. PICK place : pc' = [pc EXCEPT ![c] = place]
    BY <1>9, BreakerMoves DEF FailWith
  <2>2. stage[c] = "attempt" /\ e # "circuitOpen"
    BY <1>9, BreakerIsEntered, PolicyAssumption DEF FailWith
  <2> QED
    BY <1>9, <2>1, <2>2 DEF FailWith, bulkheadVars
<1>10. CASE Exit(c)
  BY <1>10 DEF Exit, RP!End, RP!GoOn, BH!Finish, BH!GoTo, breakerVars
<1>11. CASE Release(c)
  BY <1>11 DEF Release, Unwind, BH!End, BH!release, BH!GoTo, breakerVars, retryVars
<1> QED
  BY <1>1, <1>2, <1>3, <1>4, <1>5, <1>6, <1>7, <1>8, <1>9, <1>10, <1>11 DEF Proceed

LEMMA InitInv == Init => IInv
BY DEF Init, CB!Init, BH!Init, RP!Init, IInv, Domains, Nested, Leaving

LEMMA NextInv == IInv /\ [Next]_vars => IInv'
<1> SUFFICES ASSUME IInv, [Next]_vars PROVE IInv'
  OBVIOUS
<1>1. ASSUME NEW c \in Callers, Call(c) \/ Proceed(c)
      PROVE  IInv'
  BY <1>1, StepHolds DEF IInv, Holds, Others, Nested, Leaving
<1>2. CASE Elapse \/ UNCHANGED vars
  BY <1>2 DEF Elapse, CB!Elapse, vars, breakerVars, bulkheadVars, retryVars,
              IInv, Domains, Nested, Leaving
<1> QED
  BY <1>1, <1>2 DEF Next

LEMMA Invariance == Spec => []IInv
BY InitInv, NextInv, PTL DEF Spec

-----------------------------------------------------------------------------
(***************************************************************************)
(* A goroutine is inside the breaker only during an attempt, and in the     *)
(* retry loop if and only if the bulkhead runs its operation (Execute,      *)
(* ExecuteWithResult).                                                     *)
(***************************************************************************)
THEOREM CallsAreNested == Spec => []CallsNest
<1>1. IInv => CallsNest
  BY DEF IInv, Nested, CallsNest
<1> QED
  BY <1>1, Invariance, PTL

(***************************************************************************)
(* Whatever the configuration, a call the breaker refused makes no further  *)
(* attempt (IsRetryable, ExecuteWithResult).                               *)
(***************************************************************************)
THEOREM RefusalsAreFinal == Spec => RefusalIsFinal
<1> DEFINE Final == \A c \in Callers : lastErr[c] = "circuitOpen" /\ stage[c] # "idle"
                      => stage'[c] \notin {"check", "attempt", "backoff"}
<1>1. IInv /\ [Next]_vars => [Final]_vars
  <2> SUFFICES ASSUME IInv, Next PROVE Final
    OBVIOUS
  <2>1. ASSUME NEW c \in Callers, lastErr[c] = "circuitOpen", stage[c] # "idle",
               NEW d \in Callers, Call(d) \/ Proceed(d)
        PROVE  stage'[c] \notin {"check", "attempt", "backoff"}
    <3>1. stage[c] \in {"judge", "done"}
      BY <2>1 DEF IInv, Leaving
    <3>2. CASE c # d
      BY <2>1, <3>1, <3>2, StepHolds DEF Holds, Others
    <3>3. CASE c = d
      <4>1. CASE stage'[c] = stage[c]
        BY <3>1, <4>1
      <4>2. CASE stage'[c] # stage[c]
        <5>1. RP!Judge(c) \/ RP!End(c)
          BY <2>1, <3>1, <3>3, <4>2, BreakerIsEntered
             DEF Proceed, Call, Acquire, Enter, Loop, Ask, Answer, Record, SucceedWith,
                 FailWith, Exit, Release, RP!Start, RP!CheckContext, RP!Backoff, RP!Return,
                 IInv, Nested, retryVars
        <5> QED
          BY <2>1, <5>1 DEF RP!Judge, RP!End, RP!GoOn, RP!IsRetryable, IInv, Domains
      <4> QED
        BY <4>1, <4>2
    <3> QED
      BY <3>2, <3>3
  <2>2. CASE Elapse
    BY <2>2 DEF Elapse, retryVars, IInv, Leaving
  <2> QED
    BY <2>1, <2>2 DEF Next
<1> QED
  BY <1>1, Invariance, PTL DEF Spec, RefusalIsFinal

-----------------------------------------------------------------------------
(***************************************************************************)
(* Every step of the composition is a step of the breaker, or leaves it     *)
(* alone: Execute and ExecuteWithResult use it only through its own         *)
(* operations.                                                             *)
(***************************************************************************)
LEMMA BreakerIsImplemented == Spec => CB!Spec
<1>1. Init => CB!Init
  BY DEF Init
<1>2. [Next]_vars => [CB!Next]_CB!breakerVars
  <2> SUFFICES ASSUME [Next]_vars PROVE CB!Next \/ UNCHANGED breakerVars
    BY DEF CB!breakerVars, breakerVars
  <2>1. ASSUME NEW c \in Callers, Call(c) \/ Proceed(c)
        PROVE  CB!Step(c) \/ UNCHANGED breakerVars
    BY <2>1 DEF Call, Proceed, Acquire, Enter, Loop, Ask, Answer, Record, SucceedWith,
                FailWith, Exit, Release, CB!Step
  <2>2. CASE Elapse
    BY <2>2 DEF Elapse, CB!Next
  <2>3. CASE UNCHANGED vars
    BY <2>3 DEF vars
  <2> QED
    BY <2>1, <2>2, <2>3 DEF Next, CB!Next
<1> QED
  BY <1>1, <1>2, PTL DEF Spec, CB!Spec

(***************************************************************************)
(* Every step of the composition leaves the bulkhead alone or is one of its *)
(* steps.                                                                  *)
(***************************************************************************)
LEMMA BulkheadNext == [Next]_vars => [BH!Next]_BH!bulkheadVars
<1> SUFFICES ASSUME [Next]_vars PROVE BH!Next \/ UNCHANGED bulkheadVars
  BY DEF BH!bulkheadVars, bulkheadVars
<1>1. ASSUME NEW c \in Callers, Call(c) \/ Proceed(c)
      PROVE  BH!TryAcquire(c) \/ BH!Proceed(c) \/ UNCHANGED bulkheadVars
  BY <1>1 DEF Call, Proceed, Acquire, Enter, Loop, Ask, Answer, Record, SucceedWith,
              FailWith, Exit, Release, Unwind, BH!Proceed
<1>2. CASE Elapse \/ UNCHANGED vars
  BY <1>2 DEF Elapse, vars
<1> QED
  BY <1>1, <1>2 DEF Next, BH!Next

(***************************************************************************)
(* The two instances of Bulkhead, the one Policy runs and the one whose     *)
(* theorems are used here, are one specification.                          *)
(***************************************************************************)
LEMMA OneStart == BH!Init = BP!Init
BY DEF BH!Init, BP!Init

LEMMA OneStep == BH!Next => BP!Next
<1>1. BH!totalSlots = BP!totalSlots /\ BH!maxQueue = BP!maxQueue
  BY DEF BH!totalSlots, BP!totalSlots, BH!maxConcurrent, BP!maxConcurrent,
         BH!maxQueue, BP!maxQueue
<1> SUFFICES ASSUME NEW c \in Callers, BH!TryAcquire(c) \/ BH!Proceed(c)
             PROVE  BP!TryAcquire(c) \/ BP!Proceed(c)
  BY DEF BH!Next, BP!Next
<1>2. BH!TryAcquire(c) => BP!TryAcquire(c)
  BY <1>1 DEF BH!TryAcquire, BP!TryAcquire, BH!GoTo, BP!GoTo, BH!Bumped, BP!Bumped
<1>3. BH!CheckQueue(c) => BP!CheckQueue(c)
  BY <1>1 DEF BH!CheckQueue, BP!CheckQueue, BH!GoTo, BP!GoTo, BH!Bumped, BP!Bumped
<1>4. BH!JoinQueue(c) => BP!JoinQueue(c)
  BY <1>1 DEF BH!JoinQueue, BP!JoinQueue, BH!GoTo, BP!GoTo, BH!Bumped, BP!Bumped
<1>5. BH!TakeSlot(c) => BP!TakeSlot(c)
  BY <1>1 DEF BH!TakeSlot, BP!TakeSlot, BH!GoTo, BP!GoTo, BH!Bumped, BP!Bumped
<1>6. BH!GiveUp(c) => BP!GiveUp(c)
  BY <1>1 DEF BH!GiveUp, BP!GiveUp, BH!GoTo, BP!GoTo, BH!Bumped, BP!Bumped
<1>7. BH!LeaveQueue(c) => BP!LeaveQueue(c)
  BY <1>1 DEF BH!LeaveQueue, BP!LeaveQueue, BH!GoTo, BP!GoTo, BH!Bumped, BP!Bumped
<1>8. BH!Begin(c) => BP!Begin(c)
  BY <1>1 DEF BH!Begin, BP!Begin, BH!GoTo, BP!GoTo, BH!Bumped, BP!Bumped
<1>9. BH!Finish(c) => BP!Finish(c)
  BY <1>1 DEF BH!Finish, BP!Finish, BH!GoTo, BP!GoTo, BH!Bumped, BP!Bumped
<1>10. BH!End(c) => BP!End(c)
  BY <1>1 DEF BH!End, BP!End, BH!GoTo, BP!GoTo, BH!Bumped, BP!Bumped
<1>11. BH!release(c) => BP!release(c)
  BY <1>1 DEF BH!release, BP!release, BH!GoTo, BP!GoTo, BH!Bumped, BP!Bumped
<1> QED
  BY <1>2, <1>3, <1>4, <1>5, <1>6, <1>7, <1>8, <1>9, <1>10, <1>11 DEF BH!Proceed, BP!Proceed

LEMMA PolicyRunsTheBulkhead == Spec => BP!Spec
<1>1. Init => BP!Init
  BY OneStart DEF Init
<1>2. [Next]_vars => [BP!Next]_BP!bulkheadVars
  BY OneStep, BulkheadNext DEF BH!bulkheadVars, BP!bulkheadVars
<1> QED
  BY <1>1, <1>2, PTL DEF Spec, BP!Spec

LEMMA BulkheadAssumed == BP!BulkheadAssumption
BY PolicyAssumption DEF BP!BulkheadAssumption, BP!IsFiniteSet, IsFiniteSet

(***************************************************************************)
(* However many callers there are, and however often they retry, no more    *)
(* than totalSlots are in the backend at once: those in the backend hold a  *)
(* slot of the bulkhead, and it has one token for each (acquire, release,   *)
(* Execute).                                                               *)
(***************************************************************************)
THEOREM BackendIsShielded == Spec => []BackendLoad
<1>1. BP!BulkheadAssumption
  BY BulkheadAssumed
<1>2. BP!Spec => []BP!TypeOK
  BY <1>1, BP!TypeCorrect
<1>3. BP!Spec => []BP!NothingLeaks
  BY <1>1, BP!SlotsAreReturned
<1>4. Spec => BP!Spec
  BY PolicyRunsTheBulkhead
<1>5. IInv /\ BP!TypeOK /\ BP!NothingLeaks => BackendLoad
  <2> SUFFICES ASSUME IInv, BP!TypeOK, BP!NothingLeaks PROVE BackendLoad
    OBVIOUS
  <2> DEFINE InBackend == {c \in Callers : pc[c] = "running"}
  <2>1. InBackend \subseteq BP!Holding
    BY DEF IInv, Nested, BP!Holding, BP!At
  <2>2. IsFiniteSet(BP!Holding)
    BY PolicyAssumption, FS_Subset DEF BP!Holding, BP!At
  <2>3. Cardinality(InBackend) <= Cardinality(BP!Holding)
    BY <2>1, <2>2, FS_Subset
  <2>4. Cardinality(BP!Holding) = BP!Cardinality(BP!Holding)
    BY Zenon DEF BP!Cardinality, Cardinality
  <2>5. Cardinality(BP!Holding) \in 0..BH!totalSlots
    BY <2>4 DEF BP!TypeOK, BP!NothingLeaks, BP!totalSlots, BP!maxConcurrent, BP!maxQueue,
                BH!totalSlots, BH!maxConcurrent, BH!maxQueue
  <2>6. Cardinality(InBackend) \in Nat
    BY <2>1, <2>2, FS_Subset, FS_CardinalityType
  <2>7. BH!totalSlots \in Int
    BY PolicyAssumption DEF BH!totalSlots, BH!maxConcurrent, BH!maxQueue
  <2> QED
    BY <2>3, <2>5, <2>6, <2>7 DEF BackendLoad
<1> QED
  BY <1>2, <1>3, <1>4, <1>5, Invariance, PTL
-----------------------------------------------------------------------------
(***************************************************************************)
(* The same of the breaker: the instance Policy runs and the one whose      *)
(* theorems are used are one specification.                                *)
(***************************************************************************)
LEMMA OneTransition ==
  ASSUME NEW b, NEW s
  PROVE  CB!transitionTo(b, s) = CP!transitionTo(b, s)
BY Zenon DEF CB!transitionTo, CP!transitionTo, CB!StateClosed, CP!StateClosed, CB!StateOpen,
             CP!StateOpen, CB!StateHalfOpen, CP!StateHalfOpen

LEMMA OneUnlock ==
  ASSUME NEW c, NEW b, NEW next, CB!Unlock(c, b, next)
  PROVE  CP!Unlock(c, b, next)
BY Zenon DEF CB!Unlock, CP!Unlock

LEMMA OneBreaker ==
  ASSUME NEW c \in Callers, CB!Step(c)
  PROVE  CP!Step(c)
<1> USE DEF CB!StateClosed, CP!StateClosed, CB!StateOpen, CP!StateOpen, CB!StateHalfOpen,
            CP!StateHalfOpen
<1>1. CB!LoadState(c) => CP!LoadState(c)
  BY Zenon DEF CB!LoadState, CP!LoadState
<1>2. CB!AllowWhenOpen(c) => CP!AllowWhenOpen(c)
  BY OneTransition, OneUnlock, Zenon DEF CB!AllowWhenOpen, CP!AllowWhenOpen
<1>3. CB!AllowWhenHalfOpen(c) => CP!AllowWhenHalfOpen(c)
  BY OneUnlock, Zenon DEF CB!AllowWhenHalfOpen, CP!AllowWhenHalfOpen,
       CB!halfOpenMaxRequests, CP!halfOpenMaxRequests
<1>4. CB!Succeed(c) \/ CB!Fail(c) => CP!Succeed(c) \/ CP!Fail(c)
  BY Zenon DEF CB!Succeed, CP!Succeed, CB!Fail, CP!Fail, CB!Finish, CP!Finish
<1>5. CB!RecordSuccess(c) => CP!RecordSuccess(c)
  <2>1. CB!afterSuccess(cb) = CP!afterSuccess(cb)
    BY OneTransition, Zenon DEF CB!afterSuccess, CP!afterSuccess, CB!successThreshold,
         CP!successThreshold
  <2> QED
    BY <2>1, OneUnlock, Zenon DEF CB!RecordSuccess, CP!RecordSuccess
<1>6. CB!RecordFailure(c) => CP!RecordFailure(c)
  <2>1. CB!afterFailure(cb) = CP!afterFailure(cb)
    BY OneTransition, Zenon DEF CB!afterFailure, CP!afterFailure, CB!failureThreshold,
         CP!failureThreshold
  <2> QED
    BY <2>1, OneUnlock, Zenon DEF CB!RecordFailure, CP!RecordFailure
<1>7. CB!Invoke(c) => CP!Invoke(c)
  BY Zenon DEF CB!Invoke, CP!Invoke, CB!NoTransition, CP!NoTransition
<1> QED
  BY <1>1, <1>2, <1>3, <1>4, <1>5, <1>6, <1>7, Zenon DEF CB!Step, CP!Step

LEMMA PolicyRunsTheBreaker == Spec => CP!Spec
<1>1. CB!Init => CP!Init
  BY Zenon DEF CB!Init, CP!Init, CB!StateClosed, CP!StateClosed, CB!NoTransition, CP!NoTransition
<1>2. CB!Next => CP!Next
  BY OneBreaker, Zenon DEF CB!Next, CP!Next, CB!Elapse, CP!Elapse, CB!Reset
<1>3. [CB!Next]_CB!breakerVars => [CP!Next]_CP!breakerVars
  BY <1>2 DEF CB!breakerVars, CP!breakerVars
<1>4. CB!Spec => CP!Spec
  BY <1>1, <1>3, PTL DEF CB!Spec, CP!Spec
<1> QED
  BY <1>4, BreakerIsImplemented, PTL

LEMMA BreakerAssumed == CP!BreakerAssumption
BY PolicyAssumption DEF CP!BreakerAssumption, CP!IsFiniteSet, IsFiniteSet

(***************************************************************************)
(* Inside the policy nobody calls Reset: when no callback is outstanding,   *)
(* a listener knows the state of the breaker (Execute, invoke).            *)
(***************************************************************************)
THEOREM PolicyListener == Spec => []CP!ListenerIsUpToDate
<1>1. CP!Spec => []CP!ListenerIsUpToDate
  BY BreakerAssumed, CP!ListenerKnowsTheState
<1> QED
  BY <1>1, PolicyRunsTheBreaker, PTL

LEMMA NobodyIsInside ==
  ASSUME IInv, Quiet
  PROVE  \A c \in Callers : pc[c] = "idle"
BY DEF IInv, Nested, Quiet

LEMMA QuietParts ==
  ASSUME IInv, BP!NothingLeaks, CP!TypeOK, CP!NoProbeLeak, CP!CountersFitState,
         CP!ListenerIsUpToDate
  PROVE  QuietPolicyServes
<1> SUFFICES ASSUME Quiet
             PROVE  /\ semaphore = 0 /\ queued = 0 /\ active = 0
                    /\ seen = cb.state
                    /\ cb.state = CP!StateHalfOpen
                         /\ CP!successThreshold <= CP!halfOpenMaxRequests =>
                         cb.halfOpenRequests < CP!halfOpenMaxRequests
  BY DEF QuietPolicyServes, CB!StateHalfOpen, CP!StateHalfOpen, CB!successThreshold,
         CP!successThreshold, CB!halfOpenMaxRequests, CP!halfOpenMaxRequests
<1>1. \A c \in Callers : pc[c] = "idle"
  BY NobodyIsInside
<1>2. BP!Cardinality({}) = 0
  <2>1. Cardinality({}) = BP!Cardinality({})
    BY Zenon DEF BP!Cardinality, Cardinality
  <2> QED
    BY <2>1, FS_EmptySet
<1>3. CP!Cardinality({}) = 0
  <2>1. Cardinality({}) = CP!Cardinality({})
    BY Zenon DEF CP!Cardinality, Cardinality
  <2> QED
    BY <2>1, FS_EmptySet
<1>4. semaphore = 0 /\ queued = 0 /\ active = 0
  <2>1. BP!Holding = {} /\ BP!Queued = {} /\ BP!Active = {}
    BY DEF Quiet, BP!Holding, BP!Queued, BP!Active, BP!At
  <2> QED
    BY <1>2, <2>1 DEF BP!NothingLeaks
<1>5. seen = cb.state
  BY <1>1 DEF CP!ListenerIsUpToDate
<1>6. CP!InFlight = {}
  BY <1>1 DEF CP!InFlight
<1>7. ASSUME cb.state = CP!StateHalfOpen, CP!successThreshold <= CP!halfOpenMaxRequests
      PROVE  cb.halfOpenRequests < CP!halfOpenMaxRequests
  <2>1. cb.halfOpenRequests <= cb.consecutiveSuccs + 0
    BY <1>3, <1>6, <1>7 DEF CP!NoProbeLeak
  <2>2. cb.consecutiveSuccs < CP!successThreshold
    BY DEF CP!CountersFitState
  <2>3. cb.halfOpenRequests \in Nat /\ cb.consecutiveSuccs \in Nat
    BY DEF CP!TypeOK, CP!Breaker
  <2>4. CP!successThreshold \in Nat /\ CP!halfOpenMaxRequests \in Nat
    BY BreakerAssumed, CP!Thresholds
  <2> QED
    BY <1>7, <2>1, <2>2, <2>3, <2>4
<1> QED
  BY <1>4, <1>5, <1>7

(***************************************************************************)
(* Whatever came before, a policy that nobody is in has its slots back, its *)
(* listener knows the state, and its breaker is not stuck half-open         *)
(* (QuietPolicyServes): what the bulkhead returns and what the breaker      *)
(* counts still adds up when the two are put around the retry loop.         *)
(***************************************************************************)
THEOREM QuietPolicyIsWhole == Spec => []QuietPolicyServes
<1>1. BP!Spec => []BP!NothingLeaks
  BY BulkheadAssumed, BP!SlotsAreReturned
<1>2. CP!Spec => []CP!TypeOK
  BY BreakerAssumed, CP!TypeCorrect
<1>3. CP!Spec => []CP!NoProbeLeak
  BY BreakerAssumed, CP!ProbesAccountedFor
<1>4. CP!Spec => []CP!CountersFitState
  BY BreakerAssumed, CP!CountersAlwaysFit
<1>5. Spec => BP!Spec /\ CP!Spec
  BY PolicyRunsTheBulkhead, PolicyRunsTheBreaker
<1> QED
  BY <1>1, <1>2, <1>3, <1>4, <1>5, Invariance, PolicyListener, QuietParts, PTL
=============================================================================
