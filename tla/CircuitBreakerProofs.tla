------------------------ MODULE CircuitBreakerProofs ------------------------
(***************************************************************************)
(* Theorems of CircuitBreaker and ProbeQuota, for every set of goroutines  *)
(* and every configuration, with or without calls of Reset.                *)
(***************************************************************************)
EXTENDS ProbeQuota, FiniteSetTheorems, TLAPS

(***************************************************************************)
(* NewCircuitBreaker leaves no threshold below one.                        *)
(***************************************************************************)
LEMMA Thresholds ==
  /\ failureThreshold \in Nat \ {0}
  /\ successThreshold \in Nat \ {0}
  /\ halfOpenMaxRequests \in Nat \ {0}
BY BreakerAssumption DEF failureThreshold, successThreshold, halfOpenMaxRequests

(***************************************************************************)
(* The requests in flight can be counted.                                  *)
(***************************************************************************)
LEMMA InFlightFinite ==
  /\ IsFiniteSet(InFlight)
  /\ Cardinality(InFlight) \in Nat
<1>1. InFlight \in SUBSET Callers
  BY DEF InFlight
<1>2. IsFiniteSet(InFlight)
  BY <1>1, FS_Subset, BreakerAssumption
<1> QED
  BY <1>2, FS_CardinalityType

-----------------------------------------------------------------------------
(***************************************************************************)
(* transitionTo, state by state: what it leaves in the fields.             *)
(***************************************************************************)
LEMMA ToClosed ==
  ASSUME NEW b \in Breaker, b.state # StateClosed
  PROVE  LET d == transitionTo(b, StateClosed)
         IN  /\ d \in Breaker
             /\ d.state = StateClosed
             /\ d.consecutiveFails = 0
             /\ d.consecutiveSuccs = 0
             /\ d.halfOpenRequests = 0
<1> DEFINE d == transitionTo(b, StateClosed)
<1>1. d = [b EXCEPT !.state = StateClosed, !.consecutiveFails = 0,
                    !.consecutiveSuccs = 0, !.halfOpenRequests = 0]
  BY DEF transitionTo, StateClosed, StateOpen, StateHalfOpen
<1> HIDE DEF d
<1>2. d \in Breaker
  BY <1>1 DEF Breaker
<1>3. /\ d.state = StateClosed /\ d.consecutiveFails = 0
      /\ d.consecutiveSuccs = 0 /\ d.halfOpenRequests = 0
  BY <1>1 DEF Breaker
<1> QED
  BY <1>2, <1>3 DEF d

LEMMA ToOpen ==
  ASSUME NEW b \in Breaker, b.state # StateOpen
  PROVE  LET d == transitionTo(b, StateOpen)
         IN  /\ d \in Breaker
             /\ d.state = StateOpen
             /\ d.consecutiveSuccs = 0
             /\ d.halfOpenRequests = b.halfOpenRequests
<1> DEFINE d == transitionTo(b, StateOpen)
<1>1. d = [b EXCEPT !.state = StateOpen, !.openElapsed = FALSE, !.consecutiveSuccs = 0]
  BY DEF transitionTo, StateClosed, StateOpen, StateHalfOpen
<1> HIDE DEF d
<1>2. d \in Breaker
  BY <1>1 DEF Breaker
<1>3. d.state = StateOpen /\ d.consecutiveSuccs = 0 /\ d.halfOpenRequests = b.halfOpenRequests
  BY <1>1 DEF Breaker
<1> QED
  BY <1>2, <1>3 DEF d

LEMMA ToHalfOpen ==
  ASSUME NEW b \in Breaker
  PROVE  LET d == transitionTo(b, StateHalfOpen)
         IN  /\ d \in Breaker
             /\ d.state = StateHalfOpen
             /\ d.consecutiveSuccs \in {0, b.consecutiveSuccs}
<1>1. CASE b.state # StateHalfOpen
  <2> DEFINE d == transitionTo(b, StateHalfOpen)
  <2>1. d = [b EXCEPT !.state = StateHalfOpen, !.consecutiveSuccs = 0,
                      !.halfOpenRequests = 0]
    BY <1>1 DEF transitionTo, StateClosed, StateOpen, StateHalfOpen
  <2> HIDE DEF d
  <2>2. d \in Breaker
    BY <2>1 DEF Breaker
  <2>3. d.state = StateHalfOpen /\ d.consecutiveSuccs = 0
    BY <2>1 DEF Breaker
  <2> QED
    BY <2>2, <2>3 DEF d
<1>2. CASE b.state = StateHalfOpen
  BY <1>2 DEF transitionTo, Breaker
<1> QED
  BY <1>1, <1>2

-----------------------------------------------------------------------------
(***************************************************************************)
(* CountersFitState of the fields b, and what each critical section makes  *)
(* of it.                                                                  *)
(***************************************************************************)
FitsState(b) ==
  /\ b.state = StateClosed => b.consecutiveFails < failureThreshold
  /\ b.consecutiveSuccs > 0 => b.state = StateHalfOpen
  /\ b.consecutiveSuccs < successThreshold
  /\ b.halfOpenRequests <= halfOpenMaxRequests

LEMMA AllowOpenLemma ==
  ASSUME NEW b \in Breaker, FitsState(b)
  PROVE  LET d == [transitionTo(b, StateHalfOpen) EXCEPT !.halfOpenRequests = 1]
         IN  /\ d \in Breaker
             /\ FitsState(d)
             /\ d.state = StateHalfOpen
             /\ d.halfOpenRequests = 1
<1> DEFINE t == transitionTo(b, StateHalfOpen)
           d == [t EXCEPT !.halfOpenRequests = 1]
<1>1. t \in Breaker /\ t.state = StateHalfOpen /\ t.consecutiveSuccs \in {0, b.consecutiveSuccs}
  BY ToHalfOpen
<1> HIDE DEF t
<1>2. /\ d \in Breaker /\ d.state = StateHalfOpen /\ d.halfOpenRequests = 1
      /\ d.consecutiveSuccs = t.consecutiveSuccs
  BY <1>1 DEF Breaker
<1> HIDE DEF d
<1>3. FitsState(d)
  BY <1>1, <1>2, Thresholds DEF FitsState, Breaker, StateClosed, StateOpen, StateHalfOpen
<1> QED
  BY <1>2, <1>3 DEF d, t

LEMMA AllowHalfOpenLemma ==
  ASSUME NEW b \in Breaker, FitsState(b),
         b.halfOpenRequests < halfOpenMaxRequests
  PROVE  LET d == [b EXCEPT !.halfOpenRequests = @ + 1]
         IN  /\ d \in Breaker
             /\ FitsState(d)
             /\ d.state = b.state
             /\ d.consecutiveSuccs = b.consecutiveSuccs
             /\ d.halfOpenRequests = b.halfOpenRequests + 1
BY Thresholds DEF Breaker, FitsState, StateClosed, StateOpen, StateHalfOpen

LEMMA SuccessLemma ==
  ASSUME NEW b \in Breaker, FitsState(b)
  PROVE  LET d == afterSuccess(b)
         IN  /\ d \in Breaker
             /\ FitsState(d)
             /\ d.state = StateHalfOpen =>
                  /\ b.state = StateHalfOpen
                  /\ d.halfOpenRequests = b.halfOpenRequests
                  /\ d.consecutiveSuccs = b.consecutiveSuccs + 1
<1>1. CASE b.state = StateClosed
  <2>1. afterSuccess(b) = [b EXCEPT !.consecutiveFails = 0]
    BY <1>1 DEF afterSuccess, StateClosed, StateHalfOpen
  <2> QED
    BY <1>1, <2>1, Thresholds DEF Breaker, FitsState, StateClosed, StateHalfOpen
<1>2. CASE b.state = StateHalfOpen
  <2> DEFINE counted == [b EXCEPT !.consecutiveSuccs = @ + 1]
  <2>1. /\ counted \in Breaker /\ counted.state = StateHalfOpen
        /\ counted.consecutiveSuccs = b.consecutiveSuccs + 1
        /\ counted.halfOpenRequests = b.halfOpenRequests
    BY <1>2 DEF Breaker
  <2>2. afterSuccess(b) = IF counted.consecutiveSuccs >= successThreshold
                            THEN transitionTo(counted, StateClosed) ELSE counted
    BY <1>2 DEF afterSuccess, StateClosed, StateHalfOpen
  <2> HIDE DEF counted
  <2>3. CASE counted.consecutiveSuccs >= successThreshold
    BY <2>1, <2>2, <2>3, ToClosed, Thresholds
       DEF FitsState, StateClosed, StateHalfOpen
  <2>4. CASE ~(counted.consecutiveSuccs >= successThreshold)
    BY <1>2, <2>1, <2>2, <2>4, Thresholds
       DEF FitsState, Breaker, StateClosed, StateHalfOpen
  <2> QED
    BY <2>3, <2>4
<1>3. CASE b.state = StateOpen
  <2>1. afterSuccess(b) = b
    BY <1>3 DEF afterSuccess, StateClosed, StateOpen, StateHalfOpen
  <2> QED
    BY <1>3, <2>1 DEF StateOpen, StateHalfOpen
<1> QED
  BY <1>1, <1>2, <1>3 DEF Breaker

LEMMA FailureLemma ==
  ASSUME NEW b \in Breaker, FitsState(b)
  PROVE  LET d == afterFailure(b)
         IN  /\ d \in Breaker
             /\ FitsState(d)
             /\ d.state # StateHalfOpen
<1>1. CASE b.state = StateClosed
  <2> DEFINE counted == [b EXCEPT !.consecutiveFails = @ + 1]
  <2>1. /\ counted \in Breaker /\ counted.state = StateClosed
        /\ counted.consecutiveFails = b.consecutiveFails + 1
        /\ counted.consecutiveSuccs = b.consecutiveSuccs
        /\ counted.halfOpenRequests = b.halfOpenRequests
    BY <1>1 DEF Breaker
  <2>2. afterFailure(b) = IF counted.consecutiveFails >= failureThreshold
                            THEN transitionTo(counted, StateOpen) ELSE counted
    BY <1>1 DEF afterFailure, StateClosed, StateHalfOpen
  <2> HIDE DEF counted
  <2>3. CASE counted.consecutiveFails >= failureThreshold
    BY <2>1, <2>2, <2>3, ToOpen, Thresholds
       DEF FitsState, StateClosed, StateOpen, StateHalfOpen
  <2>4. CASE ~(counted.consecutiveFails >= failureThreshold)
    BY <1>1, <2>1, <2>2, <2>4, Thresholds
       DEF FitsState, Breaker, StateClosed, StateHalfOpen
  <2> QED
    BY <2>3, <2>4
<1>2. CASE b.state = StateHalfOpen
  <2>1. afterFailure(b) = transitionTo(b, StateOpen)
    BY <1>2 DEF afterFailure, StateClosed, StateHalfOpen
  <2> QED
    BY <1>2, <2>1, ToOpen, Thresholds DEF FitsState, StateClosed, StateOpen, StateHalfOpen
<1>3. CASE b.state = StateOpen
  <2>1. afterFailure(b) = b
    BY <1>3 DEF afterFailure, StateClosed, StateOpen, StateHalfOpen
  <2> QED
    BY <1>3, <2>1 DEF StateOpen, StateHalfOpen
<1> QED
  BY <1>1, <1>2, <1>3 DEF Breaker

-----------------------------------------------------------------------------
(***************************************************************************)
(* The inductive invariant.                                                *)
(***************************************************************************)
IInv == TypeOK /\ CountersFitState /\ NoProbeLeak

LEMMA UnlockType ==
  ASSUME TypeOK, NEW c \in Callers, NEW b \in Breaker,
         NEW next \in PCs, Unlock(c, b, next)
  PROVE  TypeOK'
<1>1. [from |-> cb.state, to |-> b.state] \in Transitions
  BY DEF TypeOK, Breaker, Transitions, StateClosed, StateOpen, StateHalfOpen
<1>2. pending' \in [Callers -> Transitions]
  BY <1>1 DEF TypeOK, Unlock
<1>3. pc' \in [Callers -> PCs]
  BY DEF TypeOK, Unlock, PCs
<1> QED
  BY <1>2, <1>3 DEF TypeOK, Unlock

(***************************************************************************)
(* Unlock touches no goroutine but its own, which is in flight afterwards  *)
(* iff it goes on with its request or has a move to half-open to report.   *)
(***************************************************************************)
LEMMA UnlockInFlight ==
  ASSUME TypeOK, NEW c \in Callers, NEW b \in Breaker,
         NEW next \in {"idle", "running"}, Unlock(c, b, next),
         b.state # cb.state /\ next = "running" => b.state = StateHalfOpen,
         b.state # cb.state /\ next = "idle" => b.state # StateHalfOpen
  PROVE  InFlight' = IF next = "running" THEN InFlight \cup {c} ELSE InFlight \ {c}
<1>1. ASSUME NEW d \in Callers, d # c
      PROVE  pc'[d] = pc[d] /\ pending'[d] = pending[d]
  BY <1>1 DEF TypeOK, Unlock
<1>2. c \in InFlight' <=> next = "running"
  <2>1. CASE b.state # cb.state
    <3>1. pc'[c] = "notify" /\ pending'[c].to = b.state
      BY <2>1 DEF TypeOK, Unlock
    <3> QED
      BY <2>1, <3>1 DEF InFlight
  <2>2. CASE b.state = cb.state
    <3>1. pc'[c] = next
      BY <2>2 DEF TypeOK, Unlock
    <3> QED
      BY <3>1 DEF InFlight
  <2> QED
    BY <2>1, <2>2
<1>3. \A d \in Callers : d # c => (d \in InFlight' <=> d \in InFlight)
  BY <1>1 DEF InFlight
<1>4. InFlight \subseteq Callers /\ InFlight' \subseteq Callers
  BY DEF InFlight
<1> QED
  BY <1>2, <1>3, <1>4
-----------------------------------------------------------------------------
LEMMA FitsEquiv == CountersFitState <=> FitsState(cb)
BY DEF CountersFitState, FitsState

LEMMA InitInv == Init => IInv
<1> SUFFICES ASSUME Init PROVE IInv
  OBVIOUS
<1>1. TypeOK
  BY DEF Init, TypeOK, Breaker, PCs, Transitions, NoTransition,
         StateClosed, StateOpen, StateHalfOpen
<1>2. CountersFitState
  BY Thresholds DEF Init, CountersFitState, StateClosed, StateHalfOpen
<1>3. NoProbeLeak
  BY DEF Init, NoProbeLeak, StateClosed, StateHalfOpen
<1> QED
  BY <1>1, <1>2, <1>3 DEF IInv

(***************************************************************************)
(* One case per action.  Only the steps that grant a request or record an  *)
(* outcome disturb the account of the probes.                              *)
(***************************************************************************)
LEMMA StepInv ==
  ASSUME IInv, NEW c \in Callers, Step(c)
  PROVE  IInv'
<1> USE DEF IInv
<1>0. /\ cb \in Breaker /\ FitsState(cb) /\ TypeOK
      /\ Cardinality(InFlight) \in Nat
      /\ IsFiniteSet(InFlight)
  BY FitsEquiv, InFlightFinite DEF TypeOK
<1>a. CountersFitState' <=> FitsState(cb')
  BY DEF CountersFitState, FitsState, failureThreshold, successThreshold, halfOpenMaxRequests
<1>1. CASE LoadState(c)
  <2>1. TypeOK' /\ cb' = cb
    BY <1>0, <1>1 DEF TypeOK, LoadState, PCs, Breaker
  <2>2. cb.state = StateHalfOpen => InFlight' = InFlight
    <3>1. cb.state = StateHalfOpen => pc' = [pc EXCEPT ![c] = "sawHalfOpen"]
      BY <1>1 DEF LoadState, StateClosed, StateOpen, StateHalfOpen
    <3> QED
      BY <1>1, <3>1 DEF LoadState, InFlight, TypeOK
  <2> QED
    BY <1>0, <1>a, <2>1, <2>2 DEF NoProbeLeak
<1>2. CASE AllowWhenOpen(c)
  <2>1. CASE cb.openElapsed
    <3> DEFINE d == [transitionTo(cb, StateHalfOpen) EXCEPT !.halfOpenRequests = 1]
    <3>1. Unlock(c, d, "running")
      BY <1>2, <2>1 DEF AllowWhenOpen
    <3>2. d \in Breaker /\ FitsState(d) /\ d.state = StateHalfOpen /\ d.halfOpenRequests = 1
      BY <1>0, AllowOpenLemma
    <3> HIDE DEF d
    <3>3. cb' = d
      BY <3>1 DEF Unlock
    <3>4. TypeOK'
      BY <1>0, <3>1, <3>2, UnlockType DEF PCs
    <3>5. InFlight' = InFlight \cup {c}
      BY <1>0, <3>1, <3>2, UnlockInFlight
    <3>6. Cardinality(InFlight') = Cardinality(InFlight) + 1
      <4>1. c \notin InFlight
        BY <1>2 DEF AllowWhenOpen, InFlight
      <4> QED
        BY <1>0, <3>5, <4>1, FS_AddElement
    <3>7. NoProbeLeak'
      BY <1>0, <3>2, <3>3, <3>6 DEF NoProbeLeak, Breaker
    <3> QED
      BY <1>a, <3>2, <3>3, <3>4, <3>7
  <2>2. CASE ~cb.openElapsed
    <3>1. Unlock(c, cb, "idle") /\ cb' = cb
      BY <1>2, <2>2 DEF AllowWhenOpen, Unlock
    <3>2. TypeOK'
      BY <1>0, <3>1, UnlockType DEF PCs
    <3>3. InFlight' = InFlight \ {c} /\ c \notin InFlight
      BY <1>0, <1>2, <3>1, UnlockInFlight DEF AllowWhenOpen, InFlight
    <3>4. InFlight' = InFlight
      BY <3>3
    <3> QED
      BY <1>0, <1>a, <3>1, <3>2, <3>4 DEF NoProbeLeak
  <2> QED
    BY <2>1, <2>2
<1>3. CASE AllowWhenHalfOpen(c)
  <2>0. c \notin InFlight
    BY <1>3 DEF AllowWhenHalfOpen, InFlight
  <2>1. CASE cb.halfOpenRequests < halfOpenMaxRequests
    <3> DEFINE d == [cb EXCEPT !.halfOpenRequests = @ + 1]
    <3>1. Unlock(c, d, "running")
      BY <1>3, <2>1 DEF AllowWhenHalfOpen
    <3>2. /\ d \in Breaker /\ FitsState(d) /\ d.state = cb.state
          /\ d.consecutiveSuccs = cb.consecutiveSuccs
          /\ d.halfOpenRequests = cb.halfOpenRequests + 1
      BY <1>0, <2>1, AllowHalfOpenLemma
    <3> HIDE DEF d
    <3>3. cb' = d
      BY <3>1 DEF Unlock
    <3>4. TypeOK'
      BY <1>0, <3>1, <3>2, UnlockType DEF PCs
    <3>5. InFlight' = InFlight \cup {c}
      BY <1>0, <3>1, <3>2, UnlockInFlight
    <3>6. Cardinality(InFlight') = Cardinality(InFlight) + 1
      BY <1>0, <2>0, <3>5, FS_AddElement
    <3>7. NoProbeLeak'
      BY <1>0, <3>2, <3>3, <3>6 DEF NoProbeLeak, Breaker
    <3> QED
      BY <1>a, <3>2, <3>3, <3>4, <3>7
  <2>2. CASE ~(cb.halfOpenRequests < halfOpenMaxRequests)
    <3>1. Unlock(c, cb, "idle") /\ cb' = cb
      BY <1>3, <2>2 DEF AllowWhenHalfOpen, Unlock
    <3>2. TypeOK'
      BY <1>0, <3>1, UnlockType DEF PCs
    <3>3. InFlight' = InFlight
      BY <1>0, <2>0, <3>1, UnlockInFlight
    <3> QED
      BY <1>0, <1>a, <3>1, <3>2, <3>3 DEF NoProbeLeak
  <2> QED
    BY <2>1, <2>2
<1>4. CASE Succeed(c) \/ Fail(c)
  <2>1. PICK outcome \in {"succeeded", "failed"} : Finish(c, outcome)
    BY <1>4 DEF Succeed, Fail
  <2>2. TypeOK' /\ cb' = cb
    BY <1>0, <2>1 DEF TypeOK, Finish, PCs
  <2>3. InFlight' = InFlight
    BY <1>0, <2>1 DEF Finish, InFlight, TypeOK
  <2> QED
    BY <1>0, <1>a, <2>2, <2>3 DEF NoProbeLeak
<1>5. CASE RecordSuccess(c)
  <2> DEFINE d == afterSuccess(cb)
  <2>1. Unlock(c, d, "idle") /\ c \in InFlight
    BY <1>5 DEF RecordSuccess, InFlight
  <2>2. /\ d \in Breaker /\ FitsState(d)
        /\ d.state = StateHalfOpen =>
             /\ cb.state = StateHalfOpen
             /\ d.halfOpenRequests = cb.halfOpenRequests
             /\ d.consecutiveSuccs = cb.consecutiveSuccs + 1
    BY <1>0, SuccessLemma
  <2> HIDE DEF d
  <2>3. cb' = d
    BY <2>1 DEF Unlock
  <2>4. TypeOK'
    BY <1>0, <2>1, <2>2, UnlockType DEF PCs
  <2>5. InFlight' = InFlight \ {c}
    BY <1>0, <2>1, <2>2, UnlockInFlight
  <2>6. Cardinality(InFlight') = Cardinality(InFlight) - 1
    BY <1>0, <2>1, <2>5, FS_RemoveElement
  <2>7. NoProbeLeak'
    BY <1>0, <2>2, <2>3, <2>6 DEF NoProbeLeak, Breaker
  <2> QED
    BY <1>a, <2>2, <2>3, <2>4, <2>7
<1>6. CASE RecordFailure(c)
  <2> DEFINE d == afterFailure(cb)
  <2>1. Unlock(c, d, "idle") /\ cb' = d
    BY <1>6 DEF RecordFailure, Unlock
  <2>2. d \in Breaker /\ FitsState(d) /\ d.state # StateHalfOpen
    BY <1>0, FailureLemma
  <2> HIDE DEF d
  <2>3. TypeOK'
    BY <1>0, <2>1, <2>2, UnlockType DEF PCs
  <2> QED
    BY <1>a, <2>1, <2>2, <2>3 DEF NoProbeLeak
<1>7. CASE Invoke(c)
  <2>1. TypeOK' /\ cb' = cb
    <3>1. seen' \in 0..2
      BY <1>0, <1>7 DEF TypeOK, Invoke, Transitions
    <3>2. pc' \in [Callers -> PCs] /\ pending' \in [Callers -> Transitions]
      BY <1>0, <1>7 DEF TypeOK, Invoke, PCs, Transitions, NoTransition, StateClosed
    <3> QED
      BY <1>0, <1>7, <3>1, <3>2 DEF TypeOK, Invoke
  <2>2. InFlight' = InFlight
    BY <1>0, <1>7 DEF Invoke, InFlight, TypeOK, NoTransition, StateClosed, StateHalfOpen
  <2> QED
    BY <1>0, <1>a, <2>1, <2>2 DEF NoProbeLeak
<1> QED
  BY <1>1, <1>2, <1>3, <1>4, <1>5, <1>6, <1>7 DEF Step

LEMMA NextInv == IInv /\ [Next]_breakerVars => IInv'
<1> SUFFICES ASSUME IInv, [Next]_breakerVars PROVE IInv'
  OBVIOUS
<1> USE DEF IInv
<1>1. CASE Elapse
  <2>1. TypeOK'
    BY <1>1 DEF TypeOK, Elapse, Breaker
  <2>2. /\ cb'.state = cb.state
        /\ cb'.consecutiveFails = cb.consecutiveFails
        /\ cb'.consecutiveSuccs = cb.consecutiveSuccs
        /\ cb'.halfOpenRequests = cb.halfOpenRequests
        /\ InFlight' = InFlight
    BY <1>1 DEF TypeOK, Elapse, Breaker, InFlight
  <2>3. CountersFitState'
    BY <2>2 DEF CountersFitState, failureThreshold, successThreshold, halfOpenMaxRequests
  <2> QED
    BY <2>1, <2>2, <2>3 DEF NoProbeLeak
<1>2. CASE Reset
  <2>1. /\ cb' \in Breaker /\ cb'.state = StateClosed
        /\ cb'.consecutiveFails = 0 /\ cb'.consecutiveSuccs = 0
        /\ cb'.halfOpenRequests = 0
    <3> DEFINE d == [cb EXCEPT !.state = StateClosed, !.consecutiveFails = 0,
                               !.consecutiveSuccs = 0, !.halfOpenRequests = 0]
    <3>1. cb' = d /\ cb \in Breaker
      BY <1>2 DEF Reset, TypeOK
    <3>2. cb' \in Breaker
      BY <3>1 DEF Breaker
    <3> QED
      BY <3>1, <3>2 DEF Breaker
  <2>2. TypeOK'
    BY <1>2, <2>1 DEF TypeOK, Reset
  <2>3. CountersFitState'
    BY <2>1, Thresholds DEF CountersFitState, failureThreshold, successThreshold,
                            halfOpenMaxRequests, StateClosed, StateHalfOpen
  <2> QED
    BY <2>1, <2>2, <2>3 DEF NoProbeLeak, StateClosed, StateHalfOpen
<1>3. ASSUME NEW c \in Callers, Step(c) PROVE IInv'
  BY <1>3, StepInv
<1>4. CASE UNCHANGED breakerVars
  <2>1. cb' = cb /\ pc' = pc /\ pending' = pending /\ seen' = seen
    BY <1>4 DEF breakerVars
  <2>2. InFlight' = InFlight
    BY <2>1 DEF InFlight
  <2> QED
    BY <2>1, <2>2 DEF TypeOK, CountersFitState, NoProbeLeak,
                      failureThreshold, successThreshold, halfOpenMaxRequests
<1> QED
  BY <1>1, <1>2, <1>3, <1>4 DEF Next

LEMMA Invariance == Spec => []IInv
<1> QED
  BY InitInv, NextInv, PTL DEF Spec

-----------------------------------------------------------------------------
(***************************************************************************)
(* The fields stay in their ranges.                                        *)
(***************************************************************************)
THEOREM TypeCorrect == Spec => []TypeOK
<1>1. IInv => TypeOK
  BY DEF IInv
<1> QED
  BY <1>1, Invariance, PTL

(***************************************************************************)
(* The counters fit the state, for any number of goroutines, any           *)
(* thresholds, and with Reset called at any time (CountersFitState).       *)
(***************************************************************************)
THEOREM CountersAlwaysFit == Spec => []CountersFitState
<1>1. IInv => CountersFitState
  BY DEF IInv
<1> QED
  BY <1>1, Invariance, PTL

(***************************************************************************)
(* No probe leaks (NoProbeLeak).                                           *)
(***************************************************************************)
THEOREM ProbesAccountedFor == Spec => []NoProbeLeak
<1>1. IInv => NoProbeLeak
  BY DEF IInv
<1> QED
  BY <1>1, Invariance, PTL

-----------------------------------------------------------------------------
(***************************************************************************)
(* Only a goroutine at "notify" has a transition to report.                *)
(***************************************************************************)
OnlyNotifiersOwe ==
  \A c \in Callers : pc[c] # "notify" => pending[c] = NoTransition

LEMMA OweInit == Init => OnlyNotifiersOwe
BY DEF Init, OnlyNotifiersOwe

LEMMA OweStep == TypeOK /\ OnlyNotifiersOwe /\ [Next]_breakerVars => OnlyNotifiersOwe'
<1> SUFFICES ASSUME TypeOK, OnlyNotifiersOwe, [Next]_breakerVars,
                    NEW d \in Callers, pc'[d] # "notify"
             PROVE  pending'[d] = NoTransition
  BY DEF OnlyNotifiersOwe
<1>0. pc \in [Callers -> PCs] /\ pending \in [Callers -> Transitions]
  BY DEF TypeOK
<1>1. ASSUME NEW c \in Callers, NEW b, NEW next, Unlock(c, b, next), pc[c] # "notify"
      PROVE  pending'[d] = NoTransition
  BY <1>0, <1>1 DEF Unlock, OnlyNotifiersOwe
<1>2. ASSUME NEW c \in Callers, LoadState(c) \/ Succeed(c) \/ Fail(c)
      PROVE  pending'[d] = NoTransition
  <2>1. pending' = pending /\ pc[c] # "notify" /\ (d # c => pc'[d] = pc[d])
    BY <1>0, <1>2 DEF LoadState, Succeed, Fail, Finish
  <2> QED
    BY <2>1 DEF OnlyNotifiersOwe
<1>3. ASSUME NEW c \in Callers,
             AllowWhenOpen(c) \/ AllowWhenHalfOpen(c) \/ RecordSuccess(c) \/ RecordFailure(c)
      PROVE  pending'[d] = NoTransition
  <2>1. pc[c] # "notify" /\ \E b, next : Unlock(c, b, next)
    BY <1>3 DEF AllowWhenOpen, AllowWhenHalfOpen, RecordSuccess, RecordFailure
  <2> QED
    BY <1>1, <2>1
<1>4. ASSUME NEW c \in Callers, Invoke(c) PROVE pending'[d] = NoTransition
  BY <1>0, <1>4 DEF Invoke, OnlyNotifiersOwe
<1>5. CASE Elapse \/ Reset \/ UNCHANGED breakerVars
  BY <1>5 DEF Elapse, Reset, breakerVars, OnlyNotifiersOwe
<1> QED
  BY <1>2, <1>3, <1>4, <1>5 DEF Next, Step

LEMMA OweInvariance == Spec => []OnlyNotifiersOwe
<1>1. IInv /\ OnlyNotifiersOwe /\ [Next]_breakerVars => OnlyNotifiersOwe'
  BY OweStep DEF IInv
<1> QED
  BY <1>1, OweInit, Invariance, PTL DEF Spec

(***************************************************************************)
(* What is owed follows the one goroutine whose transition changes.        *)
(***************************************************************************)
LEMMA OwingFinite ==
  ASSUME NEW k
  PROVE  IsFiniteSet(Owing(k)) /\ Cardinality(Owing(k)) \in Nat
<1>1. Owing(k) \in SUBSET Callers
  BY DEF Owing
<1>2. IsFiniteSet(Owing(k))
  BY <1>1, FS_Subset, BreakerAssumption
<1> QED
  BY <1>2, FS_CardinalityType

LEMMA OwingChange ==
  ASSUME TypeOK, NEW c \in Callers, NEW t \in Transitions,
         pending' = [pending EXCEPT ![c] = t], NEW k
  PROVE  Cardinality(Owing(k)') = Cardinality(Owing(k))
           + (IF Worth(t) = k THEN 1 ELSE 0) - (IF Worth(pending[c]) = k THEN 1 ELSE 0)
<1>1. /\ pending'[c] = t
      /\ \A d \in Callers : d # c => pending'[d] = pending[d]
  BY DEF TypeOK
<1>2. Owing(k)' = {d \in Callers : Worth(pending'[d]) = k}
  BY DEF Owing, Worth
<1>3. \A d \in Callers : (d \in Owing(k)' <=> Worth(pending'[d]) = k)
                      /\ (d \in Owing(k) <=> Worth(pending[d]) = k)
  BY <1>2 DEF Owing
<1>4. Owing(k) \subseteq Callers /\ Owing(k)' \subseteq Callers
  BY <1>2 DEF Owing
<1>5. IsFiniteSet(Owing(k)) /\ Cardinality(Owing(k)) \in Nat
  BY OwingFinite
<1>6. CASE Worth(t) = k <=> Worth(pending[c]) = k
  <2>1. Owing(k)' = Owing(k)
    BY <1>1, <1>3, <1>4, <1>6
  <2> QED
    BY <1>5, <1>6, <2>1
<1>7. CASE Worth(t) = k /\ Worth(pending[c]) # k
  <2>1. Owing(k)' = Owing(k) \cup {c} /\ c \notin Owing(k)
    BY <1>1, <1>3, <1>4, <1>7
  <2>2. Cardinality(Owing(k)') = Cardinality(Owing(k)) + 1
    BY <1>5, <2>1, FS_AddElement
  <2> QED
    BY <1>5, <1>7, <2>2
<1>8. CASE Worth(t) # k /\ Worth(pending[c]) = k
  <2>1. Owing(k)' = Owing(k) \ {c} /\ c \in Owing(k)
    BY <1>1, <1>3, <1>4, <1>8
  <2>2. Cardinality(Owing(k)') = Cardinality(Owing(k)) - 1
    BY <1>5, <2>1, FS_RemoveElement
  <2> QED
    BY <1>5, <1>8, <2>2
<1> QED
  BY <1>6, <1>7, <1>8

Owed == Cardinality(Owing(1)) + 2 * Cardinality(Owing(2))

LEMMA OwedChange ==
  ASSUME TypeOK, NEW c \in Callers, NEW t \in Transitions,
         pending' = [pending EXCEPT ![c] = t]
  PROVE  /\ Owed \in Nat
         /\ Worth(t) \in 0..2 /\ Worth(pending[c]) \in 0..2
         /\ Owed' = Owed + Worth(t) - Worth(pending[c])
<1>1. Worth(t) \in 0..2 /\ Worth(pending[c]) \in 0..2
  BY DEF TypeOK, Transitions, Worth
<1>2. Cardinality(Owing(1)) \in Nat /\ Cardinality(Owing(2)) \in Nat
  BY OwingFinite
<1>3. /\ Cardinality(Owing(1)') = Cardinality(Owing(1))
           + (IF Worth(t) = 1 THEN 1 ELSE 0) - (IF Worth(pending[c]) = 1 THEN 1 ELSE 0)
      /\ Cardinality(Owing(2)') = Cardinality(Owing(2))
           + (IF Worth(t) = 2 THEN 1 ELSE 0) - (IF Worth(pending[c]) = 2 THEN 1 ELSE 0)
  BY OwingChange
<1>4. Owed' = Cardinality(Owing(1)') + 2 * Cardinality(Owing(2)')
  BY DEF Owed
<1> QED
  BY <1>1, <1>2, <1>3, <1>4 DEF Owed

(***************************************************************************)
(* Each critical section owes the listener what it changes the state by,   *)
(* and each callback pays what was owed.                                   *)
(***************************************************************************)
LEMMA ToldOwed ==
  ASSUME seen \in 0..2, seen' \in 0..2
  PROVE  Told = seen + Owed /\ Told' = seen' + Owed'
<1>1. Cardinality(Owing(1)) \in Nat /\ Cardinality(Owing(2)) \in Nat
  BY OwingFinite
<1>2. Owing(1)' \in SUBSET Callers /\ Owing(2)' \in SUBSET Callers
  BY DEF Owing
<1>3. Cardinality(Owing(1)') \in Nat /\ Cardinality(Owing(2)') \in Nat
  BY <1>2, FS_Subset, FS_CardinalityType, BreakerAssumption
<1> QED
  BY <1>1, <1>3 DEF Told, Owed

AddsUp == (Told' - Told) % 3 = (cb'.state - cb.state) % 3

LEMMA UnlockAddsUp ==
  ASSUME TypeOK, OnlyNotifiersOwe, NEW c \in Callers, NEW b \in Breaker, NEW next,
         Unlock(c, b, next), pc[c] # "notify"
  PROVE  AddsUp
<1>0. seen \in 0..2 /\ cb.state \in 0..2 /\ b.state \in 0..2 /\ cb' = b /\ seen' = seen
  BY DEF TypeOK, Breaker, Unlock, StateClosed, StateOpen, StateHalfOpen
<1>1. Told = seen + Owed /\ Told' = seen' + Owed'
  BY <1>0, ToldOwed
<1>2. CASE b.state # cb.state
  <2> DEFINE t == [from |-> cb.state, to |-> b.state]
  <2>1. t \in Transitions /\ pending' = [pending EXCEPT ![c] = t]
    BY <1>0, <1>2 DEF Unlock, Transitions
  <2>2. pending[c] = NoTransition
    BY DEF OnlyNotifiersOwe
  <2>3. Worth(t) = (b.state - cb.state) % 3 /\ Worth(pending[c]) = 0
    BY <2>2 DEF Worth, NoTransition, StateClosed
  <2> HIDE DEF t
  <2>4. /\ Owed \in Nat /\ Worth(t) \in 0..2
        /\ Owed' = Owed + Worth(t) - Worth(pending[c])
    BY <2>1, OwedChange
  <2>5. Worth(pending[c]) = 0
    BY <2>3
  <2>6. Told' - Told = Worth(t)
    BY <1>0, <1>1, <2>4, <2>5
  <2>7. Worth(t) % 3 = Worth(t)
    BY <2>4
  <2> QED
    BY <1>0, <2>3, <2>6, <2>7 DEF AddsUp
<1>3. CASE b.state = cb.state
  <2>1. pending' = pending
    BY <1>3 DEF Unlock
  <2>2. Owed' = Owed
    BY <2>1 DEF Owed, Owing, Worth
  <2>3. Owed \in Nat
    BY OwingFinite DEF Owed
  <2>4. Told' - Told = 0 /\ b.state - cb.state = 0
    BY <1>0, <1>1, <1>3, <2>2, <2>3
  <2> QED
    BY <1>0, <2>4 DEF AddsUp
<1> QED
  BY <1>2, <1>3

LEMMA Modulo3 ==
  ASSUME NEW s \in 0..2, NEW to \in 0..2, NEW from \in 0..2
  PROVE  /\ (s + to - from) % 3 \in 0..2
         /\ (((s + to - from) % 3) - s - ((to - from) % 3)) % 3 = 0
<1>1. s \in {0, 1, 2} /\ to - from \in {-2, -1, 0, 1, 2}
  OBVIOUS
<1>2. PICK d \in {-2, -1, 0, 1, 2} : d = to - from
  BY <1>1
<1>3. s + to - from = s + d
  BY <1>2
<1>4. (s + d) % 3 \in 0..2 /\ (((s + d) % 3) - s - (d % 3)) % 3 = 0
  BY <1>1
<1> QED
  BY <1>2, <1>3, <1>4

LEMMA InvokeAddsUp ==
  ASSUME TypeOK, NEW c \in Callers, Invoke(c)
  PROVE  AddsUp
<1>1. NoTransition \in Transitions /\ Worth(NoTransition) = 0
  BY DEF NoTransition, Transitions, StateClosed, Worth
<1>2. /\ pending' = [pending EXCEPT ![c] = NoTransition] /\ cb' = cb
      /\ seen' = (seen + pending[c].to - pending[c].from) % 3
  BY DEF Invoke
<1>3. /\ Owed \in Nat /\ Worth(pending[c]) \in 0..2
      /\ Owed' = Owed - Worth(pending[c])
  <2>1. /\ Owed \in Nat /\ Worth(pending[c]) \in 0..2
        /\ Owed' = Owed + Worth(NoTransition) - Worth(pending[c])
    BY <1>1, <1>2, OwedChange
  <2> QED
    BY <1>1, <2>1
<1>4. pending[c].to \in 0..2 /\ pending[c].from \in 0..2 /\ seen \in 0..2
  BY DEF TypeOK, Transitions
<1>5. seen' \in 0..2
  BY <1>2, <1>4, Modulo3
<1>6. (seen' - seen - Worth(pending[c])) % 3 = 0
  BY <1>2, <1>4, Modulo3 DEF Worth
<1>7. Told' - Told = seen' - seen - Worth(pending[c])
  <2>1. Told = seen + Owed /\ Told' = seen' + Owed'
    BY <1>4, <1>5, ToldOwed
  <2> QED
    BY <1>3, <1>4, <1>5, <2>1
<1>8. cb'.state - cb.state = 0
  BY <1>2 DEF TypeOK, Breaker, StateClosed, StateOpen, StateHalfOpen
<1> QED
  BY <1>6, <1>7, <1>8 DEF AddsUp

LEMMA AllAddUp ==
  IInv /\ OnlyNotifiersOwe /\ [Next]_breakerVars => Reset \/ AddsUp
<1> SUFFICES ASSUME IInv, OnlyNotifiersOwe, [Next]_breakerVars, ~Reset
             PROVE  AddsUp
  OBVIOUS
<1>0. TypeOK /\ cb \in Breaker /\ cb.state \in 0..2 /\ seen \in 0..2 /\ FitsState(cb)
  BY FitsEquiv DEF IInv, TypeOK, Breaker, StateClosed, StateOpen, StateHalfOpen
<1>1. ASSUME cb'.state = cb.state, seen' = seen, pending' = pending
      PROVE  AddsUp
  <2>1. Owing(1)' = Owing(1) /\ Owing(2)' = Owing(2)
    BY <1>1 DEF Owing, Worth
  <2>2. Told' = Told /\ Told \in Int
    <3>1. Cardinality(Owing(1)) \in Nat /\ Cardinality(Owing(2)) \in Nat
      BY OwingFinite
    <3> QED
      BY <1>0, <1>1, <2>1, <3>1 DEF Told
  <2> QED
    BY <1>0, <1>1, <2>2 DEF AddsUp
<1>2. CASE Elapse \/ UNCHANGED breakerVars
  <2>1. cb'.state = cb.state
    BY <1>0, <1>2 DEF Elapse, breakerVars, Breaker
  <2> QED
    BY <1>1, <1>2, <2>1 DEF Elapse, breakerVars
<1>3. ASSUME NEW c \in Callers, LoadState(c) \/ Succeed(c) \/ Fail(c)
      PROVE  AddsUp
  BY <1>1, <1>3 DEF LoadState, Succeed, Fail, Finish
<1>4. ASSUME NEW c \in Callers,
             AllowWhenOpen(c) \/ AllowWhenHalfOpen(c) \/ RecordSuccess(c) \/ RecordFailure(c)
      PROVE  AddsUp
  <2>1. pc[c] # "notify"
    BY <1>4 DEF AllowWhenOpen, AllowWhenHalfOpen, RecordSuccess, RecordFailure
  <2>2. PICK b \in Breaker : \E next : Unlock(c, b, next)
    <3>1. CASE AllowWhenOpen(c)
      <4>1. [transitionTo(cb, StateHalfOpen) EXCEPT !.halfOpenRequests = 1] \in Breaker
        <5>1. transitionTo(cb, StateHalfOpen) \in Breaker
          BY <1>0, ToHalfOpen
        <5> QED
          BY <5>1 DEF Breaker
      <4> QED
        BY <1>0, <3>1, <4>1 DEF AllowWhenOpen
    <3>2. CASE AllowWhenHalfOpen(c)
      <4>1. [cb EXCEPT !.halfOpenRequests = @ + 1] \in Breaker
        BY <1>0 DEF Breaker
      <4> QED
        BY <1>0, <3>2, <4>1 DEF AllowWhenHalfOpen
    <3>3. CASE RecordSuccess(c)
      BY <1>0, <3>3, SuccessLemma DEF RecordSuccess
    <3>4. CASE RecordFailure(c)
      BY <1>0, <3>4, FailureLemma DEF RecordFailure
    <3> QED
      BY <1>4, <3>1, <3>2, <3>3, <3>4
  <2> QED
    BY <1>0, <2>1, <2>2, UnlockAddsUp
<1>5. ASSUME NEW c \in Callers, Invoke(c) PROVE AddsUp
  BY <1>0, <1>5, InvokeAddsUp
<1> QED
  BY <1>2, <1>3, <1>4, <1>5 DEF Next, Step

(***************************************************************************)
(* The listener misses no transition (NotificationsAddUp).                 *)
(***************************************************************************)
THEOREM ListenerMissesNothing == Spec => NotificationsAddUp
<1>1. IInv /\ OnlyNotifiersOwe /\ [Next]_breakerVars => [~Reset => AddsUp]_breakerVars
  BY AllAddUp
<1>2. Spec => [][~Reset => AddsUp]_breakerVars
  BY <1>1, Invariance, OweInvariance, PTL DEF Spec
<1> QED
  BY <1>2 DEF NotificationsAddUp, AddsUp

(***************************************************************************)
(* What a listener may therefore rely on where nobody calls Reset: when no *)
(* callback is outstanding, it knows the state the breaker is in, however  *)
(* the callbacks overlapped (invoke).                                      *)
(***************************************************************************)
ListenerIsUpToDate == (\A c \in Callers : pc[c] # "notify") => seen = cb.state

AccountBalances == Told \in Nat /\ Told % 3 = cb.state

LEMMA AddingUp ==
  ASSUME NEW t \in Nat, NEW u \in Nat, NEW v \in 0..2, NEW w \in 0..2,
         t % 3 = v, (u - t) % 3 = (w - v) % 3
  PROVE  u % 3 = w
OBVIOUS

LEMMA BalanceStep ==
  ~ResetCalls /\ IInv /\ OnlyNotifiersOwe /\ AccountBalances /\ [Next]_breakerVars
    => AccountBalances'
<1> SUFFICES ASSUME ~ResetCalls, IInv, OnlyNotifiersOwe, AccountBalances,
                    [Next]_breakerVars
             PROVE  AccountBalances'
  OBVIOUS
<1>1. AddsUp
  BY AllAddUp DEF Reset
<1>2. IInv'
  BY NextInv
<1>3. /\ cb.state \in 0..2 /\ cb'.state \in 0..2
      /\ seen \in 0..2 /\ seen' \in 0..2
  BY <1>2 DEF IInv, TypeOK, Breaker, StateClosed, StateOpen, StateHalfOpen
<1>4. Told' \in Nat
  <2>1. Owing(1)' \in SUBSET Callers /\ Owing(2)' \in SUBSET Callers
    BY DEF Owing
  <2>2. Cardinality(Owing(1)') \in Nat /\ Cardinality(Owing(2)') \in Nat
    BY <2>1, FS_Subset, FS_CardinalityType, BreakerAssumption
  <2> QED
    BY <1>3, <2>2 DEF Told
<1> QED
  BY <1>1, <1>3, <1>4, AddingUp DEF AccountBalances, AddsUp

THEOREM ListenerKnowsTheState ==
  ASSUME ~ResetCalls
  PROVE  Spec => []ListenerIsUpToDate
<1>1. Init => AccountBalances
  <2> SUFFICES ASSUME Init PROVE AccountBalances
    OBVIOUS
  <2>1. Owing(1) = {} /\ Owing(2) = {}
    BY DEF Init, Owing, Worth, NoTransition, StateClosed
  <2>2. Told = 0
    BY <2>1, FS_EmptySet DEF Told, Init, StateClosed
  <2> QED
    BY <2>2 DEF AccountBalances, Init, StateClosed
<1>2. IInv /\ OnlyNotifiersOwe /\ AccountBalances /\ [Next]_breakerVars => AccountBalances'
  BY BalanceStep
<1>3. IInv /\ OnlyNotifiersOwe /\ AccountBalances => ListenerIsUpToDate
  <2> SUFFICES ASSUME IInv, OnlyNotifiersOwe, AccountBalances,
                      \A c \in Callers : pc[c] # "notify"
               PROVE  seen = cb.state
    BY DEF ListenerIsUpToDate
  <2>1. Owing(1) = {} /\ Owing(2) = {}
    BY DEF OnlyNotifiersOwe, Owing, Worth, NoTransition, StateClosed
  <2>2. Cardinality(Owing(1)) = 0 /\ Cardinality(Owing(2)) = 0
    BY <2>1, FS_EmptySet
  <2>3. seen \in 0..2
    BY DEF IInv, TypeOK
  <2>4. Told = seen
    BY <2>2, <2>3 DEF Told
  <2> QED
    BY <2>3, <2>4 DEF AccountBalances
<1> QED
  BY <1>1, <1>2, <1>3, Invariance, OweInvariance, PTL DEF Spec

-----------------------------------------------------------------------------
(***************************************************************************)
(* What makes recovery possible: with no more successes asked for than     *)
(* probes allowed, a half-open breaker with nothing in flight grants the   *)
(* next request (Allow).  The model has the exact bound: when              *)
(* successThreshold exceeds halfOpenMaxRequests it may grant none.         *)
(***************************************************************************)
AProbeIsLeft ==
  cb.state = StateHalfOpen /\ InFlight = {} => cb.halfOpenRequests < halfOpenMaxRequests

THEOREM HalfOpenIsNoTrap ==
  ASSUME successThreshold <= halfOpenMaxRequests
  PROVE  Spec => []AProbeIsLeft
<1>1. IInv => AProbeIsLeft
  BY Thresholds, FS_EmptySet
     DEF IInv, TypeOK, Breaker, AProbeIsLeft, NoProbeLeak, CountersFitState
<1> QED
  BY <1>1, Invariance, PTL

-----------------------------------------------------------------------------
(***************************************************************************)
(* What HalfOpenMaxRequests is worth: the probes granted and those left    *)
(* are within halfOpenMaxRequests for each member of the herd, and while   *)
(* the breaker is half-open that pays, too, for each goroutine that still  *)
(* is to act on having seen it open.                                       *)
(***************************************************************************)
Left == halfOpenMaxRequests - cb.halfOpenRequests

WithinBudget ==
  /\ probes \in Nat /\ herd \in Nat
  /\ probes + Left <= halfOpenMaxRequests * herd
  /\ cb.state = StateHalfOpen =>
       probes + Left + halfOpenMaxRequests * Cardinality(SawOpen) <= halfOpenMaxRequests * herd

QInv == IInv /\ WithinBudget

LEMMA SawOpenFinite ==
  /\ IsFiniteSet(SawOpen) /\ Cardinality(SawOpen) \in Nat
  /\ IsFiniteSet(SawOpen') /\ Cardinality(SawOpen') \in Nat
<1>1. SawOpen \in SUBSET Callers /\ SawOpen' \in SUBSET Callers
  BY DEF SawOpen
<1> QED
  BY <1>1, FS_Subset, FS_CardinalityType, BreakerAssumption

LEMMA SawOpenShrinks ==
  ASSUME SawOpen' \subseteq SawOpen
  PROVE  Cardinality(SawOpen') <= Cardinality(SawOpen)
BY SawOpenFinite, FS_Subset

\* The goroutine that acted on having seen the breaker open.
LEMMA SawOpenLoses ==
  ASSUME TypeOK, NEW c \in Callers, pc[c] = "sawOpen",
         pc'[c] # "sawOpen", \A d \in Callers \ {c} : pc'[d] = pc[d]
  PROVE  Cardinality(SawOpen) = Cardinality(SawOpen') + 1
<1>1. c \in SawOpen /\ SawOpen' = SawOpen \ {c}
  BY DEF SawOpen
<1> QED
  BY <1>1, SawOpenFinite, FS_RemoveElement

LEMMA OutcomeKeepsCount ==
  ASSUME NEW b \in Breaker, NEW d \in {afterSuccess(b), afterFailure(b)}
  PROVE  /\ d.state = StateHalfOpen => b.state = StateHalfOpen
         /\ d.state # StateClosed => d.halfOpenRequests = b.halfOpenRequests
<1> USE DEF StateClosed, StateOpen, StateHalfOpen
<1>0. b.state \in {StateClosed, StateOpen, StateHalfOpen}
  BY DEF Breaker
<1>1. CASE d = afterSuccess(b)
  <2>1. CASE b.state = StateHalfOpen
    <3> DEFINE counted == [b EXCEPT !.consecutiveSuccs = @ + 1]
    <3>1. /\ counted \in Breaker /\ counted.state = StateHalfOpen
          /\ counted.halfOpenRequests = b.halfOpenRequests
      BY <2>1 DEF Breaker
    <3>2. d = IF counted.consecutiveSuccs >= successThreshold
                THEN transitionTo(counted, StateClosed) ELSE counted
      BY <1>1, <2>1 DEF afterSuccess
    <3> HIDE DEF counted
    <3> QED
      BY <2>1, <3>1, <3>2, ToClosed
  <2>2. CASE b.state # StateHalfOpen
    BY <1>0, <1>1, <2>2 DEF afterSuccess, Breaker
  <2> QED
    BY <2>1, <2>2
<1>2. CASE d = afterFailure(b)
  <2>1. CASE b.state = StateClosed
    <3> DEFINE counted == [b EXCEPT !.consecutiveFails = @ + 1]
    <3>1. /\ counted \in Breaker /\ counted.state = StateClosed
          /\ counted.halfOpenRequests = b.halfOpenRequests
      BY <2>1 DEF Breaker
    <3>2. d = IF counted.consecutiveFails >= failureThreshold
                THEN transitionTo(counted, StateOpen) ELSE counted
      BY <1>2, <2>1 DEF afterFailure
    <3> HIDE DEF counted
    <3> QED
      BY <3>1, <3>2, ToOpen
  <2>2. CASE b.state = StateHalfOpen
    BY <1>2, <2>2, ToOpen DEF afterFailure
  <2>3. CASE b.state = StateOpen
    BY <1>2, <2>3 DEF afterFailure
  <2> QED
    BY <1>0, <2>1, <2>2, <2>3
<1> QED
  BY <1>1, <1>2

-----------------------------------------------------------------------------
LEMMA QuotaFacts ==
  ASSUME IInv, IInv'
  PROVE  /\ halfOpenMaxRequests \in Nat \ {0} /\ halfOpenMaxRequests' = halfOpenMaxRequests
         /\ cb \in Breaker /\ cb' \in Breaker
         /\ cb.halfOpenRequests \in 0..halfOpenMaxRequests
         /\ cb'.halfOpenRequests \in 0..halfOpenMaxRequests
         /\ Left' = halfOpenMaxRequests - cb'.halfOpenRequests
<1>1. halfOpenMaxRequests' = halfOpenMaxRequests
  BY DEF halfOpenMaxRequests
<1> QED
  BY <1>1, Thresholds DEF IInv, TypeOK, Breaker, CountersFitState, Left

\* A step after which the breaker is closed.
LEMMA ClosedQuota ==
  ASSUME IInv, IInv', QuotaNext, cb'.state = StateClosed
  PROVE  WithinBudget'
<1>1. probes' = 0 /\ herd' = 1 /\ cb'.state # StateHalfOpen
  BY DEF QuotaNext, Begins, StateClosed, StateHalfOpen
<1> QED
  BY <1>1, QuotaFacts DEF WithinBudget

\* A step that grants nothing and begins no half-open period.
LEMMA SameQuota ==
  ASSUME IInv, IInv', WithinBudget, QuotaNext, ~Granted,
         cb'.state # StateClosed => cb'.halfOpenRequests = cb.halfOpenRequests,
         cb'.state = StateHalfOpen => cb.state = StateHalfOpen /\ SawOpen' \subseteq SawOpen
  PROVE  WithinBudget'
<1>1. CASE cb'.state # StateClosed
  <2>1. probes' = probes /\ herd' = herd
    BY <1>1 DEF QuotaNext, Begins
  <2>2. Left' = Left
    BY <1>1, QuotaFacts DEF Left
  <2>3. ASSUME cb'.state = StateHalfOpen
        PROVE  probes' + Left' + halfOpenMaxRequests * Cardinality(SawOpen')
                 <= halfOpenMaxRequests * herd'
    <3> DEFINE n == Cardinality(SawOpen)
               k == Cardinality(SawOpen')
    <3>1. n \in Nat /\ k \in Nat /\ k <= n
      BY <2>3, SawOpenFinite, SawOpenShrinks
    <3>2. probes + Left + halfOpenMaxRequests * n <= halfOpenMaxRequests * herd
      BY <2>3 DEF WithinBudget
    <3>3. halfOpenMaxRequests \in Nat /\ Left \in Int /\ probes \in Nat /\ herd \in Nat
      BY QuotaFacts DEF WithinBudget, Left
    <3> HIDE DEF n, k
    <3>4. halfOpenMaxRequests * k <= halfOpenMaxRequests * n
      BY <3>1, <3>3
    <3> QED
      BY <2>1, <2>2, <3>1, <3>2, <3>3, <3>4 DEF k
  <2> QED
    BY <2>1, <2>2, <2>3, QuotaFacts DEF WithinBudget
<1> QED
  BY <1>1, ClosedQuota

LEMMA OpenQuota ==
  ASSUME IInv, IInv', WithinBudget, QuotaNext, NEW c \in Callers, AllowWhenOpen(c)
  PROVE  WithinBudget'
<1>0. /\ pc[c] = "sawOpen" /\ pc'[c] \in {"idle", "running", "notify"}
      /\ \A d \in Callers \ {c} : pc'[d] = pc[d]
  BY DEF AllowWhenOpen, Unlock, IInv, TypeOK
<1>1. Cardinality(SawOpen) = Cardinality(SawOpen') + 1
  BY <1>0, SawOpenLoses DEF IInv
<1>2. CASE ~cb.openElapsed
  <2>1. cb' = cb /\ pc'[c] = "idle"
    BY <1>2 DEF AllowWhenOpen, Unlock, IInv, TypeOK
  <2>2. ~Granted /\ SawOpen' \subseteq SawOpen
    BY <1>0, <2>1 DEF Granted, SawOpen
  <2> QED
    BY <2>1, <2>2, SameQuota
<1>3. CASE cb.openElapsed
  <2>1. cb'.state = StateHalfOpen /\ cb'.halfOpenRequests = 1 /\ pc'[c] \in {"running", "notify"}
    BY <1>3, AllowOpenLemma, FitsEquiv DEF AllowWhenOpen, Unlock, IInv, TypeOK
  <2>2. Granted /\ cb'.state # StateClosed
    BY <1>0, <2>1 DEF Granted, StateClosed, StateHalfOpen
  <2> DEFINE M == halfOpenMaxRequests
             n == Cardinality(SawOpen)
             k == Cardinality(SawOpen')
  <2>3. /\ M \in Nat \ {0} /\ n \in Nat /\ k \in Nat /\ n = k + 1 /\ Left' = M - 1
        /\ Left \in Nat /\ M' = M
    BY <1>1, <2>1, SawOpenFinite, QuotaFacts DEF Left
  <2>4. M * n = M * k + M /\ M * k \in Nat
    <3> HIDE DEF M, n, k
    <3> QED
      BY <2>3
  <2>5. CASE Begins
    <3>1. probes' = 1 /\ herd' = n
      BY <2>2, <2>5 DEF QuotaNext
    <3> QED
      BY <2>3, <2>4, <3>1 DEF WithinBudget
  <2>6. CASE ~Begins
    <3>1. probes' = probes + 1 /\ herd' = herd /\ cb.state = StateHalfOpen
      BY <2>1, <2>2, <2>6 DEF QuotaNext, Begins
    <3>2. probes \in Nat /\ herd \in Nat /\ probes + Left + M * n <= M * herd
      BY <3>1 DEF WithinBudget
    <3>3. M * herd \in Nat
      BY <2>3, <3>2
    <3> QED
      BY <2>3, <2>4, <3>1, <3>2, <3>3 DEF WithinBudget
  <2> QED
    BY <2>5, <2>6
<1> QED
  BY <1>2, <1>3

LEMMA HalfOpenQuota ==
  ASSUME IInv, IInv', WithinBudget, QuotaNext, NEW c \in Callers, AllowWhenHalfOpen(c)
  PROVE  WithinBudget'
<1>0. /\ pc[c] = "sawHalfOpen" /\ pc'[c] # "sawOpen" /\ cb \in Breaker
      /\ \A d \in Callers \ {c} : pc'[d] = pc[d]
  BY DEF AllowWhenHalfOpen, Unlock, IInv, TypeOK
<1>1. SawOpen' = SawOpen
  BY <1>0 DEF SawOpen
<1>2. CASE ~(cb.halfOpenRequests < halfOpenMaxRequests)
  <2>1. cb' = cb /\ pc'[c] = "idle"
    BY <1>2 DEF AllowWhenHalfOpen, Unlock, IInv, TypeOK
  <2>2. ~Granted
    BY <1>0, <2>1 DEF Granted
  <2> QED
    BY <1>1, <2>1, <2>2, SameQuota
<1>3. CASE cb.halfOpenRequests < halfOpenMaxRequests
  <2> DEFINE d == [cb EXCEPT !.halfOpenRequests = @ + 1]
  <2>1. d.state = cb.state /\ d.halfOpenRequests = cb.halfOpenRequests + 1
    BY <1>0 DEF Breaker
  <2>2. Unlock(c, d, "running")
    BY <1>3 DEF AllowWhenHalfOpen
  <2> HIDE DEF d
  <2>3. cb' = d /\ pc'[c] = "running"
    BY <2>1, <2>2 DEF Unlock, IInv, TypeOK
  <2>4. Granted /\ ~Begins
    BY <1>0, <2>1, <2>3 DEF Granted, Begins
  <2>5. CASE cb'.state # StateClosed
    <3>1. probes' = probes + 1 /\ herd' = herd
      BY <2>4, <2>5 DEF QuotaNext
    <3>2. Left' = Left - 1 /\ Left \in Int /\ probes \in Nat /\ cb'.state = cb.state
      BY <2>1, <2>3, QuotaFacts DEF Left, WithinBudget
    <3>3. probes' + Left' = probes + Left
      BY <3>1, <3>2
    <3> QED
      BY <1>1, <3>1, <3>2, <3>3, QuotaFacts DEF WithinBudget
  <2> QED
    BY <2>5, ClosedQuota
<1> QED
  BY <1>2, <1>3

LEMMA QuotaStep ==
  ASSUME IInv, IInv', WithinBudget, QuotaNext
  PROVE  WithinBudget'
<1>1. CASE Reset
  BY <1>1, ClosedQuota DEF Reset, IInv, TypeOK, Breaker
<1>2. CASE Elapse
  <2>1. cb'.state = cb.state /\ cb'.halfOpenRequests = cb.halfOpenRequests /\ pc' = pc
    BY <1>2 DEF Elapse, IInv, TypeOK, Breaker
  <2>2. ~Granted /\ SawOpen' = SawOpen
    BY <2>1 DEF Granted, SawOpen
  <2> QED
    BY <2>1, <2>2, SameQuota
<1>3. ASSUME NEW c \in Callers, Step(c)
      PROVE  WithinBudget'
  <2>1. CASE AllowWhenOpen(c) \/ AllowWhenHalfOpen(c)
    BY <2>1, OpenQuota, HalfOpenQuota
  <2>2. CASE LoadState(c)
    <3>1. /\ pc[c] = "idle" /\ cb' = cb /\ \A d \in Callers \ {c} : pc'[d] = pc[d]
          /\ cb.state = StateHalfOpen => pc'[c] = "sawHalfOpen"
      BY <2>2 DEF LoadState, IInv, TypeOK, StateClosed, StateOpen, StateHalfOpen
    <3>2. ~Granted /\ (cb'.state = StateHalfOpen => SawOpen' \subseteq SawOpen)
      BY <3>1 DEF Granted, SawOpen
    <3> QED
      BY <3>1, <3>2, SameQuota
  <2>3. CASE Succeed(c) \/ Fail(c) \/ Invoke(c)
    <3>1. /\ pc[c] \in {"running", "notify"} /\ pc'[c] # "sawOpen" /\ cb' = cb
          /\ \A d \in Callers \ {c} : pc'[d] = pc[d]
      BY <2>3 DEF Succeed, Fail, Finish, Invoke, IInv, TypeOK
    <3>2. ~Granted /\ SawOpen' \subseteq SawOpen
      BY <3>1 DEF Granted, SawOpen
    <3> QED
      BY <3>1, <3>2, SameQuota
  <2>4. CASE RecordSuccess(c) \/ RecordFailure(c)
    <3>1. /\ pc[c] \in {"succeeded", "failed"} /\ pc'[c] # "sawOpen"
          /\ cb' \in {afterSuccess(cb), afterFailure(cb)}
          /\ \A d \in Callers \ {c} : pc'[d] = pc[d]
      BY <2>4 DEF RecordSuccess, RecordFailure, Unlock, IInv, TypeOK
    <3>2. ~Granted /\ SawOpen' \subseteq SawOpen
      BY <3>1 DEF Granted, SawOpen
    <3>3. cb \in Breaker
      BY DEF IInv, TypeOK
    <3> QED
      BY <3>1, <3>2, <3>3, OutcomeKeepsCount, SameQuota
  <2> QED
    BY <1>3, <2>1, <2>2, <2>3, <2>4 DEF Step
<1> QED
  BY <1>1, <1>2, <1>3 DEF QuotaNext, Next

(***************************************************************************)
(* However many goroutines act on a state they loaded long ago, and with   *)
(* Reset called at any time, a half-open period grants at most             *)
(* halfOpenMaxRequests probes for each goroutine that had seen the breaker *)
(* open when it began (HerdIsLimited).                                     *)
(***************************************************************************)
THEOREM TheHerdIsLimited == QuotaSpec => []HerdIsLimited
<1>1. QuotaInit => QInv
  <2> SUFFICES ASSUME QuotaInit PROVE QInv
    OBVIOUS
  <2>1. IInv /\ cb.halfOpenRequests = 0 /\ cb.state # StateHalfOpen
    BY InitInv DEF QuotaInit, Init, StateClosed, StateHalfOpen
  <2> QED
    BY <2>1, Thresholds DEF QuotaInit, QInv, WithinBudget, Left
<1>2. QInv /\ [QuotaNext]_quotaVars => QInv'
  <2> SUFFICES ASSUME QInv, [QuotaNext]_quotaVars PROVE QInv'
    OBVIOUS
  <2>1. IInv'
    BY NextInv DEF QInv, QuotaNext, quotaVars
  <2>2. CASE QuotaNext
    BY <2>1, <2>2, QuotaStep DEF QInv
  <2>3. CASE UNCHANGED quotaVars
    <3>1. Left' = Left /\ SawOpen' = SawOpen /\ UNCHANGED <<cb, probes, herd, halfOpenMaxRequests>>
      BY <2>3 DEF quotaVars, breakerVars, Left, SawOpen, halfOpenMaxRequests
    <3> QED
      BY <2>1, <3>1 DEF QInv, WithinBudget
  <2> QED
    BY <2>2, <2>3
<1>3. QInv => HerdIsLimited
  <2> SUFFICES ASSUME QInv PROVE HerdIsLimited
    OBVIOUS
  <2>1. Left \in Nat
    BY Thresholds DEF QInv, IInv, TypeOK, Breaker, CountersFitState, Left
  <2>2. halfOpenMaxRequests * herd \in Nat
    BY Thresholds DEF QInv, WithinBudget
  <2> QED
    BY <2>1, <2>2 DEF QInv, WithinBudget, HerdIsLimited
<1> QED
  BY <1>1, <1>2, <1>3, PTL DEF QuotaSpec
=============================================================================
