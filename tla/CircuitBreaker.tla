--------------------------- MODULE CircuitBreaker ---------------------------
(***************************************************************************)
(* The circuit breaker of internal/resilience/circuit.go, run by a set of  *)
(* goroutines that call Execute over and over.  Allow reads the state      *)
(* without the mutex and takes it only afterwards, so what a goroutine saw *)
(* may be stale when it acts; the callback of a transition runs after the  *)
(* mutex is released, so callbacks of different transitions may overlap.   *)
(* Each critical section is one step.                                      *)
(***************************************************************************)
EXTENDS Integers, FiniteSets

CONSTANTS
  Callers,              \* the goroutines that share the breaker
  FailureThreshold,     \* config.CircuitBreakerConfig as loaded: a value that
  SuccessThreshold,     \* is zero or negative selects the default
  HalfOpenMaxRequests,
  ResetCalls            \* whether anybody calls Reset

ASSUME BreakerAssumption ==
  /\ IsFiniteSet(Callers)
  /\ FailureThreshold \in Int
  /\ SuccessThreshold \in Int
  /\ HalfOpenMaxRequests \in Int
  /\ ResetCalls \in BOOLEAN

(***************************************************************************)
(* The values of State, in the order of the iota.                          *)
(***************************************************************************)
StateClosed   == 0
StateOpen     == 1
StateHalfOpen == 2

(***************************************************************************)
(* What NewCircuitBreaker makes of the configuration.                      *)
(***************************************************************************)
failureThreshold    == IF FailureThreshold <= 0 THEN 5 ELSE FailureThreshold
successThreshold    == IF SuccessThreshold <= 0 THEN 2 ELSE SuccessThreshold
halfOpenMaxRequests == IF HalfOpenMaxRequests <= 0 THEN 3 ELSE HalfOpenMaxRequests

VARIABLES
  cb,       \* the fields the mutex guards; openElapsed stands for
            \* time.Since(openedAt) >= openDuration
  pc,       \* where each goroutine is inside Execute
  pending,  \* the *stateTransition each goroutine still has to invoke
  seen      \* what the listener makes of the callbacks it got: the sum of
            \* their (to - from), hence the current state if it missed none;
            \* kept modulo the three states, to bound it when one is missed

breakerVars == <<cb, pc, pending, seen>>

Breaker == [state            : {StateClosed, StateOpen, StateHalfOpen},
            consecutiveFails : Nat,
            consecutiveSuccs : Nat,
            halfOpenRequests : Nat,
            openElapsed      : BOOLEAN]

Transitions == [from : 0..2, to : 0..2]
NoTransition == [from |-> StateClosed, to |-> StateClosed]

PCs == {"idle", "sawOpen", "sawHalfOpen", "running", "succeeded", "failed", "notify"}

(***************************************************************************)
(* A request is in flight from the moment Allow grants it until its        *)
(* outcome is recorded; the goroutine that moved the breaker to half-open  *)
(* is granted before it runs the callback.                                 *)
(***************************************************************************)
InFlight == {c \in Callers : \/ pc[c] \in {"running", "succeeded", "failed"}
                             \/ pc[c] = "notify" /\ pending[c].to = StateHalfOpen}

-----------------------------------------------------------------------------
(***************************************************************************)
(* transitionTo, on the fields it is given.                                *)
(***************************************************************************)
KeepsHalfOpenCounters(b, newState) ==
  IF b.state = newState THEN b
  ELSE CASE newState = StateClosed   -> [b EXCEPT !.state = newState,
                                                  !.consecutiveFails = 0]
         [] newState = StateOpen     -> [b EXCEPT !.state = newState,
                                                  !.openElapsed = FALSE]
         [] newState = StateHalfOpen -> [b EXCEPT !.state = newState,
                                                  !.halfOpenRequests = 0]

transitionTo(b, newState) ==
  IF b.state = newState THEN b
  ELSE CASE newState = StateClosed   -> [b EXCEPT !.state = newState,
                                                  !.consecutiveFails = 0,
                                                  !.consecutiveSuccs = 0,
                                                  !.halfOpenRequests = 0]
         [] newState = StateOpen     -> [b EXCEPT !.state = newState,
                                                  !.openElapsed = FALSE,
                                                  !.consecutiveSuccs = 0]
         [] newState = StateHalfOpen -> [b EXCEPT !.state = newState,
                                                  !.consecutiveSuccs = 0,
                                                  !.halfOpenRequests = 0]

(***************************************************************************)
(* Unlock after the fields became b.  If that was a transition its         *)
(* callback is still to be run, by this goroutine, before it goes on.      *)
(***************************************************************************)
DropsTransition(c, b, next) ==
  /\ cb' = b
  /\ pc' = [pc EXCEPT ![c] = next]
  /\ UNCHANGED <<pending, seen>>

Unlock(c, b, next) ==
  /\ cb' = b
  /\ IF b.state # cb.state
       THEN /\ pending' = [pending EXCEPT ![c] = [from |-> cb.state, to |-> b.state]]
            /\ pc' = [pc EXCEPT ![c] = "notify"]
       ELSE /\ pc' = [pc EXCEPT ![c] = next]
            /\ UNCHANGED pending
  /\ UNCHANGED seen

-----------------------------------------------------------------------------
(***************************************************************************)
(* Allow: the lock-free load of the state.  Closed grants the request at   *)
(* once, the other two states are handled under the mutex.                 *)
(***************************************************************************)
LoadState(c) ==
  /\ pc[c] = "idle"
  /\ pc' = [pc EXCEPT ![c] = CASE cb.state = StateClosed   -> "running"
                               [] cb.state = StateOpen     -> "sawOpen"
                               [] cb.state = StateHalfOpen -> "sawHalfOpen"]
  /\ UNCHANGED <<cb, pending, seen>>

(***************************************************************************)
(* Allow, case StateOpen.  It does not look at the state again: whatever   *)
(* the state is by now, an elapsed openedAt moves it to half-open and      *)
(* restarts the count of probes at one.                                    *)
(***************************************************************************)
ForgetsOwnProbe(c) ==
  /\ pc[c] = "sawOpen"
  /\ IF cb.openElapsed
       THEN Unlock(c, transitionTo(cb, StateHalfOpen), "running")
       ELSE Unlock(c, cb, "idle")

AllowWhenOpen(c) ==
  /\ pc[c] = "sawOpen"
  /\ IF cb.openElapsed
       THEN Unlock(c, [transitionTo(cb, StateHalfOpen) EXCEPT !.halfOpenRequests = 1],
                   "running")
       ELSE Unlock(c, cb, "idle")

(***************************************************************************)
(* Allow, case StateHalfOpen: a probe if one is left.                      *)
(***************************************************************************)
CountsRefusedProbes(c) ==
  /\ pc[c] = "sawHalfOpen"
  /\ LET counted == [cb EXCEPT !.halfOpenRequests = @ + 1] IN
     Unlock(c, counted,
            IF cb.halfOpenRequests < halfOpenMaxRequests THEN "running" ELSE "idle")

WithholdsLastProbe(c) ==
  /\ pc[c] = "sawHalfOpen"
  /\ IF cb.halfOpenRequests + 1 < halfOpenMaxRequests
       THEN Unlock(c, [cb EXCEPT !.halfOpenRequests = @ + 1], "running")
       ELSE Unlock(c, cb, "idle")

AllowWhenHalfOpen(c) ==
  /\ pc[c] = "sawHalfOpen"
  /\ IF cb.halfOpenRequests < halfOpenMaxRequests
       THEN Unlock(c, [cb EXCEPT !.halfOpenRequests = @ + 1], "running")
       ELSE Unlock(c, cb, "idle")

(***************************************************************************)
(* Execute: fn returns, with or without an error.                          *)
(***************************************************************************)
Finish(c, outcome) ==
  /\ pc[c] = "running"
  /\ pc' = [pc EXCEPT ![c] = outcome]
  /\ UNCHANGED <<cb, pending, seen>>

Succeed(c) == Finish(c, "succeeded")
Fail(c)    == Finish(c, "failed")

-----------------------------------------------------------------------------
(***************************************************************************)
(* RecordSuccess and RecordFailure go by the state the breaker is in when  *)
(* the outcome arrives, not by the one that granted the request.           *)
(***************************************************************************)
ReturnsProbe(b) ==
  LET returned == [b EXCEPT !.halfOpenRequests = @ - 1]
      counted  == [returned EXCEPT !.consecutiveSuccs = @ + 1]
  IN  IF b.state # StateHalfOpen
        THEN [returned EXCEPT !.consecutiveFails = 0]
        ELSE IF counted.consecutiveSuccs >= successThreshold
               THEN transitionTo(counted, StateClosed) ELSE counted

afterSuccess(b) ==
  CASE b.state = StateClosed   -> [b EXCEPT !.consecutiveFails = 0]
    [] b.state = StateHalfOpen ->
         LET counted == [b EXCEPT !.consecutiveSuccs = @ + 1]
         IN  IF counted.consecutiveSuccs >= successThreshold
               THEN transitionTo(counted, StateClosed) ELSE counted
    [] OTHER -> b

IgnoresFailedProbe(b) ==
  IF b.state = StateClosed
    THEN LET counted == [b EXCEPT !.consecutiveFails = @ + 1]
         IN  IF counted.consecutiveFails >= failureThreshold
               THEN transitionTo(counted, StateOpen) ELSE counted
    ELSE b

afterFailure(b) ==
  CASE b.state = StateClosed   ->
         LET counted == [b EXCEPT !.consecutiveFails = @ + 1]
         IN  IF counted.consecutiveFails >= failureThreshold
               THEN transitionTo(counted, StateOpen) ELSE counted
    [] b.state = StateHalfOpen -> transitionTo(b, StateOpen)
    [] OTHER -> b

RecordSuccess(c) ==
  /\ pc[c] = "succeeded"
  /\ Unlock(c, afterSuccess(cb), "idle")

RecordFailure(c) ==
  /\ pc[c] = "failed"
  /\ Unlock(c, afterFailure(cb), "idle")

(***************************************************************************)
(* stateTransition.invoke, outside the mutex.  After the callback Allow    *)
(* returns true and RecordSuccess and RecordFailure return to the caller.  *)
(***************************************************************************)
Invoke(c) ==
  /\ pc[c] = "notify"
  /\ seen' = (seen + pending[c].to - pending[c].from) % 3
  /\ pc' = [pc EXCEPT ![c] = IF pending[c].to = StateHalfOpen THEN "running" ELSE "idle"]
  /\ pending' = [pending EXCEPT ![c] = NoTransition]
  /\ UNCHANGED cb

(***************************************************************************)
(* Reset, by anybody, at any time: no transition and no callback.          *)
(***************************************************************************)
Reset ==
  /\ ResetCalls
  /\ cb' = [cb EXCEPT !.state = StateClosed, !.consecutiveFails = 0,
                      !.consecutiveSuccs = 0, !.halfOpenRequests = 0]
  /\ UNCHANGED <<pc, pending, seen>>

(***************************************************************************)
(* Time: openDuration has passed since openedAt.                           *)
(***************************************************************************)
Elapse ==
  /\ ~cb.openElapsed
  /\ cb' = [cb EXCEPT !.openElapsed = TRUE]
  /\ UNCHANGED <<pc, pending, seen>>

-----------------------------------------------------------------------------
(***************************************************************************)
(* openedAt starts as the zero time, which is longer ago than any          *)
(* openDuration.                                                           *)
(***************************************************************************)
Init ==
  /\ cb = [state |-> StateClosed, consecutiveFails |-> 0, consecutiveSuccs |-> 0,
           halfOpenRequests |-> 0, openElapsed |-> TRUE]
  /\ pc = [c \in Callers |-> "idle"]
  /\ pending = [c \in Callers |-> NoTransition]
  /\ seen = StateClosed

Step(c) ==
  \/ LoadState(c)
  \/ AllowWhenOpen(c)
  \/ AllowWhenHalfOpen(c)
  \/ Succeed(c)
  \/ Fail(c)
  \/ RecordSuccess(c)
  \/ RecordFailure(c)
  \/ Invoke(c)

Next == Elapse \/ Reset \/ \E c \in Callers : Step(c)

Spec == Init /\ [][Next]_breakerVars

(***************************************************************************)
(* Goroutines are scheduled, their requests keep coming and return, and    *)
(* time passes.                                                            *)
(***************************************************************************)
Fairness ==
  /\ WF_breakerVars(Elapse)
  /\ \A c \in Callers : WF_breakerVars(Step(c))

-----------------------------------------------------------------------------
TypeOK ==
  /\ cb \in Breaker
  /\ pc \in [Callers -> PCs]
  /\ pending \in [Callers -> Transitions]
  /\ seen \in 0..2

(***************************************************************************)
(* No probe leaks.  While the breaker is half-open, every probe it has     *)
(* counted either is still in flight or has been counted as a success, so  *)
(* the quota of halfOpenMaxRequests cannot be used up by requests nobody   *)
(* waits for, whatever stale reads, late outcomes and Resets came before   *)
(* (Allow, RecordSuccess, transitionTo).                                   *)
(***************************************************************************)
NoProbeLeak ==
  cb.state = StateHalfOpen =>
    cb.halfOpenRequests <= cb.consecutiveSuccs + Cardinality(InFlight)

(***************************************************************************)
(* The counters belong to the state the breaker is in: a closed breaker    *)
(* has not reached the failure threshold and a half-open one not the       *)
(* success threshold, successes are only ever on the books of the          *)
(* half-open state they were counted in, and the count of probes does not  *)
(* pass the quota (transitionTo, RecordSuccess, RecordFailure, Allow).     *)
(* The count: what it has to do with the probes granted is in ProbeQuota.  *)
(***************************************************************************)
CountersFitState ==
  /\ cb.state = StateClosed => cb.consecutiveFails < failureThreshold
  /\ cb.consecutiveSuccs > 0 => cb.state = StateHalfOpen
  /\ cb.consecutiveSuccs < successThreshold
  /\ cb.halfOpenRequests <= halfOpenMaxRequests

(***************************************************************************)
(* The listener misses no transition, whatever the order in which the      *)
(* callbacks run: but for Reset, which tells it nothing, each step changes *)
(* the state and what the listener has been told or is still to be told by *)
(* the same amount (transitionTo, invoke).  Like seen this is counted      *)
(* modulo 3, where a transition is worth 0, 1 or 2.                        *)
(***************************************************************************)
Worth(t) == (t.to - t.from) % 3
Owing(k) == {c \in Callers : Worth(pending[c]) = k}
Told     == seen + Cardinality(Owing(1)) + 2 * Cardinality(Owing(2))

NotificationsAddUp ==
  [][~Reset => (Told' - Told) % 3 = (cb'.state - cb.state) % 3]_breakerVars

(***************************************************************************)
(* If from some time on no request fails, the breaker closes for good:     *)
(* the half-open state always has a probe left for the next request        *)
(* (Allow), until successThreshold of them succeeded.  It needs            *)
(* successThreshold <= halfOpenMaxRequests.                                *)
(***************************************************************************)
Recovers ==
  <>[][~ \E c \in Callers : Fail(c)]_breakerVars => <>[](cb.state = StateClosed)

(***************************************************************************)
(* If from some time on every request fails and nobody calls Reset, the    *)
(* breaker is open again and again: neither the closed nor the half-open   *)
(* state lets a dead backend be called for ever (RecordFailure, Allow).    *)
(***************************************************************************)
TripsWhenDown ==
  <>[][~Reset /\ ~ \E c \in Callers : Succeed(c)]_breakerVars => []<>(cb.state = StateOpen)
=============================================================================
