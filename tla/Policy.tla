------------------------------- MODULE Policy -------------------------------
(***************************************************************************)
(* The Policy of internal/resilience/policy.go: every call goes through    *)
(* the bulkhead, then the retry loop, and every attempt of the loop goes   *)
(* through the circuit breaker (Bulkhead -> Retry -> Circuit Breaker ->    *)
(* Operation).  The slot of the bulkhead is kept for the whole loop,       *)
(* pauses included.                                                        *)
(***************************************************************************)
EXTENDS Integers, FiniteSets

CONSTANTS
  Callers, MaxConcurrent, MaxQueue, MaxAttempts, FailureThreshold,
  SuccessThreshold, HalfOpenMaxRequests, CounterSpan,
  BackendErrors   \* the errors the operation can return

VARIABLES
  cb, pc, pending, seen,
  at, semaphore, queued, active, executed, rejected, started,
  stage, attempt, lastErr, retryStats

BH == INSTANCE Bulkhead
CB == INSTANCE CircuitBreaker WITH ResetCalls <- FALSE
RP == INSTANCE RetryPolicy

ASSUME PolicyAssumption ==
  /\ IsFiniteSet(Callers)
  /\ {MaxConcurrent, MaxQueue, MaxAttempts} \subseteq Int
  /\ {FailureThreshold, SuccessThreshold, HalfOpenMaxRequests} \subseteq Int
  /\ CounterSpan \in Nat \ {0}
  /\ BackendErrors \subseteq RP!Errors \ {"circuitOpen"}

breakerVars  == <<cb, pc, pending, seen>>
bulkheadVars == <<at, semaphore, queued, active, executed, rejected, started>>
retryVars    == <<stage, attempt, lastErr, retryStats>>
vars         == <<breakerVars, bulkheadVars, retryVars>>

-----------------------------------------------------------------------------
(***************************************************************************)
(* Outside the retry loop: acquire, and the deferred calls.                *)
(***************************************************************************)
Acquire(c) ==
  /\ BH!CheckQueue(c) \/ BH!JoinQueue(c) \/ BH!TakeSlot(c)
     \/ BH!GiveUp(c) \/ BH!LeaveQueue(c)
  /\ UNCHANGED <<breakerVars, retryVars>>

Call(c) == BH!TryAcquire(c) /\ UNCHANGED <<breakerVars, retryVars>>
Enter(c) == BH!Begin(c) /\ RP!Start(c) /\ UNCHANGED breakerVars
ExitsUncounted(c) ==
  /\ RP!End(c)
  /\ at[c] = "running" /\ BH!GoTo(c, "leaving")
  /\ UNCHANGED <<breakerVars, semaphore, queued, active, executed, rejected, started>>

Exit(c) == RP!End(c) /\ BH!Finish(c) /\ UNCHANGED breakerVars

ReleasesDuringBackoff(c) ==
  BH!End(c) \/ BH!release(c) \/ (stage[c] = "backoff" /\ BH!Finish(c))

Unwind(c) == BH!End(c) \/ BH!release(c)
Release(c) == Unwind(c) /\ UNCHANGED <<breakerVars, retryVars>>

(***************************************************************************)
(* In the retry loop, between attempts.                                    *)
(***************************************************************************)
Loop(c) ==
  /\ RP!CheckContext(c) \/ RP!Judge(c) \/ RP!Backoff(c)
  /\ UNCHANGED <<breakerVars, bulkheadVars>>

(***************************************************************************)
(* An attempt: circuitBreaker.Execute.  The operation ends with an error   *)
(* of the backend; an attempt that leaves the breaker without having run   *)
(* the operation ends with ErrCircuitOpen.                                 *)
(***************************************************************************)
Ask(c) ==
  /\ stage[c] = "attempt"
  /\ CB!LoadState(c)
  /\ UNCHANGED <<retryVars, bulkheadVars>>

Answer(c) ==
  /\ CB!AllowWhenOpen(c) \/ CB!AllowWhenHalfOpen(c)
  /\ IF pc'[c] = "idle" THEN RP!Return(c, "circuitOpen") ELSE UNCHANGED retryVars
  /\ UNCHANGED bulkheadVars

SucceedWith(c) ==
  /\ CB!Succeed(c)
  /\ lastErr' = [lastErr EXCEPT ![c] = "none"]
  /\ UNCHANGED <<stage, attempt, retryStats, bulkheadVars>>

FailWith(c, e) ==
  /\ CB!Fail(c)
  /\ lastErr' = [lastErr EXCEPT ![c] = e]
  /\ UNCHANGED <<stage, attempt, retryStats, bulkheadVars>>

Record(c) ==
  /\ CB!RecordSuccess(c) \/ CB!RecordFailure(c) \/ CB!Invoke(c)
  /\ IF pc'[c] = "idle" THEN RP!Return(c, lastErr[c]) ELSE UNCHANGED retryVars
  /\ UNCHANGED bulkheadVars

Elapse == CB!Elapse /\ UNCHANGED <<bulkheadVars, retryVars>>

-----------------------------------------------------------------------------
Init == CB!Init /\ BH!Init /\ RP!Init

Proceed(c) ==
  \/ Acquire(c) \/ Enter(c) \/ Loop(c)
  \/ Ask(c) \/ Answer(c) \/ Record(c)
  \/ SucceedWith(c) \/ \E e \in BackendErrors : FailWith(c, e)
  \/ Exit(c) \/ Release(c)

Next == Elapse \/ \E c \in Callers : Call(c) \/ Proceed(c)

Spec == Init /\ [][Next]_vars

-----------------------------------------------------------------------------
(***************************************************************************)
(* Calls nest: a goroutine is inside the breaker only during an attempt    *)
(* and in the loop only while it holds a slot, so no slot is released and  *)
(* no slot counted as executed under a running operation (Execute,         *)
(* ExecuteWithResult).                                                     *)
(***************************************************************************)
CallsNest ==
  \A c \in Callers :
    /\ pc[c] # "idle" => stage[c] = "attempt"
    /\ stage[c] # "idle" <=> at[c] = "running"

(***************************************************************************)
(* The backend is never called by more than totalSlots goroutines at once, *)
(* retries included (Bulkhead around Retry around the breaker).            *)
(***************************************************************************)
BackendLoad == Cardinality({c \in Callers : pc[c] = "running"}) <= BH!totalSlots

(***************************************************************************)
(* A refusal ends the call: a goroutine the breaker turned away calls the  *)
(* backend again only in a new call (IsRetryable, ExecuteWithResult).      *)
(***************************************************************************)
RefusalIsFinal ==
  [][\A c \in Callers : lastErr[c] = "circuitOpen" /\ stage[c] # "idle"
                          => stage'[c] \notin {"check", "attempt", "backoff"}]_vars

(***************************************************************************)
(* After any number of calls, refused, cancelled, retried or not: when     *)
(* nobody is in the policy, all slots are free, nothing is queued, no      *)
(* callback is outstanding, and the breaker, if it is half-open, grants the*)
(* next request, provided that successThreshold probes are allowed         *)
(* (Execute, acquire, release, Allow, RecordSuccess, RecordFailure).       *)
(***************************************************************************)
Quiet == \A c \in Callers : at[c] = "outside"

QuietPolicyServes ==
  Quiet =>
    /\ semaphore = 0 /\ queued = 0 /\ active = 0
    /\ seen = cb.state
    /\ cb.state = CB!StateHalfOpen /\ CB!successThreshold <= CB!halfOpenMaxRequests =>
         cb.halfOpenRequests < CB!halfOpenMaxRequests
=============================================================================
