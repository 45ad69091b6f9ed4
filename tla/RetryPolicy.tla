---------------------------- MODULE RetryPolicy ----------------------------
(***************************************************************************)
(* The retry loop of internal/resilience/retry.go and the IsRetryable of   *)
(* errors.go, for a set of goroutines that share its statistics.  What one *)
(* attempt does is left to the module that composes this one: it moves a   *)
(* goroutine from "attempt" to "judge" by Return.                          *)
(***************************************************************************)
EXTENDS Integers

CONSTANTS
  Callers,
  MaxAttempts,   \* config.RetryConfig: zero or negative selects the default
  CounterSpan    \* the totals wrap here (2^64 in the code); bounds the model

(***************************************************************************)
(* NewRetryPolicy.                                                         *)
(***************************************************************************)
maxAttempts == IF MaxAttempts <= 0 THEN 3 ELSE MaxAttempts

(***************************************************************************)
(* The errors an attempt can end with: a miss, Redis marked unavailable,   *)
(* the write queue full, the breaker's refusal, a network error that is a  *)
(* timeout and one that is not.                                            *)
(***************************************************************************)
Errors == {"miss", "unavailable", "queueFull", "circuitOpen", "timeout", "network"}

IsRetryable(e) == e \notin {"circuitOpen", "network"}

VARIABLES
  stage,      \* where each goroutine is in the loop
  attempt,    \* the loop variable
  lastErr,    \* the error of the attempt, "none" for nil
  retryStats  \* totalRetries, totalSuccess, totalFailure

retryVars == <<stage, attempt, lastErr, retryStats>>

Stages == {"idle", "check", "attempt", "judge", "backoff", "done"}

GoOn(c, s)    == stage' = [stage EXCEPT ![c] = s]
Count(field)  == retryStats' = [retryStats EXCEPT ![field] = (@ + 1) % CounterSpan]

-----------------------------------------------------------------------------
Init ==
  /\ stage = [c \in Callers |-> "idle"]
  /\ attempt = [c \in Callers |-> 1]
  /\ lastErr = [c \in Callers |-> "none"]
  /\ retryStats = [retries |-> 0, success |-> 0, failure |-> 0]

Start(c) ==
  /\ stage[c] = "idle"
  /\ GoOn(c, "check")
  /\ attempt' = [attempt EXCEPT ![c] = 1]
  /\ lastErr' = [lastErr EXCEPT ![c] = "none"]
  /\ UNCHANGED retryStats

(***************************************************************************)
(* The head of the loop: a context that is done ends the call, uncounted.  *)
(***************************************************************************)
CheckContext(c) ==
  /\ stage[c] = "check"
  /\ GoOn(c, "attempt") \/ GoOn(c, "done")
  /\ UNCHANGED <<attempt, lastErr, retryStats>>

(***************************************************************************)
(* fn(ctx) has returned e.                                                 *)
(***************************************************************************)
Return(c, e) ==
  /\ stage[c] = "attempt"
  /\ GoOn(c, "judge")
  /\ lastErr' = [lastErr EXCEPT ![c] = e]
  /\ UNCHANGED <<attempt, retryStats>>

(***************************************************************************)
(* What the loop makes of it: success, an error not worth a retry, the     *)
(* last attempt, or a retry after a pause.                                 *)
(***************************************************************************)
RetriesRefusals(c) ==
  /\ stage[c] = "judge"
  /\ \/ /\ lastErr[c] = "none"
        /\ Count("success") /\ GoOn(c, "done")
     \/ /\ lastErr[c] # "none"
        /\ attempt[c] = maxAttempts
        /\ Count("failure") /\ GoOn(c, "done")
     \/ /\ lastErr[c] # "none"
        /\ attempt[c] < maxAttempts
        /\ Count("retries") /\ GoOn(c, "backoff")
  /\ UNCHANGED <<attempt, lastErr>>

Judge(c) ==
  /\ stage[c] = "judge"
  /\ \/ /\ lastErr[c] = "none"
        /\ Count("success") /\ GoOn(c, "done")
     \/ /\ lastErr[c] # "none"
        /\ ~IsRetryable(lastErr[c]) \/ attempt[c] = maxAttempts
        /\ Count("failure") /\ GoOn(c, "done")
     \/ /\ lastErr[c] # "none"
        /\ IsRetryable(lastErr[c]) /\ attempt[c] < maxAttempts
        /\ Count("retries") /\ GoOn(c, "backoff")
  /\ UNCHANGED <<attempt, lastErr>>

(***************************************************************************)
(* The pause ends by the timer, or with the context, again uncounted.      *)
(***************************************************************************)
Backoff(c) ==
  /\ stage[c] = "backoff"
  /\ \/ GoOn(c, "check") /\ attempt' = [attempt EXCEPT ![c] = @ + 1]
     \/ GoOn(c, "done") /\ UNCHANGED attempt
  /\ UNCHANGED <<lastErr, retryStats>>

End(c) ==
  /\ stage[c] = "done"
  /\ GoOn(c, "idle")
  /\ UNCHANGED <<attempt, lastErr, retryStats>>

=============================================================================
