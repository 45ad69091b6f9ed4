----------------------------- MODULE ProbeQuota -----------------------------
(***************************************************************************)
(* What becomes of HalfOpenMaxRequests when goroutines act on a state they *)
(* loaded before: one that saw the breaker open restarts the count of a    *)
(* breaker that is half-open by then, and one that saw it half-open may be *)
(* granted after it has opened again.  Auxiliary variables count, from the *)
(* moment the breaker becomes half-open until it closes or becomes         *)
(* half-open again: probes, the probes it grants; herd, the goroutines     *)
(* that had seen it open by that moment, the one that moved it included.   *)
(***************************************************************************)
EXTENDS CircuitBreaker

VARIABLES probes, herd

quotaVars == <<breakerVars, probes, herd>>

SawOpen == {c \in Callers : pc[c] = "sawOpen"}

Granted ==
  \E c \in Callers : pc[c] \in {"sawOpen", "sawHalfOpen"} /\ pc'[c] \in {"running", "notify"}

Begins == cb.state # StateHalfOpen /\ cb'.state = StateHalfOpen

QuotaInit == Init /\ probes = 0 /\ herd = 1
QuotaNext ==
  /\ Next
  /\ probes' = CASE cb'.state = StateClosed -> 0
                 [] Begins                  -> 1
                 [] OTHER                   -> IF Granted THEN probes + 1 ELSE probes
  /\ herd' = CASE cb'.state = StateClosed -> 1
               [] Begins                  -> Cardinality(SawOpen)
               [] OTHER                   -> herd
QuotaSpec == QuotaInit /\ [][QuotaNext]_quotaVars /\ Fairness

(***************************************************************************)
(* HalfOpenMaxRequests holds, for each goroutine that had seen the breaker *)
(* open: a half-open period grants no more probes than the herd accounts   *)
(* for, and no more than HalfOpenMaxRequests if only the goroutine that    *)
(* began the period had seen it open, whether they are granted before the  *)
(* breaker opens again or afterwards (Allow, transitionTo).                *)
(***************************************************************************)
HerdIsLimited == probes <= halfOpenMaxRequests * herd
=============================================================================
