------------------------------ MODULE Bulkhead ------------------------------
(***************************************************************************)
(* The bulkhead of internal/resilience/bulkhead.go: a semaphore (a channel *)
(* of totalSlots) and four atomic counters, none of them guarded by a      *)
(* lock.  Every atomic operation is a step of its own, in program order,   *)
(* the deferred ones included.                                             *)
(***************************************************************************)
EXTENDS Integers, FiniteSets

CONSTANTS
  Callers,        \* goroutines that call ExecuteCtx or ExecuteWithResult
  MaxConcurrent,  \* config.BulkheadConfig: zero or negative selects the default
  MaxQueue,
  CounterSpan     \* the totals wrap here (2^64 in the code); bounds the model

ASSUME BulkheadAssumption ==
  /\ IsFiniteSet(Callers)
  /\ MaxConcurrent \in Int
  /\ MaxQueue \in Int
  /\ CounterSpan \in Nat \ {0}

(***************************************************************************)
(* NewBulkhead.                                                            *)
(***************************************************************************)
maxConcurrent == IF MaxConcurrent <= 0 THEN 100 ELSE MaxConcurrent
maxQueue      == IF MaxQueue <= 0 THEN 50 ELSE MaxQueue
totalSlots    == maxConcurrent + maxQueue

VARIABLES
  at,         \* where each goroutine is inside ExecuteWithResult
  semaphore,  \* how many tokens the channel holds
  queued,     \* queuedCount
  active,     \* activeCount
  executed,   \* totalExecuted
  rejected,   \* rejectedCount
  started     \* how often the callers called, by their own count

bulkheadVars == <<at, semaphore, queued, active, executed, rejected, started>>

Places == {"outside", "full", "admitted", "waiting", "dequeued", "refused",
           "acquired", "running", "finished", "leaving"}

GoTo(c, place) == at' = [at EXCEPT ![c] = place]
Bumped(n)      == (n + 1) % CounterSpan
At(places)     == {c \in Callers : at[c] \in places}

-----------------------------------------------------------------------------
(***************************************************************************)
(* acquire: the non-blocking send.                                         *)
(***************************************************************************)
TryAcquire(c) ==
  /\ at[c] = "outside"
  /\ started' = Bumped(started)
  /\ IF semaphore < totalSlots
       THEN GoTo(c, "acquired") /\ semaphore' = semaphore + 1
       ELSE GoTo(c, "full") /\ UNCHANGED semaphore
  /\ UNCHANGED <<queued, active, executed, rejected>>

(***************************************************************************)
(* acquire: load queuedCount and turn the caller away if the queue is      *)
(* full.  The load and the increment below are two steps.                  *)
(***************************************************************************)
DequeuesTheRejected(c) ==
  /\ at[c] = "full"
  /\ IF queued >= maxQueue
       THEN /\ GoTo(c, "outside")
            /\ rejected' = Bumped(rejected)
            /\ queued' = queued - 1
       ELSE GoTo(c, "admitted") /\ UNCHANGED <<rejected, queued>>
  /\ UNCHANGED <<semaphore, active, executed, started>>

CheckQueue(c) ==
  /\ at[c] = "full"
  /\ IF queued >= maxQueue
       THEN GoTo(c, "outside") /\ rejected' = Bumped(rejected)
       ELSE GoTo(c, "admitted") /\ UNCHANGED rejected
  /\ UNCHANGED <<semaphore, queued, active, executed, started>>

JoinQueue(c) ==
  /\ at[c] = "admitted"
  /\ GoTo(c, "waiting")
  /\ queued' = queued + 1
  /\ UNCHANGED <<semaphore, active, executed, rejected, started>>

(***************************************************************************)
(* acquire: the select.  The send can be chosen whenever there is room;    *)
(* the timeout, or the end of the caller's context, at any time.           *)
(***************************************************************************)
QueuesOnTop(c) ==
  /\ at[c] = "waiting"
  /\ semaphore < totalSlots + maxQueue
  /\ GoTo(c, "dequeued")
  /\ semaphore' = semaphore + 1
  /\ UNCHANGED <<queued, active, executed, rejected, started>>

TakeSlot(c) ==
  /\ at[c] = "waiting"
  /\ semaphore < totalSlots
  /\ GoTo(c, "dequeued")
  /\ semaphore' = semaphore + 1
  /\ UNCHANGED <<queued, active, executed, rejected, started>>

GivesUpUncounted(c) ==
  /\ at[c] = "waiting"
  /\ GoTo(c, "refused")
  /\ UNCHANGED <<semaphore, queued, active, executed, rejected, started>>

NeverGivesUp(c) ==
  /\ at[c] = "waiting"
  /\ FALSE
  /\ UNCHANGED bulkheadVars

GiveUp(c) ==
  /\ at[c] = "waiting"
  /\ GoTo(c, "refused")
  /\ rejected' = Bumped(rejected)
  /\ UNCHANGED <<semaphore, queued, active, executed, started>>

(***************************************************************************)
(* The deferred decrement of queuedCount, on either way out.               *)
(***************************************************************************)
LeaveQueue(c) ==
  /\ \/ at[c] = "dequeued" /\ GoTo(c, "acquired")
     \/ at[c] = "refused" /\ GoTo(c, "outside")
  /\ queued' = queued - 1
  /\ UNCHANGED <<semaphore, active, executed, rejected, started>>

-----------------------------------------------------------------------------
(***************************************************************************)
(* ExecuteWithResult with the slot: count the operation as active, run it, *)
(* count it as executed, and undo both in the reverse order.               *)
(***************************************************************************)
Begin(c) ==
  /\ at[c] = "acquired"
  /\ GoTo(c, "running")
  /\ active' = active + 1
  /\ UNCHANGED <<semaphore, queued, executed, rejected, started>>

Finish(c) ==
  /\ at[c] = "running"
  /\ GoTo(c, "finished")
  /\ executed' = Bumped(executed)
  /\ UNCHANGED <<semaphore, queued, active, rejected, started>>

StaysActive(c) ==
  /\ at[c] = "finished"
  /\ GoTo(c, "leaving")
  /\ UNCHANGED <<semaphore, queued, active, executed, rejected, started>>

End(c) ==
  /\ at[c] = "finished"
  /\ GoTo(c, "leaving")
  /\ active' = active - 1
  /\ UNCHANGED <<semaphore, queued, executed, rejected, started>>

release(c) ==
  /\ at[c] = "leaving"
  /\ GoTo(c, "outside")
  /\ semaphore' = semaphore - 1
  /\ UNCHANGED <<queued, active, executed, rejected, started>>

-----------------------------------------------------------------------------
Init ==
  /\ at = [c \in Callers |-> "outside"]
  /\ semaphore = 0 /\ queued = 0 /\ active = 0
  /\ executed = 0 /\ rejected = 0 /\ started = 0

(***************************************************************************)
(* What a goroutine does once it has called.                               *)
(***************************************************************************)
Proceed(c) ==
  \/ CheckQueue(c)
  \/ JoinQueue(c)
  \/ TakeSlot(c)
  \/ GiveUp(c)
  \/ LeaveQueue(c)
  \/ Begin(c)
  \/ Finish(c)
  \/ End(c)
  \/ release(c)

Next == \E c \in Callers : TryAcquire(c) \/ Proceed(c)

Spec == Init /\ [][Next]_bulkheadVars

(***************************************************************************)
(* A goroutine that called is scheduled, its operation returns, and its    *)
(* acquireTimeout expires.                                                 *)
(***************************************************************************)
FairSpec == Spec /\ \A c \in Callers : WF_bulkheadVars(Proceed(c))

-----------------------------------------------------------------------------
Holding == At({"dequeued", "acquired", "running", "finished", "leaving"})
Queued  == At({"waiting", "dequeued", "refused"})
Active  == At({"running", "finished"})

TypeOK ==
  /\ at \in [Callers -> Places]
  /\ semaphore \in 0..totalSlots
  /\ queued \in Nat
  /\ active \in Nat
  /\ {executed, rejected, started} \subseteq 0..(CounterSpan - 1)

(***************************************************************************)
(* Nothing is leaked on any way through acquire and the deferred calls:    *)
(* the semaphore holds one token per caller that got a slot and has not    *)
(* released it, and the two gauges count exactly the callers they are      *)
(* about (acquire, release, ExecuteWithResult).                            *)
(***************************************************************************)
NothingLeaks ==
  /\ semaphore = Cardinality(Holding)
  /\ queued = Cardinality(Queued)
  /\ active = Cardinality(Active)

(***************************************************************************)
(* Every call is counted once, as executed or as rejected, unless it is    *)
(* still under way (acquire, ExecuteWithResult).                           *)
(***************************************************************************)
Undecided == At({"full", "admitted", "waiting", "dequeued", "acquired", "running"})

CallsAreCounted ==
  (executed + rejected + Cardinality(Undecided)) % CounterSpan = started

(***************************************************************************)
(* Every call returns: a caller that waits while others keep overtaking it *)
(* is turned away by the timeout (acquire).                                *)
(***************************************************************************)
EveryCallReturns == \A c \in Callers : at[c] # "outside" ~> at[c] = "outside"

(***************************************************************************)
(* The bulkhead is a limit of totalSlots on the callers that hold a slot.  *)
(***************************************************************************)
Limit == INSTANCE ConcurrencyLimit WITH Slots <- totalSlots, inside <- Holding

LimitsConcurrency == Limit!Spec
=============================================================================
