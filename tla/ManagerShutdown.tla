-------------------------- MODULE ManagerShutdown --------------------------
(***************************************************************************)
(* How the Manager of internal/cache/manager.go closes: goroutines that    *)
(* start background work (runBackground), goroutines that close the        *)
(* Manager (CloseWithTimeout), and the background work itself, which may   *)
(* take for ever.  Lock, and every access to closed and bgWg, is a step of *)
(* its own; what the work does is left out.                                *)
(***************************************************************************)
EXTENDS Integers, FiniteSets

CONSTANTS
  Users,    \* goroutines in operations that start background work
  Closers,  \* goroutines that call Close
  MaxWork   \* bounds the model: background goroutines at a time

ASSUME ShutdownAssumption ==
  /\ IsFiniteSet(Users) /\ IsFiniteSet(Closers)
  /\ Users \cap Closers = {} /\ "free" \notin Users \cup Closers
  /\ MaxWork \in Nat \ {0}

VARIABLES
  bgMu,         \* who holds the mutex
  closed,
  bgWg,         \* the counter of the WaitGroup
  running,      \* background goroutines in their function
  waited,       \* bgWg.Wait has returned
  timedOut,
  memoryCloses, \* how often memory.Close and redis.Close were called
  redisCloses,
  pc

vars == <<bgMu, closed, bgWg, running, waited, timedOut, memoryCloses, redisCloses, pc>>

Goroutines  == Users \cup Closers
UserPlaces  == {"idle", "lock", "check", "add", "unlock", "go"}
CloserPlaces == {"open", "locking", "swap", "cancel", "leave", "wait", "closeMemory",
                 "closeRedis", "returned"}
Calling      == {u \in Users : pc[u] # "idle"}

Step(g, from, to) == pc[g] = from /\ pc' = [pc EXCEPT ![g] = to]

-----------------------------------------------------------------------------
(***************************************************************************)
(* An operation, past its own check of closed, calls runBackground: lock,  *)
(* look at closed again, count the work, unlock, start it.                 *)
(***************************************************************************)
Call(u) ==
  /\ bgWg + Cardinality(Calling) < MaxWork
  /\ Step(u, "idle", "lock")
  /\ UNCHANGED <<bgMu, closed, bgWg, running, waited, timedOut, memoryCloses, redisCloses>>

LocksNothing(u) ==
  /\ Step(u, "lock", "check")
  /\ UNCHANGED <<bgMu, closed, bgWg, running, waited, timedOut, memoryCloses, redisCloses>>

Lock(u) ==
  /\ Step(u, "lock", "check")
  /\ bgMu = "free" /\ bgMu' = u
  /\ UNCHANGED <<closed, bgWg, running, waited, timedOut, memoryCloses, redisCloses>>

CheckClosed(u) ==
  /\ Step(u, "check", IF closed THEN "unlock" ELSE "add")
  /\ UNCHANGED <<bgMu, closed, bgWg, running, waited, timedOut, memoryCloses, redisCloses>>

Unlock(u) ==
  /\ Step(u, "unlock", "idle")
  /\ bgMu' = "free"
  /\ UNCHANGED <<closed, bgWg, running, waited, timedOut, memoryCloses, redisCloses>>

StartsUncounted(u) ==
  /\ Step(u, "add", "go")
  /\ bgMu' = "free"
  /\ UNCHANGED <<closed, bgWg, running, waited, timedOut, memoryCloses, redisCloses>>

Add(u) ==
  /\ Step(u, "add", "go")
  /\ bgWg' = bgWg + 1
  /\ bgMu' = "free"
  /\ UNCHANGED <<closed, running, waited, timedOut, memoryCloses, redisCloses>>

Go(u) ==
  /\ Step(u, "go", "idle")
  /\ running' = running + 1
  /\ UNCHANGED <<bgMu, closed, bgWg, waited, timedOut, memoryCloses, redisCloses>>

(***************************************************************************)
(* The function returns and the deferred Done runs.                        *)
(***************************************************************************)
WorkDone ==
  /\ running > 0
  /\ running' = running - 1 /\ bgWg' = bgWg - 1
  /\ UNCHANGED <<bgMu, closed, waited, timedOut, memoryCloses, redisCloses, pc>>

-----------------------------------------------------------------------------
(***************************************************************************)
(* CloseWithTimeout: the first to swap closed cancels the context and goes *)
(* on; anyone else returns nil.                                            *)
(***************************************************************************)
CallClose(k) ==
  /\ Step(k, "open", "locking")
  /\ UNCHANGED <<bgMu, closed, bgWg, running, waited, timedOut, memoryCloses, redisCloses>>

LockToClose(k) ==
  /\ Step(k, "locking", "swap")
  /\ bgMu = "free" /\ bgMu' = k
  /\ UNCHANGED <<closed, bgWg, running, waited, timedOut, memoryCloses, redisCloses>>

ClosesAgain(k) ==
  /\ Step(k, "swap", "cancel")
  /\ closed' = TRUE
  /\ UNCHANGED <<bgMu, bgWg, running, waited, timedOut, memoryCloses, redisCloses>>

Swap(k) ==
  /\ Step(k, "swap", IF closed THEN "leave" ELSE "cancel")
  /\ closed' = TRUE
  /\ UNCHANGED <<bgMu, bgWg, running, waited, timedOut, memoryCloses, redisCloses>>

Leave(k) ==
  /\ Step(k, "leave", "returned")
  /\ bgMu' = "free"
  /\ UNCHANGED <<closed, bgWg, running, waited, timedOut, memoryCloses, redisCloses>>

Cancel(k) ==
  /\ Step(k, "cancel", "wait")
  /\ bgMu' = "free"
  /\ UNCHANGED <<closed, bgWg, running, waited, timedOut, memoryCloses, redisCloses>>

(***************************************************************************)
(* The goroutine that waits for the WaitGroup closes done.                 *)
(***************************************************************************)
Wait ==
  /\ ~waited
  /\ \E k \in Closers : pc[k] \in {"wait", "closeMemory", "closeRedis"}
  /\ bgWg = 0
  /\ waited' = TRUE
  /\ UNCHANGED <<bgMu, closed, bgWg, running, timedOut, memoryCloses, redisCloses, pc>>

(***************************************************************************)
(* The select: done or the timer.                                          *)
(***************************************************************************)
Finished(k) ==
  /\ Step(k, "wait", "closeMemory")
  /\ waited
  /\ UNCHANGED <<bgMu, closed, bgWg, running, waited, timedOut, memoryCloses, redisCloses>>

WaitsForEver(k) ==
  /\ Step(k, "wait", "closeMemory")
  /\ waited /\ timedOut' = TRUE
  /\ UNCHANGED <<bgMu, closed, bgWg, running, waited, memoryCloses, redisCloses>>

ForgetsTheTimeout(k) ==
  /\ Step(k, "wait", "closeMemory")
  /\ UNCHANGED <<bgMu, closed, bgWg, running, waited, timedOut, memoryCloses, redisCloses>>

Timeout(k) ==
  /\ Step(k, "wait", "closeMemory")
  /\ timedOut' = TRUE
  /\ UNCHANGED <<bgMu, closed, bgWg, running, waited, memoryCloses, redisCloses>>

CloseMemory(k) ==
  /\ Step(k, "closeMemory", "closeRedis")
  /\ memoryCloses' = memoryCloses + 1
  /\ UNCHANGED <<bgMu, closed, bgWg, running, waited, timedOut, redisCloses>>

CloseRedis(k) ==
  /\ Step(k, "closeRedis", "returned")
  /\ redisCloses' = redisCloses + 1
  /\ UNCHANGED <<bgMu, closed, bgWg, running, waited, timedOut, memoryCloses>>

-----------------------------------------------------------------------------
Init ==
  /\ bgMu = "free" /\ closed = FALSE
  /\ bgWg = 0 /\ running = 0
  /\ waited = FALSE /\ timedOut = FALSE
  /\ memoryCloses = 0 /\ redisCloses = 0
  /\ pc = [g \in Goroutines |-> IF g \in Users THEN "idle" ELSE "open"]

UserStep(u) == Lock(u) \/ CheckClosed(u) \/ Unlock(u) \/ Add(u) \/ Go(u)

CloserStep(k) ==
  \/ Swap(k) \/ Leave(k) \/ Cancel(k)
  \/ Finished(k) \/ Timeout(k) \/ CloseMemory(k) \/ CloseRedis(k)

Next ==
  \/ \E u \in Users : Call(u) \/ UserStep(u)
  \/ WorkDone \/ Wait
  \/ \E k \in Closers : CallClose(k) \/ LockToClose(k) \/ CloserStep(k)

Spec == Init /\ [][Next]_vars

(***************************************************************************)
(* Goroutines are scheduled, the mutex is handed to everyone who waits for *)
(* it (Go's mutexes do not starve) and the timer fires.  The background    *)
(* work need not end.                                                      *)
(***************************************************************************)
FairSpec ==
  /\ Spec
  /\ \A u \in Users : WF_vars(UserStep(u))
  /\ \A k \in Closers : SF_vars(LockToClose(k)) /\ WF_vars(CloserStep(k))

-----------------------------------------------------------------------------
TypeOK ==
  /\ bgMu \in Goroutines \cup {"free"}
  /\ closed \in BOOLEAN /\ waited \in BOOLEAN /\ timedOut \in BOOLEAN
  /\ bgWg \in Nat /\ running \in Nat
  /\ memoryCloses \in Nat /\ redisCloses \in Nat
  /\ pc \in [Goroutines -> UserPlaces \cup CloserPlaces]
  /\ \A u \in Users : pc[u] \in UserPlaces
  /\ \A k \in Closers : pc[k] \in CloserPlaces

(***************************************************************************)
(* The WaitGroup counts the work that runs and the work about to start, so *)
(* Wait cannot return over either (runBackground).                         *)
(***************************************************************************)
Starting == {u \in Users : pc[u] = "go"}

WorkIsCounted == bgWg = running + Cardinality(Starting)

(***************************************************************************)
(* The layers are closed after all background work, unless Close timed out *)
(* (CloseWithTimeout, runBackground).                                      *)
(***************************************************************************)
LayersOutliveWork == memoryCloses > 0 /\ ~timedOut => bgWg = 0

(***************************************************************************)
(* No work is counted once Wait may have begun, as WaitGroup demands       *)
(* (runBackground).                                                        *)
(***************************************************************************)
NoAddAfterClose == [][closed => bgWg' <= bgWg]_vars

(***************************************************************************)
(* However many call Close at once, each layer is closed once: the Redis   *)
(* layer's Close, which closes its channels, would panic the second time   *)
(* (CloseWithTimeout).                                                     *)
(***************************************************************************)
LayersCloseOnce == memoryCloses <= 1 /\ redisCloses <= 1

(***************************************************************************)
(* Every Close returns, even if some background work never does            *)
(* (CloseWithTimeout).                                                     *)
(***************************************************************************)
CloseReturns == \A k \in Closers : pc[k] = "locking" ~> pc[k] = "returned"
=============================================================================
