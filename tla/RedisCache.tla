----------------------------- MODULE RedisCache -----------------------------
(***************************************************************************)
(* The Redis layer of internal/cache/redis.go: what it believes of the     *)
(* connection, its queue of asynchronous writes with the worker that       *)
(* empties it, the health checker, and Close.  Every atomic operation,     *)
(* channel operation and command sent to Redis is a step of its own.       *)
(* Values and keys are left out: a write is a place in the queue.          *)
(***************************************************************************)
EXTENDS Integers, FiniteSetsExt

CONSTANTS
  Clients,                   \* goroutines that call Get, Set, Delete, ...
  MaxPendingWrites,          \* capacity of writeQueue
  disconnectErrorThreshold,
  HealthCheck                \* HealthCheckInterval > 0

ASSUME RedisAssumption ==
  /\ IsFiniteSet(Clients)
  /\ MaxPendingWrites \in Nat \ {0}
  /\ disconnectErrorThreshold \in Nat \ {0}
  /\ HealthCheck \in BOOLEAN
  /\ {"worker", "health", "closer"} \cap Clients = {}

VARIABLES
  connected,      \* what the layer believes
  errorCount,     \* errors since the last success; it is only compared with
                  \* zero and the threshold and stays at the latter
  mu,             \* who is between Lock and Unlock in handleError
  writeQueue,     \* how many writes are in the channel
  pendingWrites,
  wasConnected,   \* local to performHealthCheck
  draining,       \* the worker has seen stopCh closed
  clientClosed,   \* client.Close was called
  redisUp,        \* the server answers
  pc

vars == <<connected, errorCount, mu, writeQueue, pendingWrites, wasConnected,
          draining, clientClosed, redisUp, pc>>

Threads == Clients \cup {"worker", "health", "closer"}

ClientPlaces == {"idle", "check", "asyncCheck", "call", "send", "count",
                 "clear", "restore", "fail", "disconnect"}
WorkerPlaces == {"select", "write", "clear", "restore", "fail", "disconnect",
                 "written", "exited"}
HealthPlaces == {"tick", "ping", "setError", "reconnect", "resetCount", "exited"}
CloserPlaces == {"open", "stopHealth", "waitHealth", "waitWorker", "closeClient", "closed"}

GoTo(t, place) == pc' = [pc EXCEPT ![t] = place]

(***************************************************************************)
(* Where a thread goes on after handleError or clearError: the client's    *)
(* call returns, the worker runs its deferred decrement.                   *)
(***************************************************************************)
After(t) == IF t = "worker" THEN "written" ELSE "idle"

StopsTooLate == pc["closer"] \in {"closeClient", "closed"}

HealthStopped == pc["closer"] \notin {"open", "stopHealth"}
Stopped == pc["closer"] \in {"waitWorker", "closeClient", "closed"}

-----------------------------------------------------------------------------
(***************************************************************************)
(* A call of the Manager, which makes none once it is closing.             *)
(***************************************************************************)
Begin(c, place) ==
  /\ pc["closer"] = "open"
  /\ pc[c] = "idle"
  /\ GoTo(c, place)
  /\ UNCHANGED <<connected, errorCount, mu, writeQueue, pendingWrites, wasConnected,
                 draining, clientClosed, redisUp>>

(***************************************************************************)
(* The load of connected every operation starts with: ErrRedisUnavailable, *)
(* or on to the command, or to the queue if the Set is FireAndForget.      *)
(***************************************************************************)
CheckConnected(c) ==
  /\ \/ pc[c] \in {"check", "asyncCheck"} /\ ~connected /\ GoTo(c, "idle")
     \/ pc[c] = "check" /\ connected /\ GoTo(c, "call")
     \/ pc[c] = "asyncCheck" /\ connected /\ GoTo(c, "send")
  /\ UNCHANGED <<connected, errorCount, mu, writeQueue, pendingWrites, wasConnected,
                 draining, clientClosed, redisUp>>

(***************************************************************************)
(* The command of an operation or of executeWrite.  It succeeds only if    *)
(* the server is up and the client open, and can always fail: a timeout, a *)
(* cancelled context.  A miss of Get neither clears nor counts an error.   *)
(***************************************************************************)
CallSucceeds(t) ==
  /\ pc[t] \in {"call", "write"}
  /\ redisUp /\ ~clientClosed
  /\ GoTo(t, "clear") \/ (t # "worker" /\ GoTo(t, "idle"))
  /\ UNCHANGED <<connected, errorCount, mu, writeQueue, pendingWrites, wasConnected,
                 draining, clientClosed, redisUp>>

CallFails(t) ==
  /\ pc[t] \in {"call", "write"}
  /\ GoTo(t, "fail")
  /\ UNCHANGED <<connected, errorCount, mu, writeQueue, pendingWrites, wasConnected,
                 draining, clientClosed, redisUp>>

(***************************************************************************)
(* handleError: count the error under mu and, at the threshold, mark the   *)
(* layer disconnected.                                                     *)
(***************************************************************************)
CountError(t) ==
  /\ pc[t] = "fail"
  /\ mu = "free"
  /\ errorCount' = Min({errorCount + 1, disconnectErrorThreshold})
  /\ IF errorCount + 1 >= disconnectErrorThreshold
       THEN mu' = t /\ GoTo(t, "disconnect")
       ELSE GoTo(t, After(t)) /\ UNCHANGED mu
  /\ UNCHANGED <<connected, writeQueue, pendingWrites, wasConnected, draining,
                 clientClosed, redisUp>>

Disconnect(t) ==
  /\ pc[t] = "disconnect"
  /\ connected' = FALSE
  /\ mu' = "free"
  /\ GoTo(t, After(t))
  /\ UNCHANGED <<errorCount, writeQueue, pendingWrites, wasConnected, draining,
                 clientClosed, redisUp>>

(***************************************************************************)
(* clearError, without mu: swap the count and, if there were errors, mark  *)
(* the layer connected.                                                    *)
(***************************************************************************)
ClearCount(t) ==
  /\ pc[t] = "clear"
  /\ errorCount' = 0
  /\ GoTo(t, IF errorCount > 0 THEN "restore" ELSE After(t))
  /\ UNCHANGED <<connected, mu, writeQueue, pendingWrites, wasConnected, draining,
                 clientClosed, redisUp>>

Restore(t) ==
  /\ pc[t] = "restore"
  /\ connected' = TRUE
  /\ GoTo(t, After(t))
  /\ UNCHANGED <<errorCount, mu, writeQueue, pendingWrites, wasConnected, draining,
                 clientClosed, redisUp>>

-----------------------------------------------------------------------------
(***************************************************************************)
(* setAsync: the write is in the channel before it is counted.  A full     *)
(* channel drops it.                                                       *)
(***************************************************************************)
Send(c) ==
  /\ pc[c] = "send"
  /\ IF writeQueue < MaxPendingWrites
       THEN writeQueue' = writeQueue + 1 /\ GoTo(c, "count")
       ELSE GoTo(c, "idle") /\ UNCHANGED writeQueue
  /\ UNCHANGED <<connected, errorCount, mu, pendingWrites, wasConnected, draining,
                 clientClosed, redisUp>>

CountPending(c) ==
  /\ pc[c] = "count"
  /\ pendingWrites' = pendingWrites + 1
  /\ GoTo(c, "idle")
  /\ UNCHANGED <<connected, errorCount, mu, writeQueue, wasConnected, draining,
                 clientClosed, redisUp>>

(***************************************************************************)
(* asyncWriteWorker: take a write, or, once stopCh is closed, empty the    *)
(* channel and return.                                                     *)
(***************************************************************************)
Take ==
  /\ pc["worker"] = "select"
  /\ writeQueue > 0
  /\ writeQueue' = writeQueue - 1
  /\ GoTo("worker", "write")
  /\ UNCHANGED <<connected, errorCount, mu, pendingWrites, wasConnected, draining,
                 clientClosed, redisUp>>

SeeStop ==
  /\ pc["worker"] = "select"
  /\ Stopped /\ ~draining
  /\ draining' = TRUE
  /\ UNCHANGED <<connected, errorCount, mu, writeQueue, pendingWrites, wasConnected,
                 clientClosed, redisUp, pc>>

ExitWorker ==
  /\ pc["worker"] = "select"
  /\ draining /\ writeQueue = 0
  /\ GoTo("worker", "exited")
  /\ UNCHANGED <<connected, errorCount, mu, writeQueue, pendingWrites, wasConnected,
                 draining, clientClosed, redisUp>>

FinishesOnlySuccesses ==
  /\ pc["worker"] = "written"
  /\ GoTo("worker", "select")
  /\ pendingWrites' = IF errorCount = 0 THEN pendingWrites - 1 ELSE pendingWrites
  /\ UNCHANGED <<connected, errorCount, mu, writeQueue, wasConnected, draining,
                 clientClosed, redisUp>>

FinishWrite ==
  /\ pc["worker"] = "written"
  /\ GoTo("worker", "select")
  /\ pendingWrites' = pendingWrites - 1
  /\ UNCHANGED <<connected, errorCount, mu, writeQueue, wasConnected, draining,
                 clientClosed, redisUp>>

-----------------------------------------------------------------------------
(***************************************************************************)
(* healthCheckWorker and performHealthCheck.                               *)
(***************************************************************************)
Tick ==
  /\ pc["health"] = "tick"
  /\ wasConnected' = connected
  /\ GoTo("health", "ping")
  /\ UNCHANGED <<connected, errorCount, mu, writeQueue, pendingWrites, draining,
                 clientClosed, redisUp>>

PingSucceeds ==
  /\ pc["health"] = "ping"
  /\ redisUp
  /\ GoTo("health", IF wasConnected THEN "tick" ELSE "reconnect")
  /\ UNCHANGED <<connected, errorCount, mu, writeQueue, pendingWrites, wasConnected,
                 draining, clientClosed, redisUp>>

IgnoresFailedPings ==
  /\ pc["health"] = "ping"
  /\ GoTo("health", "tick")
  /\ UNCHANGED <<connected, errorCount, mu, writeQueue, pendingWrites, wasConnected,
                 draining, clientClosed, redisUp>>

PingFails ==
  /\ pc["health"] = "ping"
  /\ GoTo("health", IF wasConnected THEN "setError" ELSE "tick")
  /\ UNCHANGED <<connected, errorCount, mu, writeQueue, pendingWrites, wasConnected,
                 draining, clientClosed, redisUp>>

SetError ==
  /\ pc["health"] = "setError"
  /\ mu = "free"
  /\ connected' = FALSE
  /\ GoTo("health", "tick")
  /\ UNCHANGED <<errorCount, mu, writeQueue, pendingWrites, wasConnected, draining,
                 clientClosed, redisUp>>

OnlyForgetsErrors ==
  /\ pc["health"] = "reconnect"
  /\ GoTo("health", "resetCount")
  /\ UNCHANGED <<connected, errorCount, mu, writeQueue, pendingWrites, wasConnected,
                 draining, clientClosed, redisUp>>

Reconnected ==
  /\ pc["health"] = "reconnect"
  /\ connected' = TRUE
  /\ GoTo("health", "resetCount")
  /\ UNCHANGED <<errorCount, mu, writeQueue, pendingWrites, wasConnected, draining,
                 clientClosed, redisUp>>

ResetCount ==
  /\ pc["health"] = "resetCount"
  /\ errorCount' = 0
  /\ GoTo("health", "tick")
  /\ UNCHANGED <<connected, mu, writeQueue, pendingWrites, wasConnected, draining,
                 clientClosed, redisUp>>

ExitHealth ==
  /\ pc["health"] = "tick"
  /\ HealthStopped
  /\ GoTo("health", "exited")
  /\ UNCHANGED <<connected, errorCount, mu, writeQueue, pendingWrites, wasConnected,
                 draining, clientClosed, redisUp>>

-----------------------------------------------------------------------------
(***************************************************************************)
(* Close, which the Manager calls once: mark the layer disconnected, stop  *)
(* the health checker and wait for it, stop the worker and wait for it,    *)
(* close the client.                                                       *)
(***************************************************************************)
CloseStep(from, to) ==
  /\ pc["closer"] = from
  /\ GoTo("closer", to)
  /\ UNCHANGED <<errorCount, mu, writeQueue, pendingWrites, wasConnected, draining, redisUp>>

StartClose ==
  /\ CloseStep("open", "stopHealth")
  /\ connected' = FALSE
  /\ UNCHANGED clientClosed

StopHealth == CloseStep("stopHealth", "waitHealth") /\ UNCHANGED <<connected, clientClosed>>

AwaitHealth ==
  /\ pc["health"] = "exited"
  /\ CloseStep("waitHealth", "waitWorker")      \* and close(stopCh)
  /\ UNCHANGED <<connected, clientClosed>>

StopsWithoutWaiting ==
  /\ CloseStep("waitWorker", "closeClient")
  /\ UNCHANGED <<connected, clientClosed>>

AwaitWorker ==
  /\ pc["worker"] = "exited"
  /\ CloseStep("waitWorker", "closeClient")
  /\ UNCHANGED <<connected, clientClosed>>

CloseClient ==
  /\ CloseStep("closeClient", "closed")
  /\ clientClosed' = TRUE
  /\ UNCHANGED connected

(***************************************************************************)
(* The server goes down or comes back.                                     *)
(***************************************************************************)
Flip ==
  /\ redisUp' = ~redisUp
  /\ UNCHANGED <<connected, errorCount, mu, writeQueue, pendingWrites, wasConnected,
                 draining, clientClosed, pc>>

-----------------------------------------------------------------------------
(***************************************************************************)
(* NewRedisCache: connected or not, by the first ping.                     *)
(***************************************************************************)
Init ==
  /\ redisUp \in BOOLEAN
  /\ connected \in BOOLEAN /\ (connected => redisUp)
  /\ errorCount = 0 /\ mu = "free" /\ writeQueue = 0 /\ pendingWrites = 0
  /\ wasConnected = FALSE /\ draining = FALSE /\ clientClosed = FALSE
  /\ pc = [[t \in Threads |-> "idle"] EXCEPT
             !["worker"] = "select",
             !["health"] = IF HealthCheck THEN "tick" ELSE "exited",
             !["closer"] = "open"]

Serve(t) ==
  \/ CallSucceeds(t) \/ CallFails(t)
  \/ CountError(t) \/ Disconnect(t)
  \/ ClearCount(t) \/ Restore(t)

ClientStep(c) == CheckConnected(c) \/ Send(c) \/ CountPending(c) \/ Serve(c)
WorkerStep    == Take \/ SeeStop \/ ExitWorker \/ FinishWrite \/ Serve("worker")
HealthStep    == \/ Tick \/ PingSucceeds \/ PingFails
                 \/ SetError \/ Reconnected \/ ResetCount \/ ExitHealth
CloserStep    == StopHealth \/ AwaitHealth \/ AwaitWorker \/ CloseClient

Next ==
  \/ \E c \in Clients : Begin(c, "check") \/ Begin(c, "asyncCheck") \/ ClientStep(c)
  \/ WorkerStep \/ HealthStep
  \/ StartClose \/ CloserStep
  \/ Flip

Spec == Init /\ [][Next]_vars

(***************************************************************************)
(* Started goroutines are scheduled and their commands return.  The worker *)
(* and the health checker do not for ever choose the other ready case of   *)
(* their select over a closed stop channel.                                *)
(***************************************************************************)
FairSpec ==
  /\ Spec
  /\ \A c \in Clients : WF_vars(ClientStep(c))
  /\ WF_vars(WorkerStep) /\ SF_vars(SeeStop)
  /\ WF_vars(HealthStep) /\ SF_vars(ExitHealth)
  /\ WF_vars(CloserStep)

-----------------------------------------------------------------------------
TypeOK ==
  /\ connected \in BOOLEAN /\ redisUp \in BOOLEAN /\ wasConnected \in BOOLEAN
  /\ draining \in BOOLEAN /\ clientClosed \in BOOLEAN
  /\ errorCount \in 0..disconnectErrorThreshold
  /\ mu \in Clients \cup {"worker", "free"}
  /\ writeQueue \in 0..MaxPendingWrites
  /\ pendingWrites \in Int
  /\ pc \in [Threads -> ClientPlaces \cup WorkerPlaces \cup HealthPlaces \cup CloserPlaces]
  /\ \A c \in Clients : pc[c] \in ClientPlaces
  /\ pc["worker"] \in WorkerPlaces
  /\ pc["health"] \in HealthPlaces
  /\ pc["closer"] \in CloserPlaces

(***************************************************************************)
(* The count of pending writes is the writes in the channel and in the     *)
(* worker's hands, short of those accepted but not yet counted, whatever   *)
(* became of them: it neither drifts with failed writes nor across Close   *)
(* (setAsync, executeWrite).                                               *)
(***************************************************************************)
InHand == IF pc["worker"] \in {"select", "exited"} THEN 0 ELSE 1

PendingIsAccounted ==
  pendingWrites + Cardinality({c \in Clients : pc[c] = "count"}) = writeQueue + InHand

(***************************************************************************)
(* The worker never writes through a closed client, so a write that was    *)
(* accepted is not lost to the order in which Close stops things (Close,   *)
(* asyncWriteWorker).                                                      *)
(***************************************************************************)
NoWriteAfterClose == clientClosed => pc["worker"] = "exited"

(***************************************************************************)
(* Close returns (Close, asyncWriteWorker, healthCheckWorker).             *)
(***************************************************************************)
CloseReturns == pc["closer"] # "open" ~> pc["closer"] = "closed"

(***************************************************************************)
(* With the health check, a layer whose server is back and whose commands  *)
(* succeed ends up connected, and one whose server stays down ends up      *)
(* disconnected, whatever late successes and errors of earlier commands    *)
(* did in between (performHealthCheck, handleError, clearError).           *)
(***************************************************************************)
Failing == PingFails \/ \E t \in Threads : CallFails(t)

Reconnects ==
  <>[]redisUp /\ <>[][~Failing]_vars /\ [](pc["closer"] = "open") => <>[]connected

NoticesOutage ==
  <>[]~redisUp /\ [](pc["closer"] = "open") => <>[]~connected
=============================================================================
