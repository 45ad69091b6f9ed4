--------------------------- MODULE RedisCacheProofs ---------------------------
(***************************************************************************)
(* Theorems of RedisCache, for any number of clients, any length of the     *)
(* queue and any threshold, with and without the health check: the count of *)
(* pending writes is right, and no write meets a closed client.             *)
(***************************************************************************)
EXTENDS RedisCache, FiniteSetTheorems, TLAPS

\* Close reaches the client only after the worker has left.
CloseOrder ==
  /\ pc["closer"] \in {"closeClient", "closed"} => pc["worker"] = "exited"
  /\ clientClosed => pc["closer"] = "closed"

IInv == TypeOK /\ PendingIsAccounted /\ CloseOrder

\* Writes that are in the channel and not yet counted.
Counting == {c \in Clients : pc[c] = "count"}

-----------------------------------------------------------------------------

\* The threads are different.
LEMMA ThreadsDiffer ==
  /\ Clients \subseteq Threads /\ {"worker", "health", "closer"} \subseteq Threads
  /\ \A c \in Clients : c # "worker" /\ c # "health" /\ c # "closer"
BY RedisAssumption DEF Threads

LEMMA CountedErrors ==
  ASSUME NEW n \in 0..disconnectErrorThreshold
  PROVE  Min({n + 1, disconnectErrorThreshold}) \in 0..disconnectErrorThreshold
<1> DEFINE S == {n + 1, disconnectErrorThreshold}
<1>1. \E x \in S : \A y \in S : x =< y
  BY RedisAssumption
<1>2. Min(S) \in S
  BY <1>1 DEF Min
<1>3. \A y \in S : Min(S) =< y
  BY <1>1 DEF Min
<1> QED
  BY <1>2, <1>3, RedisAssumption

(***************************************************************************)
(* The types.                                                              *)
(***************************************************************************)
LEMMA TypeInit == Init => TypeOK
<1> SUFFICES ASSUME Init PROVE TypeOK
  OBVIOUS
<1>1. pc \in [Threads -> ClientPlaces \cup WorkerPlaces \cup HealthPlaces \cup CloserPlaces]
  BY ThreadsDiffer DEF Init, ClientPlaces, WorkerPlaces, HealthPlaces, CloserPlaces
<1>2. /\ \A c \in Clients : pc[c] = "idle"
      /\ pc["worker"] = "select" /\ pc["closer"] = "open"
      /\ pc["health"] \in {"tick", "exited"}
  BY ThreadsDiffer DEF Init
<1>3. /\ connected \in BOOLEAN /\ redisUp \in BOOLEAN /\ wasConnected \in BOOLEAN
      /\ draining \in BOOLEAN /\ clientClosed \in BOOLEAN
  BY Zenon DEF Init
<1>4. /\ errorCount \in 0..disconnectErrorThreshold /\ mu = "free"
      /\ writeQueue \in 0..MaxPendingWrites /\ pendingWrites \in Int
  BY RedisAssumption DEF Init
<1>5. /\ \A c \in Clients : pc[c] \in ClientPlaces
      /\ pc["worker"] \in WorkerPlaces /\ pc["health"] \in HealthPlaces
      /\ pc["closer"] \in CloserPlaces
  BY <1>2 DEF ClientPlaces, WorkerPlaces, HealthPlaces, CloserPlaces
<1> QED
  BY <1>1, <1>3, <1>4, <1>5, Zenon DEF TypeOK

LEMMA TypeServe ==
  ASSUME TypeOK, NEW t \in Clients \cup {"worker"}, Serve(t)
  PROVE  TypeOK'
<1> USE RedisAssumption, ThreadsDiffer, CountedErrors
    DEF TypeOK, GoTo, After, ClientPlaces, WorkerPlaces, HealthPlaces, CloserPlaces
<1>1. CASE CallSucceeds(t)
  BY <1>1 DEF CallSucceeds
<1>2. CASE CallFails(t)
  BY <1>2 DEF CallFails
<1>3. CASE CountError(t)
  BY <1>3 DEF CountError
<1>4. CASE Disconnect(t)
  BY <1>4 DEF Disconnect
<1>5. CASE ClearCount(t)
  BY <1>5 DEF ClearCount
<1>6. CASE Restore(t)
  BY <1>6 DEF Restore
<1> QED
  BY <1>1, <1>2, <1>3, <1>4, <1>5, <1>6 DEF Serve

LEMMA TypeNext == TypeOK /\ [Next]_vars => TypeOK'
<1> SUFFICES ASSUME TypeOK, [Next]_vars PROVE TypeOK'
  OBVIOUS
<1> USE RedisAssumption, ThreadsDiffer
    DEF TypeOK, GoTo, ClientPlaces, WorkerPlaces, HealthPlaces, CloserPlaces
<1>1. ASSUME NEW c \in Clients, Begin(c, "check") \/ Begin(c, "asyncCheck")
      PROVE  TypeOK'
  BY <1>1 DEF Begin
<1>2. ASSUME NEW c \in Clients, ClientStep(c)
      PROVE  TypeOK'
  <2>1. CASE CheckConnected(c)
    BY <1>2, <2>1 DEF CheckConnected
  <2>2. CASE Send(c)
    BY <1>2, <2>2 DEF Send
  <2>3. CASE CountPending(c)
    BY <1>2, <2>3 DEF CountPending
  <2>4. CASE Serve(c)
    BY <2>4, TypeServe
  <2> QED
    BY <1>2, <2>1, <2>2, <2>3, <2>4 DEF ClientStep
<1>3. CASE WorkerStep
  <2>1. CASE Serve("worker")
    BY <2>1, TypeServe
  <2>2. CASE Take
    BY <2>2 DEF Take
  <2>3. CASE SeeStop
    BY <2>3 DEF SeeStop
  <2>4. CASE ExitWorker
    BY <2>4 DEF ExitWorker
  <2>5. CASE FinishWrite
    BY <2>5 DEF FinishWrite
  <2> QED
    BY <1>3, <2>1, <2>2, <2>3, <2>4, <2>5 DEF WorkerStep
<1>4. CASE HealthStep
  <2>1. CASE Tick
    BY <2>1 DEF Tick
  <2>2. CASE PingSucceeds
    BY <2>2 DEF PingSucceeds
  <2>3. CASE PingFails
    BY <2>3 DEF PingFails
  <2>4. CASE SetError
    BY <2>4 DEF SetError
  <2>5. CASE Reconnected
    BY <2>5 DEF Reconnected
  <2>6. CASE ResetCount
    BY <2>6 DEF ResetCount
  <2>7. CASE ExitHealth
    BY <2>7 DEF ExitHealth
  <2> QED
    BY <1>4, <2>1, <2>2, <2>3, <2>4, <2>5, <2>6, <2>7 DEF HealthStep
<1>5. CASE StartClose \/ CloserStep
  <2>1. CASE StartClose
    BY <2>1 DEF StartClose, CloseStep
  <2>2. CASE StopHealth
    BY <2>2 DEF StopHealth, CloseStep
  <2>3. CASE AwaitHealth
    BY <2>3 DEF AwaitHealth, CloseStep
  <2>4. CASE AwaitWorker
    BY <2>4 DEF AwaitWorker, CloseStep
  <2>5. CASE CloseClient
    BY <2>5 DEF CloseClient, CloseStep
  <2> QED
    BY <1>5, <2>1, <2>2, <2>3, <2>4, <2>5 DEF CloserStep
<1>6. CASE Flip
  BY <1>6 DEF Flip
<1>7. CASE UNCHANGED vars
  BY <1>7 DEF vars
<1> QED
  BY <1>1, <1>2, <1>3, <1>4, <1>5, <1>6, <1>7 DEF Next

-----------------------------------------------------------------------------
(***************************************************************************)
(* How the writes not yet counted change when one thread moves.            *)
(***************************************************************************)
LEMMA CountingFinite ==
  /\ IsFiniteSet(Counting) /\ Cardinality(Counting) \in Nat
<1>1. Counting \in SUBSET Clients
  BY DEF Counting
<1>2. IsFiniteSet(Counting)
  BY <1>1, FS_Subset, RedisAssumption
<1> QED
  BY <1>2, FS_CardinalityType

LEMMA Move ==
  ASSUME TypeOK, NEW t \in Threads, NEW place, GoTo(t, place)
  PROVE  /\ t \notin Clients => Counting' = Counting
         /\ pc[t] # "count" /\ place # "count" => Counting' = Counting
         /\ t \in Clients /\ pc[t] # "count" /\ place = "count" =>
              Cardinality(Counting') = Cardinality(Counting) + 1
         /\ t \in Clients /\ pc[t] = "count" /\ place # "count" =>
              Cardinality(Counting') = Cardinality(Counting) - 1
<1>1. /\ pc'[t] = place
      /\ \A u \in Threads : u # t => pc'[u] = pc[u]
      /\ Clients \subseteq Threads
  BY ThreadsDiffer DEF TypeOK, GoTo
<1>2. /\ \A c \in Clients : c \in Counting <=> pc[c] = "count"
      /\ \A c \in Clients : c \in Counting' <=> pc'[c] = "count"
      /\ Counting \subseteq Clients /\ Counting' \subseteq Clients
  BY DEF Counting
<1>3. ASSUME t \notin Clients \/ (pc[t] # "count" /\ place # "count")
      PROVE  Counting' = Counting
  BY <1>1, <1>2, <1>3
<1>4. ASSUME t \in Clients, pc[t] # "count", place = "count"
      PROVE  Cardinality(Counting') = Cardinality(Counting) + 1
  <2>1. Counting' = Counting \cup {t} /\ t \notin Counting
    BY <1>1, <1>2, <1>4
  <2> QED
    BY <2>1, CountingFinite, FS_AddElement
<1>5. ASSUME t \in Clients, pc[t] = "count", place # "count"
      PROVE  Cardinality(Counting') = Cardinality(Counting) - 1
  <2>1. Counting' = Counting \ {t} /\ t \in Counting
    BY <1>1, <1>2, <1>5
  <2> QED
    BY <2>1, CountingFinite, FS_RemoveElement
<1> QED
  BY <1>3, <1>4, <1>5

\* A step that neither queues nor counts a write, and after which the worker
\* has one in its hands if and only if it had one before.
LEMMA Quiet ==
  ASSUME TypeOK, PendingIsAccounted, Counting' = Counting,
         UNCHANGED <<writeQueue, pendingWrites>>,
         pc'["worker"] \in {"select", "exited"} <=> pc["worker"] \in {"select", "exited"}
  PROVE  PendingIsAccounted'
<1>1. InHand' = InHand
  BY DEF InHand
<1> QED
  BY <1>1 DEF PendingIsAccounted, Counting

LEMMA PendingServe ==
  ASSUME TypeOK, PendingIsAccounted, NEW t \in Clients \cup {"worker"}, Serve(t)
  PROVE  PendingIsAccounted'
<1> USE ThreadsDiffer DEF TypeOK
<1>1. PICK place : /\ GoTo(t, place)
                   /\ pc[t] # "count" /\ place # "count"
                   /\ t = "worker" => /\ place \notin {"select", "exited"}
                                      /\ pc[t] \notin {"select", "exited"}
                   /\ UNCHANGED <<writeQueue, pendingWrites>>
  BY DEF Serve, CallSucceeds, CallFails, CountError, Disconnect, ClearCount, Restore, After
<1>2. Counting' = Counting
  BY <1>1, Move
<1>3. pc'["worker"] = IF t = "worker" THEN place ELSE pc["worker"]
  BY <1>1 DEF GoTo
<1> QED
  BY <1>1, <1>2, <1>3, Quiet

LEMMA PendingNext == TypeOK /\ PendingIsAccounted /\ [Next]_vars => PendingIsAccounted'
<1> SUFFICES ASSUME TypeOK, PendingIsAccounted, [Next]_vars PROVE PendingIsAccounted'
  OBVIOUS
<1> USE ThreadsDiffer
<1>0. /\ writeQueue \in Nat /\ pendingWrites \in Int /\ InHand \in {0, 1}
      /\ Cardinality(Counting) \in Nat
      /\ pendingWrites + Cardinality(Counting) = writeQueue + InHand
  BY CountingFinite, RedisAssumption DEF TypeOK, PendingIsAccounted, Counting, InHand
<1>1. SUFFICES \/ /\ Counting' = Counting
                  /\ UNCHANGED <<writeQueue, pendingWrites>>
                  /\ pc'["worker"] \in {"select", "exited"}
                       <=> pc["worker"] \in {"select", "exited"}
               \/ pendingWrites' + Cardinality(Counting') = writeQueue' + InHand'
               \/ PendingIsAccounted'
  BY <1>1, Quiet DEF PendingIsAccounted, Counting
<1>2. ASSUME NEW c \in Clients, NEW place, GoTo(c, place),
             pc[c] # "count", place # "count", UNCHANGED <<writeQueue, pendingWrites>>
      PROVE  PendingIsAccounted'
  <2>1. Counting' = Counting
    BY <1>2, Move
  <2>2. pc'["worker"] = pc["worker"]
    BY <1>2 DEF GoTo, TypeOK
  <2> QED
    BY <1>2, <2>1, <2>2, Quiet
<1>3. ASSUME NEW c \in Clients, Begin(c, "check") \/ Begin(c, "asyncCheck")
      PROVE  PendingIsAccounted'
  BY <1>2, <1>3 DEF Begin
<1>4. ASSUME NEW c \in Clients, ClientStep(c)
      PROVE  PendingIsAccounted'
  <2>1. CASE CheckConnected(c)
    BY <1>2, <2>1 DEF CheckConnected
  <2>2. CASE Send(c)
    <3>1. CASE writeQueue < MaxPendingWrites
      <4>1. GoTo(c, "count") /\ pc[c] = "send"
            /\ writeQueue' = writeQueue + 1 /\ pendingWrites' = pendingWrites
        BY <2>2, <3>1 DEF Send
      <4>2. Cardinality(Counting') = Cardinality(Counting) + 1
        BY <4>1, Move
      <4>3. InHand' = InHand
        BY <4>1 DEF GoTo, TypeOK, InHand
      <4> QED
        BY <1>0, <4>1, <4>2, <4>3 DEF PendingIsAccounted, Counting
    <3>2. CASE ~(writeQueue < MaxPendingWrites)
      BY <1>2, <2>2, <3>2 DEF Send
    <3> QED
      BY <3>1, <3>2
  <2>3. CASE CountPending(c)
    <3>1. GoTo(c, "idle") /\ pc[c] = "count"
          /\ writeQueue' = writeQueue /\ pendingWrites' = pendingWrites + 1
      BY <2>3 DEF CountPending
    <3>2. Cardinality(Counting') = Cardinality(Counting) - 1
      BY <3>1, Move
    <3>3. InHand' = InHand
      BY <3>1 DEF GoTo, TypeOK, InHand
    <3> QED
      BY <1>0, <3>1, <3>2, <3>3 DEF PendingIsAccounted, Counting
  <2>4. CASE Serve(c)
    BY <2>4, PendingServe
  <2> QED
    BY <1>4, <2>1, <2>2, <2>3, <2>4 DEF ClientStep
<1>5. CASE WorkerStep
  <2>1. CASE Serve("worker")
    BY <2>1, PendingServe
  <2>2. CASE Take
    <3>1. GoTo("worker", "write") /\ pc["worker"] = "select"
          /\ writeQueue' = writeQueue - 1 /\ pendingWrites' = pendingWrites
      BY <2>2 DEF Take
    <3>2. Counting' = Counting
      BY <3>1, Move
    <3>3. InHand = 0 /\ InHand' = 1
      BY <3>1 DEF GoTo, TypeOK, InHand
    <3> QED
      BY <1>0, <3>1, <3>2, <3>3
  <2>3. CASE SeeStop
    BY <2>3, Quiet DEF SeeStop, Counting
  <2>4. CASE ExitWorker
    <3>1. GoTo("worker", "exited") /\ pc["worker"] = "select"
          /\ UNCHANGED <<writeQueue, pendingWrites>>
      BY <2>4 DEF ExitWorker
    <3>2. Counting' = Counting
      BY <3>1, Move
    <3>3. pc'["worker"] = "exited"
      BY <3>1 DEF GoTo, TypeOK
    <3> QED
      BY <3>1, <3>2, <3>3, Quiet
  <2>5. CASE FinishWrite
    <3>1. GoTo("worker", "select") /\ pc["worker"] = "written"
          /\ writeQueue' = writeQueue /\ pendingWrites' = pendingWrites - 1
      BY <2>5 DEF FinishWrite
    <3>2. Counting' = Counting
      BY <3>1, Move
    <3>3. InHand = 1 /\ InHand' = 0
      BY <3>1 DEF GoTo, TypeOK, InHand
    <3> QED
      BY <1>0, <3>1, <3>2, <3>3 DEF PendingIsAccounted, Counting
  <2> QED
    BY <1>5, <2>1, <2>2, <2>3, <2>4, <2>5 DEF WorkerStep
<1>6. ASSUME HealthStep \/ StartClose \/ CloserStep
      PROVE  PendingIsAccounted'
  <2>1. PICK t, place :
               /\ t \in {"health", "closer"} /\ GoTo(t, place)
               /\ UNCHANGED <<writeQueue, pendingWrites>>
    BY <1>6 DEF HealthStep, Tick, PingSucceeds, PingFails, SetError, Reconnected,
                ResetCount, ExitHealth, CloserStep, StartClose, StopHealth, AwaitHealth,
                AwaitWorker, CloseClient, CloseStep
  <2>2. Counting' = Counting
    BY <2>1, Move
  <2>3. pc'["worker"] = pc["worker"]
    BY <2>1 DEF GoTo, TypeOK
  <2> QED
    BY <2>1, <2>2, <2>3, Quiet
<1>7. CASE Flip \/ UNCHANGED vars
  BY <1>7, Quiet DEF Flip, vars, Counting
<1> QED
  BY <1>3, <1>4, <1>5, <1>6, <1>7 DEF Next

-----------------------------------------------------------------------------
(***************************************************************************)
(* Only the closer moves itself, only the worker itself, and the worker     *)
(* does not come back.                                                     *)
(***************************************************************************)
LEMMA OrderNext == TypeOK /\ CloseOrder /\ [Next]_vars => CloseOrder'
<1> SUFFICES ASSUME TypeOK, CloseOrder, [Next]_vars PROVE CloseOrder'
  OBVIOUS
<1> USE ThreadsDiffer DEF TypeOK, CloseOrder, GoTo
<1>1. ASSUME NEW c \in Clients, Begin(c, "check") \/ Begin(c, "asyncCheck") \/ ClientStep(c)
      PROVE  CloseOrder'
  <2>1. /\ pc'["closer"] = pc["closer"] /\ pc'["worker"] = pc["worker"]
        /\ clientClosed' = clientClosed
    BY <1>1 DEF Begin, ClientStep, CheckConnected, Send, CountPending, Serve, CallSucceeds,
                CallFails, CountError, Disconnect, ClearCount, Restore
  <2> QED
    BY <2>1
<1>2. CASE WorkerStep
  <2>1. /\ pc["worker"] # "exited"
        /\ pc'["closer"] = pc["closer"] /\ clientClosed' = clientClosed
    BY <1>2 DEF WorkerStep, Take, SeeStop, ExitWorker, FinishWrite, Serve, CallSucceeds,
                CallFails, CountError, Disconnect, ClearCount, Restore
  <2> QED
    BY <2>1
<1>3. CASE HealthStep
  <2>1. /\ pc'["closer"] = pc["closer"] /\ pc'["worker"] = pc["worker"]
        /\ clientClosed' = clientClosed
    BY <1>3 DEF HealthStep, Tick, PingSucceeds, PingFails, SetError, Reconnected,
                ResetCount, ExitHealth
  <2> QED
    BY <2>1
<1>4. CASE StartClose \/ CloserStep
  BY <1>4 DEF CloserStep, StartClose, StopHealth, AwaitHealth, AwaitWorker,
              CloseClient, CloseStep
<1>5. CASE Flip \/ UNCHANGED vars
  BY <1>5 DEF Flip, vars
<1> QED
  BY <1>1, <1>2, <1>3, <1>4, <1>5 DEF Next

LEMMA InitInv == Init => IInv
<1> SUFFICES ASSUME Init PROVE IInv
  OBVIOUS
<1>1. pc["closer"] = "open" /\ pc["worker"] = "select" /\ \A c \in Clients : pc[c] = "idle"
  BY ThreadsDiffer DEF Init, Threads
<1>2. {c \in Clients : pc[c] = "count"} = {}
  BY <1>1
<1>3. PendingIsAccounted
  BY <1>1, <1>2, FS_EmptySet DEF Init, PendingIsAccounted, InHand
<1>4. CloseOrder
  BY <1>1 DEF Init, CloseOrder
<1> QED
  BY <1>3, <1>4, TypeInit DEF IInv

LEMMA Invariance == Spec => []IInv
<1>1. IInv /\ [Next]_vars => IInv'
  BY TypeNext, PendingNext, OrderNext DEF IInv
<1> QED
  BY <1>1, InitInv, PTL DEF Spec

-----------------------------------------------------------------------------
(***************************************************************************)
(* For any queue and any number of clients, pendingWrites is off by no more *)
(* than the writes being accepted at that moment, and never drifts          *)
(* (setAsync, executeWrite).                                               *)
(***************************************************************************)
THEOREM PendingAccounted == Spec => []PendingIsAccounted
BY Invariance, PTL DEF IInv

(***************************************************************************)
(* The client is closed only after the worker has left, with or without the *)
(* health check (Close, asyncWriteWorker).                                 *)
(***************************************************************************)
THEOREM WritesPrecedeClose == Spec => []NoWriteAfterClose
<1>1. IInv => NoWriteAfterClose
  BY DEF IInv, CloseOrder, NoWriteAfterClose
<1> QED
  BY <1>1, Invariance, PTL
=============================================================================
