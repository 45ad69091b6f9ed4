------------------------------ MODULE Manager ------------------------------
(***************************************************************************)
(* The data path of internal/cache/manager.go: what Get, Set, GetOrCreate, *)
(* Delete, GetMany and SetMany do to one key in the memory layer and in    *)
(* Redis, with the background writes that copy a value from Redis to       *)
(* memory, the queue of FireAndForget writes, and the singleflight group.  *)
(*                                                                         *)
(* A value is the number of the Set or factory that made it.  Each call of *)
(* a layer is a step, from the check of the connection to the recording of *)
(* the outcome: only its effect on the key is visible to other goroutines. *)
(* Clear and ClearByPattern are Deletes of the one key.                    *)
(***************************************************************************)
EXTENDS Integers, Sequences, FiniteSets

CONSTANTS
  Clients,
  Ops,           \* which operations they call
  Levels,        \* at which cache levels: "memory", "redis", "both"
  Async,         \* the values FireAndForget takes
  RedisEnabled,
  Faults,        \* what goes wrong: "evict", "expire", "memory", "redis", "factory"
  MaxValue,      \* bounds the model: values made
  MaxBackfills,  \* bounds the model: background writes at a time
  MaxPendingWrites

ASSUME ManagerAssumption ==
  /\ IsFiniteSet(Clients) /\ "none" \notin Clients
  /\ Ops \subseteq {"get", "getMany", "set", "setMany", "delete", "getOrCreate"}
  /\ Levels \subseteq {"memory", "redis", "both"}
  /\ Async \subseteq BOOLEAN /\ RedisEnabled \in BOOLEAN
  /\ Faults \subseteq {"evict", "expire", "memory", "redis", "factory"}
  /\ MaxValue \in Nat /\ MaxBackfills \in Nat /\ MaxPendingWrites \in Nat

Missing == 0
Values  == 1..MaxValue

VARIABLES
  memory, redis,  \* the key in the two layers
  connected,      \* redis.IsAvailable()
  writeQueue,     \* FireAndForget writes the worker has not done
  backfills,      \* [Values -> how many background writes carry the value]
  made,           \* values made so far, and how many of them by a factory
  created,
  flight,         \* who runs the function of sfGroup.Do, if anyone
  pc,
  call,           \* the operation a client is in
  result          \* what its last operation returned

vars == <<memory, redis, connected, writeQueue, backfills, made, created, flight,
          pc, call, result>>

IncludesMemory(level) == level \in {"memory", "both"}
IncludesRedis(level)  == level \in {"redis", "both"}

(***************************************************************************)
(* op is the operation; GetOrCreate is "lookup", its first Get, then, in   *)
(* the flight, "check", its second Get, and "fill", its Set.               *)
(***************************************************************************)
Readers == {"get", "getMany", "lookup", "check"}
Writers == {"set", "setMany", "fill"}

Idle(c) == pc[c] = "idle"
Step(c, from, to) == pc[c] = from /\ pc' = [pc EXCEPT ![c] = to]

Starts(op, level) ==
  IF op \in Readers THEN IF IncludesMemory(level) THEN "memGet" ELSE "redisGet"
  ELSE IF op = "delete" THEN IF IncludesMemory(level) THEN "memDel" ELSE "redisDel"
  ELSE IF IncludesMemory(level) THEN "memSet" ELSE "redisSet"

(***************************************************************************)
(* An operation ends.  In a flight, the Set's outcome is ignored, and      *)
(* whoever waits for the flight returns what its leader returns.           *)
(***************************************************************************)
Waiting == {c \in Clients : pc[c] = "waiting"}

NoCall == [op |-> "none", level |-> "both", async |-> FALSE, value |-> 0, memErr |-> FALSE]

LandsAlone(c, r) ==
  /\ flight' = "none"
  /\ call' = [call EXCEPT ![c] = NoCall]
  /\ pc' = [pc EXCEPT ![c] = "idle"]
  /\ result' = [result EXCEPT ![c] = r]

Land(c, r) ==
  /\ flight' = "none"
  /\ call' = [d \in Clients |-> IF d = c \/ d \in Waiting THEN NoCall ELSE call[d]]
  /\ pc' = [d \in Clients |-> IF d = c \/ d \in Waiting THEN "idle" ELSE pc[d]]
  /\ result' = [d \in Clients |-> IF d = c \/ d \in Waiting THEN r ELSE result[d]]

Return(c, r) ==
  /\ pc' = [pc EXCEPT ![c] = "idle"]
  /\ call' = [call EXCEPT ![c] = NoCall]
  /\ result' = [result EXCEPT ![c] = r]
  /\ UNCHANGED flight

Continue(c, place) ==
  /\ pc' = [pc EXCEPT ![c] = place]
  /\ UNCHANGED <<flight, call, result>>

(***************************************************************************)
(* A Get ends with "hit", "miss", "unavailable" or "failed".  GetMany      *)
(* swallows what Redis returned; GetOrCreate goes on only after a miss;    *)
(* in the flight every outcome but a hit leads to the factory.             *)
(***************************************************************************)
EndGet(c, r) ==
  \/ call[c].op = "get"     /\ Return(c, r)
  \/ call[c].op = "getMany" /\ Return(c, IF r = "hit" THEN "hit" ELSE "miss")
  \/ call[c].op = "lookup"  /\ IF r = "miss" THEN Continue(c, "join") ELSE Return(c, r)
  \/ call[c].op = "check"   /\ IF r = "hit" THEN Land(c, r) ELSE Continue(c, "factory")

EndWrite(c, r) ==
  IF call[c].op = "fill" THEN Land(c, "hit") ELSE Return(c, r)

-----------------------------------------------------------------------------
(***************************************************************************)
(* A client calls an operation.  One that writes, or may have a factory    *)
(* write, takes the next value.  FireAndForget means nothing to the others *)
(* and to SetMany.                                                         *)
(***************************************************************************)
Begin(c, op, level, async) ==
  LET first == IF op = "getOrCreate" THEN "lookup" ELSE op
      makes == first \in Writers \cup {"lookup"}
  IN
  /\ Step(c, "idle", Starts(first, level))
  /\ makes => made < MaxValue
  /\ async => makes /\ op # "setMany"
  /\ made' = IF makes THEN made + 1 ELSE made
  /\ call' = [call EXCEPT ![c] = [op |-> first, level |-> level, async |-> async,
                                  value |-> IF makes THEN made' ELSE 0, memErr |-> FALSE]]
  /\ result' = [result EXCEPT ![c] = "none"]
  /\ UNCHANGED <<memory, redis, connected, writeQueue, backfills, created, flight>>

(***************************************************************************)
(* memory.Get.                                                             *)
(***************************************************************************)
GetMemory(c) ==
  /\ pc[c] = "memGet"
  /\ IF memory # Missing THEN EndGet(c, "hit")
     ELSE IF call[c].level = "both" THEN Continue(c, "redisGet")
     ELSE EndGet(c, "miss")
  /\ UNCHANGED <<memory, redis, connected, writeQueue, backfills, made, created>>

(***************************************************************************)
(* getFromRedis and redis.GetMany.  A value found below an empty memory    *)
(* layer is copied there in the background; GetMany copies it there at     *)
(* every level.                                                            *)
(***************************************************************************)
BackfillAll(c) ==
  /\ redis # Missing
  /\ backfills[redis] < MaxBackfills
  /\ backfills' = [backfills EXCEPT ![redis] = @ + 1]

Backfilled(c) ==
  IF call[c].level = "both" \/ call[c].op = "getMany"
    THEN BackfillAll(c)
    ELSE redis # Missing /\ UNCHANGED backfills

GetRedis(c) ==
  /\ pc[c] = "redisGet"
  /\ \/ connected /\ Backfilled(c) /\ EndGet(c, "hit")
     \/ connected /\ redis = Missing /\ EndGet(c, "miss") /\ UNCHANGED backfills
     \/ ~connected /\ EndGet(c, "unavailable") /\ UNCHANGED backfills
     \/ "redis" \in Faults /\ connected /\ EndGet(c, "failed") /\ UNCHANGED backfills
  /\ UNCHANGED <<memory, redis, connected, writeQueue, made, created>>

(***************************************************************************)
(* memory.Set, whose failure does not keep the value from Redis.           *)
(***************************************************************************)
AfterMemory(c) ==
  IF call[c].level = "both" THEN Continue(c, "redisSet") ELSE EndWrite(c, "ok")

RefusedByMemory(c) ==
  IF call[c].level = "both"
    THEN /\ Step(c, "memSet", "redisSet")
         /\ call' = [call EXCEPT ![c].memErr = TRUE]
         /\ UNCHANGED <<flight, result>>
    ELSE EndWrite(c, "failed")

SkipsMemoryIfAsync(c) ==
  /\ pc[c] = "memSet"
  /\ memory' = IF call[c].async THEN memory ELSE call[c].value
  /\ AfterMemory(c)
  /\ UNCHANGED <<redis, connected, writeQueue, backfills, made, created>>

SetMemory(c) ==
  /\ pc[c] = "memSet"
  /\ \/ memory' = call[c].value /\ AfterMemory(c)
     \/ "memory" \in Faults /\ RefusedByMemory(c) /\ UNCHANGED memory
  /\ UNCHANGED <<redis, connected, writeQueue, backfills, made, created>>

(***************************************************************************)
(* setToRedis and redis.SetMany.  At a level with memory, Redis's error is *)
(* only logged.  A failed attempt may have reached the server, and is      *)
(* retried or not.                                                         *)
(***************************************************************************)
Outcome(c, r) ==
  IF call[c].memErr THEN "failed"
  ELSE IF IncludesMemory(call[c].level) \/ call[c].op = "setMany" THEN "ok" ELSE r

IsAsync(c) == call[c].async

SetRedis(c) ==
  /\ pc[c] = "redisSet"
  /\ ~IsAsync(c)
  /\ \/ connected /\ redis' = call[c].value /\ EndWrite(c, Outcome(c, "ok"))
     \/ ~connected /\ UNCHANGED redis /\ EndWrite(c, Outcome(c, "unavailable"))
     \/ /\ "redis" \in Faults /\ connected
        /\ redis' \in {redis, call[c].value}
        /\ EndWrite(c, Outcome(c, "failed")) \/ Continue(c, "redisSet")
  /\ UNCHANGED <<memory, connected, writeQueue, backfills, made, created>>

SetRedisAsync(c) ==
  /\ pc[c] = "redisSet"
  /\ IsAsync(c)
  /\ \/ /\ connected /\ Len(writeQueue) < MaxPendingWrites
        /\ writeQueue' = Append(writeQueue, call[c].value)
        /\ EndWrite(c, Outcome(c, "ok"))
     \/ /\ connected /\ Len(writeQueue) = MaxPendingWrites
        /\ EndWrite(c, Outcome(c, "failed")) /\ UNCHANGED writeQueue
     \/ /\ ~connected
        /\ EndWrite(c, Outcome(c, IF RedisEnabled THEN "unavailable" ELSE "ok"))
        /\ UNCHANGED writeQueue
  /\ UNCHANGED <<memory, redis, connected, backfills, made, created>>

(***************************************************************************)
(* memory.Delete and redis.Delete, in that order and whatever the first    *)
(* returned.  The disabled Redis layer deletes nothing without an error.   *)
(***************************************************************************)
DeleteMemory(c) ==
  /\ pc[c] = "memDel"
  /\ memory' = Missing
  /\ IF call[c].level = "both" THEN Continue(c, "redisDel") ELSE Return(c, "ok")
  /\ UNCHANGED <<redis, connected, writeQueue, backfills, made, created>>

Deleted(c) == IF call[c].level = "both" THEN "deleted" ELSE "ok"

DeleteRedis(c) ==
  /\ pc[c] = "redisDel"
  /\ \/ connected /\ redis' = Missing /\ Return(c, Deleted(c))
     \/ ~connected /\ UNCHANGED redis
        /\ Return(c, IF RedisEnabled THEN "unavailable" ELSE Deleted(c))
     \/ "redis" \in Faults /\ connected /\ redis' \in {redis, Missing} /\ Return(c, "failed")
  /\ UNCHANGED <<memory, connected, writeQueue, backfills, made, created>>

-----------------------------------------------------------------------------
(***************************************************************************)
(* sfGroup.Do: lead a flight, which begins with a second Get, or wait for  *)
(* the one in progress.                                                    *)
(***************************************************************************)
Join(c) ==
  /\ pc[c] = "join" /\ flight # "none"
  /\ Continue(c, "waiting")
  /\ UNCHANGED <<memory, redis, connected, writeQueue, backfills, made, created>>

LeadsUnchecked(c) ==
  /\ Step(c, "join", "factory") /\ flight = "none"
  /\ flight' = c
  /\ call' = [call EXCEPT ![c].op = "check"]
  /\ UNCHANGED <<memory, redis, connected, writeQueue, backfills, made, created, result>>

Lead(c) ==
  /\ Step(c, "join", Starts("check", call[c].level)) /\ flight = "none"
  /\ flight' = c
  /\ call' = [call EXCEPT ![c].op = "check"]
  /\ UNCHANGED <<memory, redis, connected, writeQueue, backfills, made, created, result>>

(***************************************************************************)
(* The factory: its value is Set, or its error is everyone's result.       *)
(***************************************************************************)
Create(c) ==
  /\ Step(c, "factory", Starts("fill", call[c].level))
  /\ created' = created + 1
  /\ call' = [call EXCEPT ![c].op = "fill"]
  /\ UNCHANGED <<memory, redis, connected, writeQueue, backfills, made, flight, result>>

ForgetsTheFlight(c) ==
  /\ pc[c] = "factory"
  /\ "factory" \in Faults
  /\ Return(c, "failed")
  /\ UNCHANGED <<memory, redis, connected, writeQueue, backfills, made, created>>

CreateFails(c) ==
  /\ pc[c] = "factory"
  /\ "factory" \in Faults
  /\ Land(c, "failed")
  /\ UNCHANGED <<memory, redis, connected, writeQueue, backfills, made, created>>

-----------------------------------------------------------------------------
(***************************************************************************)
(* A background write runs, or fails: its context ended.                   *)
(***************************************************************************)
Backfill(v) ==
  /\ backfills[v] > 0
  /\ backfills' = [backfills EXCEPT ![v] = @ - 1]
  /\ memory' = v \/ ("memory" \in Faults /\ UNCHANGED memory)
  /\ UNCHANGED <<redis, connected, writeQueue, made, created, flight, pc, call, result>>

(***************************************************************************)
(* The worker of the Redis layer takes a write, whose error is only logged.*)
(***************************************************************************)
WriteAsync ==
  /\ writeQueue # <<>>
  /\ writeQueue' = Tail(writeQueue)
  /\ redis' = Head(writeQueue) \/ ("redis" \in Faults /\ UNCHANGED redis)
  /\ UNCHANGED <<memory, connected, backfills, made, created, flight, pc, call, result>>

(***************************************************************************)
(* The memory layer evicts the entry, or its LifeWindow is over; the TTL   *)
(* the entry was given in Redis is over, which the memory layer knows      *)
(* nothing of; the connection to Redis goes and comes.                     *)
(***************************************************************************)
Evict ==
  /\ "evict" \in Faults
  /\ memory # Missing
  /\ memory' = Missing
  /\ UNCHANGED <<redis, connected, writeQueue, backfills, made, created, flight, pc, call, result>>

Expire ==
  /\ "expire" \in Faults
  /\ redis # Missing
  /\ redis' = Missing
  /\ UNCHANGED <<memory, connected, writeQueue, backfills, made, created, flight, pc, call, result>>

Reconnect ==
  /\ "redis" \in Faults /\ RedisEnabled
  /\ connected' = ~connected
  /\ UNCHANGED <<memory, redis, writeQueue, backfills, made, created, flight, pc, call, result>>

-----------------------------------------------------------------------------
Init ==
  /\ memory = Missing /\ redis = Missing
  /\ connected = RedisEnabled
  /\ writeQueue = <<>> /\ backfills = [v \in Values |-> 0]
  /\ made = 0 /\ created = 0 /\ flight = "none"
  /\ pc = [c \in Clients |-> "idle"]
  /\ call = [c \in Clients |-> NoCall]
  /\ result = [c \in Clients |-> "none"]

Proceed(c) ==
  \/ GetMemory(c) \/ GetRedis(c)
  \/ SetMemory(c) \/ SetRedis(c) \/ SetRedisAsync(c)
  \/ DeleteMemory(c) \/ DeleteRedis(c)
  \/ Join(c) \/ Lead(c) \/ Create(c) \/ CreateFails(c)

Next ==
  \/ \E c \in Clients :
       \/ \E op \in Ops, level \in Levels, async \in Async : Begin(c, op, level, async)
       \/ Proceed(c)
  \/ \E v \in Values : Backfill(v)
  \/ WriteAsync \/ Evict \/ Expire \/ Reconnect

Spec == Init /\ [][Next]_vars

(***************************************************************************)
(* Goroutines in a call are scheduled, background writes run, and a write  *)
(* is not retried for ever.                                                *)
(***************************************************************************)
Attempted(c) == SetRedis(c) /\ pc'[c] # "redisSet"

FairSpec ==
  /\ Spec
  /\ \A c \in Clients : WF_vars(Proceed(c)) /\ SF_vars(Attempted(c))
  /\ \A v \in Values : WF_vars(Backfill(v))

-----------------------------------------------------------------------------
TypeOK ==
  /\ memory \in Values \cup {Missing} /\ redis \in Values \cup {Missing}
  /\ connected \in BOOLEAN
  /\ writeQueue \in Seq(Values) /\ Len(writeQueue) <= MaxPendingWrites
  /\ backfills \in [Values -> 0..MaxBackfills]
  /\ made \in 0..MaxValue /\ created \in 0..MaxValue
  /\ flight \in Clients \cup {"none"}
  /\ \A c \in Clients :
       /\ pc[c] \in {"idle", "memGet", "redisGet", "memSet", "redisSet", "memDel",
                     "redisDel", "join", "waiting", "factory"}
       /\ call[c].op \in Readers \cup Writers \cup {"delete", "none"}
       /\ result[c] \in {"none", "hit", "miss", "unavailable", "failed", "ok", "deleted"}

(***************************************************************************)
(* A flight has one leader, who is in it, and waiters only wait for a      *)
(* flight: none is left behind by one that landed (sfGroup.Do).            *)
(***************************************************************************)
FlightIsLed ==
  /\ \A c \in Clients :
       flight = c <=> pc[c] = "factory" \/ call[c].op \in {"check", "fill"}
  /\ Waiting # {} => flight # "none"

(***************************************************************************)
(* Every call returns, those that wait for someone else's factory too      *)
(* (GetOrCreate, setToRedis).                                              *)
(***************************************************************************)
EveryCallReturns == \A c \in Clients : ~Idle(c) ~> Idle(c)

(***************************************************************************)
(* README.md:18, "Continues working when Redis fails, falling back to      *)
(* memory cache": a GetOrCreate that includes the memory layer does not    *)
(* end in ErrRedisUnavailable (Get, GetOrCreate).                          *)
(***************************************************************************)
GetOrCreateDegrades ==
  [][\A c \in Clients :
       call[c].op \in {"lookup", "check", "fill"} /\ IncludesMemory(call[c].level)
         => result'[c] # "unavailable"]_vars
=============================================================================
