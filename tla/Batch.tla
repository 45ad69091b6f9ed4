--------------------------------- MODULE Batch ---------------------------------
(***************************************************************************)
(* One call of an operation of internal/cache/manager.go on several keys:   *)
(* GetMany, SetMany, DeleteMany, Clear or ClearByPattern, with the loops of *)
(* memory.go and redis.go it runs, from any content of the two layers.      *)
(*                                                                         *)
(* The call is followed key by key.  Between two of its steps everybody     *)
(* else (other callers, eviction, the copies to memory that a GetMany       *)
(* starts, other clients of Redis) may change any key in either layer, and  *)
(* the manager may be closed.  Whether Redis is connected, and whether a    *)
(* command reaches it, is open at every step: RedisCache has the details.   *)
(***************************************************************************)
EXTENDS Patterns, FiniteSets

CONSTANTS Keys,     \* sequences of symbols
          Invalid,  \* those that the key validator rejects
          Globs     \* the patterns given to ClearByPattern

ASSUME KeysAssumption ==
  /\ IsFiniteSet(Keys) /\ Keys \subseteq Seq(Symbols)
  /\ Invalid \subseteq Keys
  /\ Globs \subseteq Seq(Symbols)

Valid == Keys \ Invalid

Missing == "missing"
Old     == "old"    \* any value but the one the call writes
New     == "new"    \* the value the call writes
Values  == {Missing, Old, New}

Layers == {"memory", "redis"}
Levels == {"memory", "redis", "both"}
Includes(level) == IF level = "both" THEN Layers ELSE {level}

VARIABLES enabled,  \* the layers that are not a Disabled*Cache
          closed,   \* "no", "manager" (m.closed) or "layers" (memory.closed, too)
          holds,    \* holds[layer][key]
          call,     \* the call: its arguments, its variables, its result
          seen      \* auxiliary: the <<layer, key>>s that were, at some moment of the
                    \* call, as it wants them
vars == <<enabled, closed, holds, call, seen>>

KeyOps == {"getMany", "setMany", "deleteMany"}
Wanted(op) == IF op = "setMany" THEN New ELSE Missing

NewCall(op, level, keys, pattern) ==
  [op |-> op, level |-> level, keys |-> keys, pattern |-> pattern,
   at |-> "begin", todo |-> keys, batch |-> {}, found |-> {}, failed |-> {},
   result |-> "none"]

Calls ==
  {NewCall(op, level, keys, <<Star>>) : op \in KeyOps, level \in Levels, keys \in SUBSET Keys}
  \cup {NewCall("clear", level, Valid, <<Star>>) : level \in Levels}
  \cup {NewCall("clearByPattern", level, Valid, p) : level \in Levels, p \in Globs}

Init ==
  /\ enabled \in SUBSET Layers
  /\ closed \in {"no", "manager"}
  /\ holds \in [Layers -> [Keys -> {Missing, Old}]]
  /\ \A layer \in Layers, k \in Keys :
       holds[layer][k] # Missing => k \in Valid /\ layer \in enabled
  /\ call \in Calls
  /\ seen = {}

-----------------------------------------------------------------------------
At(place) == call.at = place

AsWanted(op) == {at \in Layers \X Keys : holds'[at[1]][at[2]] = Wanted(op)}

\* The call goes on with these variables.
Goto(place, c) ==
  /\ call' = [c EXCEPT !.at = place]
  /\ seen' = seen \cup AsWanted(c.op)
  /\ UNCHANGED <<enabled, closed>>

\* GetMany reports no error of either layer, SetMany none of Redis.
Reported(c) ==
  {layer \in c.failed : c.op # "getMany" /\ (c.op = "setMany" => layer = "memory")}

Return(c) ==
  Goto("returned", [c EXCEPT !.result = IF Reported(c) = {} THEN "ok" ELSE "failed"])

Put(layer, k, value) ==
  IF layer \in enabled THEN [holds EXCEPT ![layer][k] = value] ELSE holds

Without(layer, keys) ==
  [holds EXCEPT ![layer] = [k \in Keys |-> IF k \in keys THEN Missing ELSE @[k]]]

\* What the layer is asked next has been asked for key k; or the layer failed.
Through(k)     == [call EXCEPT !.todo = @ \ {k}]
Failed(layers) == [call EXCEPT !.failed = @ \cup layers]

MemoryRefuses == "memory" \in enabled /\ closed = "layers"

-----------------------------------------------------------------------------
(* The beginning                                                           *)

FirstPlace ==
  IF call.op = "deleteMany" THEN "next"
  ELSE IF call.op \in {"getMany", "setMany"} THEN "memory"
  ELSE IF "memory" \notin Includes(call.level) THEN "scan"
  ELSE IF call.op = "clear" THEN "reset" ELSE "iterate"

\* All keys are validated, and all values marshalled, before anything changes.
Refused(marshals) ==
  \/ closed # "no"
  \/ call.keys \cap Invalid # {}
  \/ call.op = "setMany" /\ call.keys # {} /\ ~marshals

Begin ==
  /\ At("begin")
  /\ UNCHANGED holds
  /\ \E marshals \in BOOLEAN :
       IF Refused(marshals) THEN Goto("returned", [call EXCEPT !.result = "refused"])
       ELSE IF call.keys = {} THEN Return(call)
       ELSE Goto(FirstPlace, call)

-----------------------------------------------------------------------------
(* GetMany and SetMany                                                     *)

Asks(k, op) ==
  At("memory") /\ call.op = op /\ k \in call.todo /\ "memory" \in Includes(call.level)

GetFromMemory(k) ==
  /\ Asks(k, "getMany")
  /\ UNCHANGED holds
  /\ Goto("memory",
       IF MemoryRefuses THEN [Through(k) EXCEPT !.failed = @ \cup {"memory"}]
       ELSE IF holds["memory"][k] = Missing THEN Through(k)
       ELSE [Through(k) EXCEPT !.found = @ \cup {k}])

\* An entry may be too big for bigcache.
SetInMemory(k) ==
  /\ Asks(k, "setMany")
  /\ \/ /\ ~MemoryRefuses
        /\ holds' = Put("memory", k, New)
        /\ Goto("memory", Through(k))
     \/ /\ "memory" \in enabled
        /\ UNCHANGED holds
        /\ Goto("memory", [Through(k) EXCEPT !.failed = @ \cup {"memory"}])

RedisIfNoneFound ==
  LET left == IF call.found = {} THEN call.keys ELSE {}
  IN
  /\ At("memory") /\ (call.todo = {} \/ "memory" \notin Includes(call.level))
  /\ UNCHANGED holds
  /\ IF left = {} \/ "redis" \notin Includes(call.level) THEN Return(call)
     ELSE \/ "redis" \in enabled /\ Goto("redis", [call EXCEPT !.todo = left])
          \/ Return(Failed({"redis"}))

\* After the loop over memory: the test of redis.IsAvailable().
ToRedis ==
  LET left == call.keys \ call.found
  IN
  /\ At("memory") /\ (call.todo = {} \/ "memory" \notin Includes(call.level))
  /\ UNCHANGED holds
  /\ IF left = {} \/ "redis" \notin Includes(call.level) THEN Return(call)
     ELSE \/ "redis" \in enabled /\ Goto("redis", [call EXCEPT !.todo = left])
          \/ Return(Failed({"redis"}))

\* MGET.
GetFromRedis ==
  /\ At("redis") /\ call.op = "getMany"
  /\ UNCHANGED holds
  /\ \/ Return([call EXCEPT !.found =
                  @ \cup {k \in call.todo : holds["redis"][k] # Missing}])
     \/ Return(Failed({"redis"}))

\* The commands of the pipeline; an error leaves the others undone.
SetInRedis(k) ==
  /\ At("redis") /\ call.op = "setMany" /\ k \in call.todo
  /\ holds' = Put("redis", k, New)
  /\ IF call.todo = {k} THEN Return(Through(k)) ELSE Goto("redis", Through(k))

PipelineFails ==
  /\ At("redis") /\ call.op = "setMany"
  /\ UNCHANGED holds
  /\ Return(Failed({"redis"}))

-----------------------------------------------------------------------------
(* DeleteMany: a Delete per key, whatever the one before returned          *)

NextKey(k) ==
  LET place == IF "memory" \in Includes(call.level) THEN "memoryDelete" ELSE "redisDelete"
  IN
  /\ At("next") /\ k \in call.todo
  /\ UNCHANGED holds
  /\ IF closed # "no" THEN Goto("next", [Through(k) EXCEPT !.failed = Layers])
     ELSE Goto(place, [Through(k) EXCEPT !.batch = {k}])

NoMoreKeys ==
  /\ At("next") /\ call.todo = {}
  /\ UNCHANGED holds
  /\ Return(call)

DeleteFromMemory ==
  LET place == IF "redis" \in Includes(call.level) THEN "redisDelete" ELSE "next"
  IN
  /\ At("memoryDelete")
  /\ IF MemoryRefuses THEN UNCHANGED holds /\ Goto(place, Failed({"memory"}))
     ELSE holds' = Without("memory", call.batch) /\ Goto(place, call)

DeleteFromRedis ==
  /\ At("redisDelete")
  /\ \/ holds' = Without("redis", call.batch) /\ Goto("next", call)
     \/ /\ "redis" \in enabled
        /\ holds' \in {holds, Without("redis", call.batch)}
        /\ Goto("next", Failed({"redis"}))

-----------------------------------------------------------------------------
(* Clear and ClearByPattern                                                *)

\* After memory comes Redis, whatever memory returned.
AfterMemory(c) ==
  IF "redis" \in Includes(c.level) THEN Goto("scan", [c EXCEPT !.todo = c.keys])
  ELSE Return(c)

MemoryIsClosed ==
  /\ At("reset") \/ At("iterate")
  /\ MemoryRefuses /\ call.todo = call.keys
  /\ UNCHANGED holds
  /\ AfterMemory(Failed({"memory"}))

\* Reset takes the shards one by one.
ResetShard(k) ==
  /\ At("reset") /\ k \in call.todo
  /\ holds' = Without("memory", {k})
  /\ Goto("reset", Through(k))

\* The iterator comes to the keys one by one.
Iterate(k) ==
  /\ At("iterate") /\ k \in call.todo
  /\ UNCHANGED holds
  /\ Goto("iterate",
       IF holds["memory"][k] # Missing /\ MatchPattern(k, call.pattern)
       THEN [Through(k) EXCEPT !.batch = @ \cup {k}] ELSE Through(k))

DeleteCollected(k) ==
  /\ At("iterate") /\ call.todo = {} /\ k \in call.batch
  /\ holds' = Without("memory", {k})
  /\ Goto("iterate", [call EXCEPT !.batch = @ \ {k}])

MemoryIsCleared ==
  /\ At("reset") \/ At("iterate")
  /\ call.todo = {} /\ call.batch = {}
  /\ UNCHANGED holds
  /\ AfterMemory(call)

ScansEverything ==
  /\ At("scan") /\ "redis" \in enabled
  /\ UNCHANGED holds
  /\ Goto("del", [call EXCEPT !.todo = {},
                              !.batch = {k \in call.todo : holds["redis"][k] # Missing}])

\* SCAN returns the keys of a part of the database that match, perhaps none.
Scan ==
  /\ At("scan") /\ "redis" \in enabled
  /\ UNCHANGED holds
  /\ \E page \in SUBSET call.todo \ {{}} :
       Goto("del",
         [call EXCEPT !.todo  = @ \ page,
                      !.batch = {k \in page : /\ holds["redis"][k] # Missing
                                              /\ Glob(k, call.pattern)}])

DeletesOnePage ==
  /\ At("del")
  /\ holds' = Without("redis", call.batch)
  /\ Return([call EXCEPT !.batch = {}])

\* DEL of what SCAN returned; the cursor tells whether there is more.
DeletePage ==
  LET c == [call EXCEPT !.batch = {}]
  IN
  /\ At("del")
  /\ holds' = Without("redis", call.batch)
  /\ IF call.todo = {} THEN Return(c) ELSE Goto("scan", c)

\* A disabled layer has nothing to scan; Redis may be disconnected, or an
\* error end the loop on any page, with or without the DEL under way.
ScanEnds ==
  /\ At("scan") \/ (At("del") /\ call.batch # {})
  /\ IF "redis" \in enabled
     THEN /\ holds' \in {holds, Without("redis", call.batch)}
          /\ Return([Failed({"redis"}) EXCEPT !.batch = {}])
     ELSE UNCHANGED holds /\ Return(call)

-----------------------------------------------------------------------------
(* The others                                                              *)

Underway == ~At("begin") /\ ~At("returned")

Others ==
  /\ Underway
  /\ \E layer \in enabled, k \in Valid, value \in {Missing, Old} :
       holds' = [holds EXCEPT ![layer][k] = value]
  /\ seen' = seen \cup AsWanted(call.op)
  /\ UNCHANGED <<enabled, closed, call>>

\* Close sets m.closed, and closes the layers later.
Close ==
  /\ Underway /\ closed # "layers"
  /\ closed' = IF closed = "no" THEN "manager" ELSE "layers"
  /\ UNCHANGED <<enabled, holds, call, seen>>

Next ==
  \/ \E k \in Keys :
       \/ GetFromMemory(k) \/ SetInMemory(k) \/ SetInRedis(k) \/ NextKey(k)
       \/ ResetShard(k) \/ Iterate(k) \/ DeleteCollected(k)
  \/ Begin \/ ToRedis \/ GetFromRedis \/ PipelineFails
  \/ NoMoreKeys \/ DeleteFromMemory \/ DeleteFromRedis
  \/ MemoryIsClosed \/ MemoryIsCleared \/ Scan \/ DeletePage \/ ScanEnds
  \/ Others \/ Close

Spec == Init /\ [][Next]_vars

-----------------------------------------------------------------------------
\* The layers that the call was for and that reported no error to it.
Served == (Includes(call.level) \cap enabled) \ call.failed

(***************************************************************************)
(* What a call must take from a layer, and what it may take.  For           *)
(* ClearByPattern that is what Redis's glob takes.  Memory may also take    *)
(* the keys in which the two ends of the pattern overlap; its patterns know *)
(* one star, and it reads the others and the wildcards its own way.        *)
(***************************************************************************)
MustTake(layer, k) ==
  call.op = "clearByPattern" =>
    IF layer = "memory" /\ ~Simple(call.pattern)
    THEN MatchPattern(k, call.pattern)
    ELSE Glob(k, call.pattern)

MayTake(layer, k) ==
  /\ layer \in Includes(call.level) /\ k \in call.keys
  /\ call.op = "clearByPattern" =>
       \/ Glob(k, call.pattern)
       \/ layer = "memory" /\ Overlaps(k, call.pattern)
       \/ layer = "memory" /\ ~Literal(call.pattern) /\ MatchPattern(k, call.pattern)

Carried(keys) ==
  \A layer \in Served, k \in keys : MustTake(layer, k) => <<layer, k>> \in seen

(***************************************************************************)
(* When the call returns, each of its keys has been gone from, or was set   *)
(* in, each layer that reported no error, whatever the other layer and the  *)
(* other keys reported; and a DeleteMany, Clear or ClearByPattern that      *)
(* returns nil had no error.  The keys of a ClearByPattern are those that   *)
(* Redis's glob takes; in memory, too, as long as the pattern is a Simple   *)
(* one (SetMany, DeleteMany, Clear, ClearByPattern, matchPattern).         *)
(***************************************************************************)
EachLayerIsServed ==
  At("returned") /\ call.result # "refused" /\ call.op # "getMany" =>
    /\ Carried(call.keys)
    /\ call.result = "ok" /\ call.op # "setMany" => call.failed = {}

(***************************************************************************)
(* A key that GetMany does not return was missing, at some moment of the    *)
(* call, from each layer that reported no error (Manager.GetMany,           *)
(* RedisCache.GetMany).                                                    *)
(***************************************************************************)
GetManyFindsAll ==
  At("returned") /\ call.result # "refused" /\ call.op = "getMany" =>
    Carried(call.keys \ call.found)

(***************************************************************************)
(* A call that removes keys removes none but its own, in no layer but its   *)
(* own.  The keys of a ClearByPattern are those that Redis's glob takes; of *)
(* a pattern without wildcards memory takes no others either, whatever its  *)
(* stars, except those in which the two ends of the pattern overlap         *)
(* (DeleteMany, Clear, ClearByPattern, matchPattern).                       *)
(***************************************************************************)
SparesTheRest ==
  [][call' # call /\ call.op \notin {"getMany", "setMany"} =>
       \A layer \in Layers, k \in Keys :
         holds'[layer][k] # holds[layer][k] =>
           MayTake(layer, k) /\ holds'[layer][k] = Missing]_vars
=============================================================================
