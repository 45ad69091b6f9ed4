------------------------------ MODULE BatchProofs ------------------------------
(***************************************************************************)
(* Theorems of Batch, for every set of keys, every validator and every set  *)
(* of patterns.                                                            *)
(***************************************************************************)
EXTENDS Batch, SequenceTheorems, NaturalsInduction, WellFoundedInduction, TLAPS

Removals == {"deleteMany", "clear", "clearByPattern"}
Ops      == KeyOps \cup {"clear", "clearByPattern"}
Given    == Globs \cup {<<Star>>}
Places   == {"begin", "memory", "redis", "next", "memoryDelete", "redisDelete",
             "reset", "iterate", "scan", "del", "returned"}

CallType ==
  [op : Ops, level : Levels, keys : SUBSET Keys, pattern : Given, at : Places,
   todo : SUBSET Keys, batch : SUBSET Keys, found : SUBSET Keys,
   failed : SUBSET Layers, result : {"none", "ok", "failed", "refused"}]

TypeOK ==
  /\ enabled \in SUBSET Layers
  /\ holds \in [Layers -> [Keys -> Values]]
  /\ seen \subseteq Layers \X Keys
  /\ call \in CallType

(***************************************************************************)
(* Where the call can be, and with which of its variables.                 *)
(***************************************************************************)
PlaceFits(c) ==
  /\ c.at \in {"memory", "redis"} => c.op \in {"getMany", "setMany"}
  /\ c.at \in {"next", "memoryDelete", "redisDelete"} => c.op = "deleteMany"
  /\ c.at = "reset" => c.op = "clear"
  /\ c.at = "iterate" => c.op = "clearByPattern"
  /\ c.at \in {"scan", "del"} => c.op \in {"clear", "clearByPattern"}
  /\ c.at \in {"memoryDelete", "reset", "iterate"} => "memory" \in Includes(c.level)
  /\ c.at \in {"redisDelete", "scan", "del"} => "redis" \in Includes(c.level)
  /\ c.at # "returned" => c.result = "none"

VariablesFit(c) ==
  /\ c.todo \subseteq c.keys /\ c.batch \subseteq c.keys /\ c.found \subseteq c.keys
  /\ c.op # "getMany" => c.found = {}
  /\ c.at = "begin" => c.todo = c.keys
  /\ c.op = "clear" => c.pattern = <<Star>>
  /\ c.at \in {"begin", "reset", "scan"} => c.batch = {}
  /\ c.at = "iterate" =>
       c.batch \cap c.todo = {} /\ \A k \in c.batch : MatchPattern(k, c.pattern)
  /\ c.at = "del" => \A k \in c.batch : Glob(k, c.pattern)

CallFits(c) == PlaceFits(c) /\ VariablesFit(c)

(***************************************************************************)
(* The keys for which a layer has not been asked yet, or was asked but has  *)
(* not done it; those that GetMany found need nothing.                     *)
(***************************************************************************)
Pending(layer) ==
  {k \in call.keys :
     \/ k \in call.found
     \/ layer = "memory" /\
          \/ /\ call.at \in {"begin", "memory", "next", "memoryDelete", "redisDelete",
                             "reset", "iterate"}
             /\ k \in call.todo
          \/ call.at \in {"memoryDelete", "reset", "iterate"} /\ k \in call.batch
     \/ layer = "redis" /\
          \/ call.at \in {"begin", "memory", "reset", "iterate"}
          \/ /\ call.at \in {"redis", "next", "memoryDelete", "redisDelete", "scan", "del"}
             /\ k \in call.todo
          \/ call.at \in {"memoryDelete", "redisDelete", "del"} /\ k \in call.batch}

Progress ==
  call.result # "refused" =>
    \A layer \in Served : \A k \in call.keys \ Pending(layer) :
      MustTake(layer, k) => <<layer, k>> \in seen

ResultFits == call.result = "ok" => Reported(call) = {}

IInv == TypeOK /\ CallFits(call) /\ Progress /\ ResultFits

-----------------------------------------------------------------------------
(***************************************************************************)
(* A step of the call, whatever its variables become: its arguments stay,   *)
(* and what is as the call wants it is seen.                               *)
(***************************************************************************)
SameArguments(c) ==
  c.op = call.op /\ c.level = call.level /\ c.keys = call.keys /\ c.pattern = call.pattern

LEMMA Steps ==
  ASSUME TypeOK, NEW place \in Places, NEW c \in CallType, Goto(place, c),
         SameArguments(c), holds' \in [Layers -> [Keys -> Values]]
  PROVE  /\ TypeOK'
         /\ call'.at = place /\ call'.todo = c.todo /\ call'.batch = c.batch
         /\ call'.found = c.found /\ call'.failed = c.failed /\ call'.result = c.result
         /\ call'.op = call.op /\ call'.level = call.level
         /\ call'.keys = call.keys /\ call'.pattern = call.pattern
         /\ enabled' = enabled /\ seen \subseteq seen'
         /\ \A layer \in Layers, k \in Keys :
              holds'[layer][k] = Wanted(call.op) => <<layer, k>> \in seen'
<1>1. call' = [c EXCEPT !.at = place]
  BY DEF Goto
<1>2. /\ call' \in CallType /\ call'.at = place
      /\ call'.todo = c.todo /\ call'.batch = c.batch /\ call'.found = c.found
      /\ call'.failed = c.failed /\ call'.result = c.result
      /\ call'.op = call.op /\ call'.level = call.level
      /\ call'.keys = call.keys /\ call'.pattern = call.pattern
  BY <1>1 DEF CallType, SameArguments
<1>3. /\ enabled' = enabled
      /\ seen' = seen \cup {at \in Layers \X Keys : holds'[at[1]][at[2]] = Wanted(call.op)}
  BY DEF Goto, AsWanted, SameArguments
<1>4. TypeOK'
  BY <1>2, <1>3 DEF TypeOK
<1> QED
  BY <1>2, <1>3, <1>4

(***************************************************************************)
(* Progress needs no more than this: a key leaves Pending(layer) only when  *)
(* the layer has it as the call wants it, or reports an error.             *)
(***************************************************************************)
LEMMA Carries ==
  ASSUME IInv, NEW place \in Places, NEW c \in CallType, Goto(place, c),
         SameArguments(c), holds' \in [Layers -> [Keys -> Values]],
         call.result = "none", call.failed \subseteq c.failed,
         \A layer \in (Includes(call.level) \cap enabled) \ c.failed, k \in call.keys :
           k \in Pending(layer) /\ k \notin Pending(layer)' /\ MustTake(layer, k) =>
             holds'[layer][k] = Wanted(call.op)
  PROVE  Progress'
<1> SUFFICES ASSUME NEW layer \in Served', NEW k \in (call.keys \ Pending(layer))',
                    MustTake(layer, k)'
             PROVE  <<layer, k>> \in seen'
  BY DEF Progress
<1>1. /\ layer \in Served /\ layer \in (Includes(call.level) \cap enabled) \ c.failed
      /\ k \in call.keys /\ k \notin Pending(layer)' /\ MustTake(layer, k)
      /\ layer \in Layers /\ k \in Keys
  BY Steps DEF Served, MustTake, IInv, TypeOK, CallType
<1>2. CASE k \in Pending(layer)
  BY <1>1, <1>2, Steps DEF IInv
<1>3. CASE k \notin Pending(layer)
  BY <1>1, <1>3, Steps DEF IInv, Progress
<1> QED
  BY <1>2, <1>3

(***************************************************************************)
(* The call goes on, or returns.                                           *)
(***************************************************************************)
LEMMA GoesOn ==
  ASSUME IInv, NEW place \in Places, NEW c \in CallType, Goto(place, c),
         SameArguments(c), holds' \in [Layers -> [Keys -> Values]],
         call.result = "none", c.result = "none", call.failed \subseteq c.failed,
         CallFits(call)',
         \A layer \in (Includes(call.level) \cap enabled) \ c.failed, k \in call.keys :
           k \in Pending(layer) /\ k \notin Pending(layer)' /\ MustTake(layer, k) =>
             holds'[layer][k] = Wanted(call.op)
  PROVE  IInv'
<1>1. TypeOK' /\ call'.result = "none"
  BY Steps DEF IInv
<1>2. Progress'
  BY Carries
<1> QED
  BY <1>1, <1>2 DEF IInv, ResultFits

LEMMA Returns ==
  ASSUME IInv, NEW c \in CallType, Return(c),
         SameArguments(c), holds' \in [Layers -> [Keys -> Values]],
         call.result = "none", call.failed \subseteq c.failed, VariablesFit(c),
         \A layer \in (Includes(call.level) \cap enabled) \ c.failed, k \in call.keys :
           k \in Pending(layer) /\ k \notin c.found /\ MustTake(layer, k) =>
             holds'[layer][k] = Wanted(call.op)
  PROVE  IInv'
<1> DEFINE d == [c EXCEPT !.result = IF Reported(c) = {} THEN "ok" ELSE "failed"]
<1>1. /\ d \in CallType /\ Goto("returned", d) /\ SameArguments(d)
      /\ d.todo = c.todo /\ d.batch = c.batch /\ d.found = c.found /\ d.failed = c.failed
      /\ d.result \in {"ok", "failed"} /\ (d.result = "ok" => Reported(c) = {})
  BY DEF Return, CallType, SameArguments
<1> HIDE DEF d
<1>2. /\ TypeOK' /\ call'.at = "returned" /\ call'.todo = c.todo /\ call'.batch = c.batch
      /\ call'.found = c.found /\ call'.failed = c.failed /\ call'.result = d.result
      /\ call'.op = call.op /\ call'.level = call.level
      /\ call'.keys = call.keys /\ call'.pattern = call.pattern
  BY <1>1, Steps DEF IInv, Places
<1>3. CallFits(call)'
  BY <1>2 DEF CallFits, PlaceFits, VariablesFit, SameArguments
<1>4. \A layer : \A k \in c.found \cap call.keys : k \in Pending(layer)'
  BY <1>2 DEF Pending
<1>5. Progress'
  <2>1. "returned" \in Places /\ call.failed \subseteq d.failed
    BY <1>1 DEF Places
  <2>2. \A layer \in (Includes(call.level) \cap enabled) \ d.failed, k \in call.keys :
          k \in Pending(layer) /\ k \notin Pending(layer)' /\ MustTake(layer, k) =>
            holds'[layer][k] = Wanted(call.op)
    BY <1>1, <1>4
  <2> QED
    BY <1>1, <2>1, <2>2, Carries
<1>6. ResultFits'
  BY <1>1, <1>2 DEF ResultFits, Reported, SameArguments
<1> QED
  BY <1>2, <1>3, <1>5, <1>6 DEF IInv

(***************************************************************************)
(* Begin.                                                                  *)
(***************************************************************************)
LEMMA BeginInv ==
  ASSUME IInv, Begin
  PROVE  IInv'
<1>1. /\ call \in CallType /\ call.at = "begin" /\ call.result = "none"
      /\ UNCHANGED holds /\ holds' \in [Layers -> [Keys -> Values]] /\ SameArguments(call)
      /\ VariablesFit(call)
  BY DEF Begin, At, IInv, TypeOK, CallFits, PlaceFits, SameArguments
<1>2. CASE Goto("returned", [call EXCEPT !.result = "refused"])
  <2> DEFINE d == [call EXCEPT !.result = "refused"]
  <2>1. /\ d \in CallType /\ SameArguments(d) /\ "returned" \in Places
        /\ d.todo = call.todo /\ d.batch = call.batch /\ d.found = call.found
        /\ d.result = "refused"
    BY <1>1 DEF CallType, SameArguments, Places
  <2> HIDE DEF d
  <2>2. Goto("returned", d)
    BY <1>2 DEF d
  <2>3. /\ TypeOK' /\ call'.at = "returned" /\ call'.todo = call.todo
        /\ call'.batch = call.batch /\ call'.found = call.found /\ call'.result = "refused"
        /\ call'.op = call.op /\ call'.level = call.level
        /\ call'.keys = call.keys /\ call'.pattern = call.pattern
    BY <1>1, <2>1, <2>2, Steps DEF IInv
  <2> QED
    BY <1>1, <2>3 DEF IInv, CallFits, PlaceFits, VariablesFit, Progress, ResultFits
<1>3. CASE call.keys = {} /\ Return(call)
  BY <1>1, <1>3, Returns
<1>4. CASE Goto(FirstPlace, call)
  <2>1. /\ FirstPlace \in {"next", "memory", "scan", "reset", "iterate"}
        /\ FirstPlace = "memory" => call.op \in {"getMany", "setMany"}
        /\ FirstPlace = "next" => call.op = "deleteMany"
        /\ FirstPlace = "scan" =>
             call.op \in {"clear", "clearByPattern"} /\ "memory" \notin Includes(call.level)
        /\ FirstPlace \in {"reset", "iterate"} => "memory" \in Includes(call.level)
        /\ FirstPlace = "reset" => call.op = "clear"
        /\ FirstPlace = "iterate" => call.op = "clearByPattern"
    BY <1>1 DEF FirstPlace, CallType, Ops, KeyOps
  <2>2. FirstPlace \in Places
    BY <2>1 DEF Places
  <2>3. "memory" \notin Includes(call.level) => "redis" \in Includes(call.level)
    BY <1>1 DEF CallType, Levels, Includes, Layers
  <2>4. /\ call'.at = FirstPlace /\ call'.todo = call.todo /\ call'.batch = call.batch
        /\ call'.found = call.found /\ call'.result = "none"
        /\ call'.op = call.op /\ call'.level = call.level
        /\ call'.keys = call.keys /\ call'.pattern = call.pattern
    BY <1>1, <1>4, <2>2, Steps DEF IInv
  <2>5. CallFits(call)'
    BY <1>1, <2>1, <2>3, <2>4 DEF CallFits, PlaceFits, VariablesFit
  <2>6. ASSUME NEW layer \in Includes(call.level), NEW k \in call.keys
        PROVE  k \in Pending(layer)'
    <3>1. k \in call.todo /\ layer \in Layers
      BY <1>1 DEF VariablesFit, CallType, Levels, Includes, Layers
    <3> QED
      BY <2>1, <2>4, <2>6, <3>1 DEF Pending, Layers
  <2> QED
    BY <1>1, <1>4, <2>2, <2>5, <2>6, GoesOn
<1> QED
  BY <1>2, <1>3, <1>4 DEF Begin

-----------------------------------------------------------------------------
(***************************************************************************)
(* GetMany and SetMany.                                                    *)
(***************************************************************************)
LEMMA Under ==
  ASSUME IInv
  PROVE  /\ call \in CallType
         /\ call.at # "returned" => call.result = "none"
         /\ holds \in [Layers -> [Keys -> Values]] /\ enabled \subseteq Layers
         /\ SameArguments(call) /\ CallFits(call)
         /\ call.keys \subseteq Keys /\ call.failed \subseteq Layers
         /\ call.todo \subseteq call.keys /\ call.batch \subseteq call.keys
BY DEF IInv, TypeOK, CallFits, PlaceFits, VariablesFit, SameArguments, CallType

LEMMA FailedFields ==
  ASSUME IInv, NEW layers \in SUBSET Layers, NEW c, c = Failed(layers)
  PROVE  /\ c \in CallType /\ SameArguments(c) /\ c.at = call.at
         /\ c.todo = call.todo /\ c.batch = call.batch /\ c.found = call.found
         /\ c.failed = call.failed \cup layers /\ c.result = call.result
         /\ VariablesFit(c)
BY Under DEF Failed, CallType, SameArguments, CallFits, VariablesFit

LEMMA ThroughFields ==
  ASSUME IInv, NEW k \in Keys, NEW c, c = Through(k)
  PROVE  /\ c \in CallType /\ SameArguments(c) /\ c.at = call.at
         /\ c.todo = call.todo \ {k} /\ c.batch = call.batch /\ c.found = call.found
         /\ c.failed = call.failed /\ c.result = call.result
         /\ call.at # "begin" => VariablesFit(c)
BY Under DEF Through, CallType, SameArguments, CallFits, VariablesFit

LEMMA GetFromMemoryInv ==
  ASSUME IInv, NEW k \in Keys, GetFromMemory(k)
  PROVE  IInv'
<1>1. /\ call.at = "memory" /\ call.op = "getMany" /\ k \in call.todo
      /\ UNCHANGED holds /\ holds' \in [Layers -> [Keys -> Values]]
      /\ call.result = "none"
  BY Under DEF GetFromMemory, Asks, At
<1>2. PICK c \in CallType :
        /\ Goto("memory", c) /\ SameArguments(c)
        /\ c.todo = call.todo \ {k} /\ c.batch = call.batch /\ c.result = "none"
        /\ \/ c.found = call.found /\ c.failed = call.failed \cup {"memory"}
           \/ c.found = call.found /\ c.failed = call.failed /\ holds["memory"][k] = Missing
           \/ c.found = call.found \cup {k} /\ c.failed = call.failed
  <2> DEFINE read == IF MemoryRefuses THEN [Through(k) EXCEPT !.failed = @ \cup {"memory"}]
                     ELSE IF holds["memory"][k] = Missing THEN Through(k)
                     ELSE [Through(k) EXCEPT !.found = @ \cup {k}]
  <2>1. Goto("memory", read)
    BY DEF GetFromMemory
  <2>2. /\ read \in CallType /\ SameArguments(read)
        /\ read.todo = call.todo \ {k} /\ read.batch = call.batch /\ read.result = "none"
        /\ \/ read.found = call.found /\ read.failed = call.failed \cup {"memory"}
           \/ read.found = call.found /\ read.failed = call.failed /\ holds["memory"][k] = Missing
           \/ read.found = call.found \cup {k} /\ read.failed = call.failed
    BY <1>1, Under DEF CallType, SameArguments, Through, Layers
  <2> HIDE DEF read
  <2> QED
    BY <2>1, <2>2
<1>3. /\ call'.at = "memory" /\ call'.todo = call.todo \ {k} /\ call'.batch = call.batch
      /\ call'.found = c.found /\ call'.result = "none"
      /\ call'.op = call.op /\ call'.level = call.level
      /\ call'.keys = call.keys /\ call'.pattern = call.pattern
  BY <1>1, <1>2, Steps DEF IInv, Places
<1>4. CallFits(call)'
  BY <1>1, <1>2, <1>3, Under DEF CallFits, PlaceFits, VariablesFit
<1>5. \A layer \in (Includes(call.level) \cap enabled) \ c.failed, j \in call.keys :
        j \in Pending(layer) /\ j \notin Pending(layer)' /\ MustTake(layer, j) =>
          holds'[layer][j] = Wanted(call.op)
  BY <1>1, <1>2, <1>3 DEF Pending, Wanted, Layers
<1> QED
  BY <1>1, <1>2, <1>4, <1>5, GoesOn DEF Places

LEMMA SetInMemoryInv ==
  ASSUME IInv, NEW k \in Keys, SetInMemory(k)
  PROVE  IInv'
<1>1. /\ call.at = "memory" /\ call.op = "setMany" /\ k \in call.todo
      /\ call.result = "none"
  BY Under DEF SetInMemory, Asks, At
<1>2. /\ holds' \in [Layers -> [Keys -> Values]]
  BY Under DEF SetInMemory, Put, Layers, Values
<1>3. PICK c \in CallType :
        /\ Goto("memory", c) /\ SameArguments(c)
        /\ c.todo = call.todo \ {k} /\ c.batch = call.batch /\ c.result = "none"
        /\ c.found = call.found
        /\ \/ c.failed = call.failed \cup {"memory"}
           \/ c.failed = call.failed /\ holds' = Put("memory", k, New)
  <2>1. CASE holds' = Put("memory", k, New) /\ Goto("memory", Through(k))
    BY <1>1, <2>1, Under DEF CallType, SameArguments, Through
  <2>2. CASE Goto("memory", [Through(k) EXCEPT !.failed = @ \cup {"memory"}])
    <3> DEFINE c == [Through(k) EXCEPT !.failed = @ \cup {"memory"}]
    <3>1. /\ c \in CallType /\ SameArguments(c)
          /\ c.todo = call.todo \ {k} /\ c.batch = call.batch /\ c.result = "none"
          /\ c.found = call.found /\ c.failed = call.failed \cup {"memory"}
      BY <1>1, Under DEF CallType, SameArguments, Through, Layers
    <3>2. Goto("memory", c)
      BY <2>2
    <3> HIDE DEF c
    <3> QED
      BY <3>1, <3>2
  <2> QED
    BY <2>1, <2>2 DEF SetInMemory
<1>4. /\ call'.at = "memory" /\ call'.todo = call.todo \ {k} /\ call'.batch = call.batch
      /\ call'.found = call.found /\ call'.result = "none"
      /\ call'.op = call.op /\ call'.level = call.level
      /\ call'.keys = call.keys /\ call'.pattern = call.pattern
  BY <1>1, <1>2, <1>3, Steps DEF IInv, Places
<1>5. CallFits(call)'
  BY <1>1, <1>4, Under DEF CallFits, PlaceFits, VariablesFit
<1>6. \A layer \in (Includes(call.level) \cap enabled) \ c.failed, j \in call.keys :
        j \in Pending(layer) /\ j \notin Pending(layer)' /\ MustTake(layer, j) =>
          holds'[layer][j] = Wanted(call.op)
  BY <1>1, <1>3, <1>4, Under DEF Pending, Wanted, Layers, Put
<1> QED
  BY <1>1, <1>2, <1>3, <1>5, <1>6, GoesOn DEF Places


LEMMA ToRedisInv ==
  ASSUME IInv, ToRedis
  PROVE  IInv'
<1>1. /\ call.at = "memory" /\ call.result = "none" /\ call.op \in {"getMany", "setMany"}
      /\ UNCHANGED holds /\ holds' \in [Layers -> [Keys -> Values]] /\ VariablesFit(call)
      /\ call.todo = {} \/ "memory" \notin Includes(call.level)
  BY Under DEF ToRedis, At, CallFits, PlaceFits
<1>2. \A layer \in Includes(call.level) \cap enabled, j \in call.keys :
        j \in Pending(layer) => j \in call.found \/ layer = "redis"
  BY <1>1, Under DEF Pending, Layers
<1>3. CASE /\ call.keys \ call.found = {} \/ "redis" \notin Includes(call.level)
           /\ Return(call)
  BY <1>1, <1>2, <1>3, Under, Returns
<1>4. CASE Return(Failed({"redis"}))
  <2> DEFINE c == Failed({"redis"})
  <2>1. /\ c \in CallType /\ SameArguments(c) /\ VariablesFit(c)
        /\ c.found = call.found /\ c.failed = call.failed \cup {"redis"}
    BY FailedFields DEF Layers
  <2> HIDE DEF c
  <2>2. Return(c)
    BY <1>4 DEF c
  <2> QED
    BY <1>1, <1>2, <2>1, <2>2, Under, Returns
<1>5. CASE Goto("redis", [call EXCEPT !.todo = call.keys \ call.found])
  <2> DEFINE c == [call EXCEPT !.todo = call.keys \ call.found]
  <2>1. /\ c \in CallType /\ SameArguments(c)
        /\ c.todo = call.keys \ call.found /\ c.batch = call.batch
        /\ c.found = call.found /\ c.failed = call.failed /\ c.result = "none"
    BY <1>1, Under DEF CallType, SameArguments
  <2> HIDE DEF c
  <2>2. Goto("redis", c)
    BY <1>5 DEF c
  <2>3. /\ call'.at = "redis" /\ call'.todo = c.todo /\ call'.batch = call.batch
        /\ call'.found = call.found /\ call'.result = "none"
        /\ call'.op = call.op /\ call'.level = call.level
        /\ call'.keys = call.keys /\ call'.pattern = call.pattern
    BY <1>1, <2>1, <2>2, Steps DEF IInv, Places
  <2>4. CallFits(call)'
    BY <1>1, <2>1, <2>3 DEF CallFits, PlaceFits, VariablesFit
  <2>5. \A layer \in (Includes(call.level) \cap enabled) \ c.failed, j \in call.keys :
          j \in Pending(layer) => j \in Pending(layer)'
    BY <1>2, <2>1, <2>3 DEF Pending
  <2> QED
    BY <1>1, <2>1, <2>2, <2>4, <2>5, GoesOn DEF Places
<1> QED
  BY <1>3, <1>4, <1>5 DEF ToRedis

LEMMA GetFromRedisInv ==
  ASSUME IInv, GetFromRedis
  PROVE  IInv'
<1>1. /\ call.at = "redis" /\ call.op = "getMany" /\ call.result = "none"
      /\ UNCHANGED holds /\ holds' \in [Layers -> [Keys -> Values]] /\ VariablesFit(call)
  BY Under DEF GetFromRedis, At, CallFits
<1>2. \A layer \in Includes(call.level) \cap enabled, j \in call.keys :
        j \in Pending(layer) => j \in call.found \/ (layer = "redis" /\ j \in call.todo)
  BY <1>1, Under DEF Pending, Layers
<1>3. CASE Return(Failed({"redis"}))
  <2> DEFINE c == Failed({"redis"})
  <2>1. /\ c \in CallType /\ SameArguments(c) /\ VariablesFit(c)
        /\ c.found = call.found /\ c.failed = call.failed \cup {"redis"}
    BY FailedFields DEF Layers
  <2> HIDE DEF c
  <2>2. Return(c)
    BY <1>3 DEF c
  <2> QED
    BY <1>1, <1>2, <2>1, <2>2, Under, Returns
<1>4. CASE Return([call EXCEPT !.found = @ \cup {k \in call.todo : holds["redis"][k] # Missing}])
  <2> DEFINE c == [call EXCEPT !.found = @ \cup {k \in call.todo : holds["redis"][k] # Missing}]
  <2>1. /\ c \in CallType /\ SameArguments(c)
        /\ c.todo = call.todo /\ c.batch = call.batch /\ c.failed = call.failed
        /\ c.found = call.found \cup {k \in call.todo : holds["redis"][k] # Missing}
        /\ c.at = call.at
    BY <1>1, Under DEF CallType, SameArguments
  <2> HIDE DEF c
  <2>2. Return(c)
    BY <1>4 DEF c
  <2>3. VariablesFit(c)
    BY <1>1, <2>1 DEF VariablesFit, SameArguments
  <2>4. \A layer \in (Includes(call.level) \cap enabled) \ c.failed, j \in call.keys :
          j \in Pending(layer) /\ j \notin c.found /\ MustTake(layer, j) =>
            holds'[layer][j] = Wanted(call.op)
    BY <1>1, <1>2, <2>1 DEF Wanted
  <2> QED
    BY <1>1, <2>1, <2>2, <2>3, <2>4, Returns
<1> QED
  BY <1>3, <1>4 DEF GetFromRedis

LEMMA SetInRedisInv ==
  ASSUME IInv, NEW k \in Keys, SetInRedis(k)
  PROVE  IInv'
<1> DEFINE c == Through(k)
<1>1. /\ call.at = "redis" /\ call.op = "setMany" /\ call.result = "none" /\ k \in call.todo
      /\ holds' = Put("redis", k, New) /\ VariablesFit(call)
  BY Under DEF SetInRedis, At, CallFits
<1>2. holds' \in [Layers -> [Keys -> Values]]
  BY <1>1, Under DEF Put, Layers, Values
<1>3. /\ c \in CallType /\ SameArguments(c) /\ VariablesFit(c)
      /\ c.todo = call.todo \ {k} /\ c.batch = call.batch /\ c.found = call.found
      /\ c.failed = call.failed /\ c.result = "none"
  BY <1>1, ThroughFields
<1> HIDE DEF c
<1>4. CASE call.todo = {k} /\ Return(c)
  <2>1. \A layer \in (Includes(call.level) \cap enabled) \ c.failed, j \in call.keys :
          j \in Pending(layer) /\ j \notin c.found /\ MustTake(layer, j) =>
            holds'[layer][j] = Wanted(call.op)
    BY <1>1, <1>3, <1>4, Under DEF Pending, Put, Wanted, Layers
  <2> QED
    BY <1>1, <1>2, <1>3, <1>4, <2>1, Returns
<1>5. CASE Goto("redis", c)
  <2>1. /\ call'.at = "redis" /\ call'.todo = c.todo /\ call'.batch = call.batch
        /\ call'.found = call.found /\ call'.result = "none"
        /\ call'.op = call.op /\ call'.level = call.level
        /\ call'.keys = call.keys /\ call'.pattern = call.pattern
    BY <1>2, <1>3, <1>5, Steps DEF IInv, Places
  <2>2. CallFits(call)'
    BY <1>1, <1>3, <2>1, Under DEF CallFits, PlaceFits, VariablesFit
  <2>3. \A layer \in (Includes(call.level) \cap enabled) \ c.failed, j \in call.keys :
          j \in Pending(layer) /\ j \notin Pending(layer)' /\ MustTake(layer, j) =>
            holds'[layer][j] = Wanted(call.op)
    BY <1>1, <1>3, <2>1, Under DEF Pending, Put, Wanted, Layers
  <2> QED
    BY <1>1, <1>2, <1>3, <1>5, <2>2, <2>3, GoesOn DEF Places
<1> QED
  BY <1>4, <1>5 DEF SetInRedis, c

LEMMA PipelineFailsInv ==
  ASSUME IInv, PipelineFails
  PROVE  IInv'
<1> DEFINE c == Failed({"redis"})
<1>1. /\ call.at = "redis" /\ call.result = "none" /\ Return(c)
      /\ UNCHANGED holds /\ holds' \in [Layers -> [Keys -> Values]]
  BY Under DEF PipelineFails, At
<1>2. /\ c \in CallType /\ SameArguments(c) /\ VariablesFit(c)
      /\ c.found = call.found /\ c.failed = call.failed \cup {"redis"}
  BY FailedFields DEF Layers
<1> HIDE DEF c
<1>3. \A layer \in (Includes(call.level) \cap enabled) \ c.failed, j \in call.keys :
        j \in Pending(layer) => j \in c.found
  BY <1>1, <1>2, Under DEF Pending, Layers
<1> QED
  BY <1>1, <1>2, <1>3, Returns

-----------------------------------------------------------------------------
(***************************************************************************)
(* DeleteMany.                                                             *)
(***************************************************************************)
LEMMA WithoutType ==
  ASSUME IInv, NEW layer \in Layers, NEW keys
  PROVE  /\ Without(layer, keys) \in [Layers -> [Keys -> Values]]
         /\ \A k \in Keys \cap keys : Without(layer, keys)[layer][k] = Missing
         /\ \A k \in Keys : k \notin keys => Without(layer, keys)[layer][k] = holds[layer][k]
         /\ \A other \in Layers \ {layer} : Without(layer, keys)[other] = holds[other]
BY Under DEF Without, Values

LEMMA NextKeyInv ==
  ASSUME IInv, NEW k \in Keys, NextKey(k)
  PROVE  IInv'
<1>1. /\ call.at = "next" /\ call.op = "deleteMany" /\ k \in call.todo
      /\ call.result = "none" /\ holds' \in [Layers -> [Keys -> Values]]
      /\ call.level \in Levels
  BY Under DEF NextKey, At, CallFits, PlaceFits, CallType
<1>2. PICK c \in CallType, place \in {"next", "memoryDelete", "redisDelete"} :
        /\ Goto(place, c) /\ SameArguments(c)
        /\ c.todo = call.todo \ {k} /\ c.found = call.found /\ c.result = "none"
        /\ c.batch \subseteq call.keys
        /\ call.failed \subseteq c.failed
        /\ \/ place = "next" /\ c.failed = Layers
           \/ /\ c.batch = {k}
              /\ place = IF "memory" \in Includes(call.level)
                         THEN "memoryDelete" ELSE "redisDelete"
  <2>1. CASE Goto("next", [Through(k) EXCEPT !.failed = Layers])
    <3> DEFINE c == [Through(k) EXCEPT !.failed = Layers]
    <3>1. /\ c \in CallType /\ SameArguments(c)
          /\ c.todo = call.todo \ {k} /\ c.found = call.found /\ c.result = "none"
          /\ c.batch = call.batch /\ c.failed = Layers
      BY <1>1, Under DEF CallType, SameArguments, Through
    <3> HIDE DEF c
    <3>2. Goto("next", c)
      BY <2>1 DEF c
    <3> QED
      BY <3>1, <3>2, Under
  <2>2. CASE Goto(IF "memory" \in Includes(call.level) THEN "memoryDelete" ELSE "redisDelete",
                  [Through(k) EXCEPT !.batch = {k}])
    <3> DEFINE c == [Through(k) EXCEPT !.batch = {k}]
    <3>1. /\ c \in CallType /\ SameArguments(c)
          /\ c.todo = call.todo \ {k} /\ c.found = call.found /\ c.result = "none"
          /\ c.batch = {k} /\ c.failed = call.failed
      BY <1>1, Under DEF CallType, SameArguments, Through
    <3> HIDE DEF c
    <3>2. Goto(IF "memory" \in Includes(call.level) THEN "memoryDelete" ELSE "redisDelete", c)
      BY <2>2 DEF c
    <3>3. c.batch \subseteq call.keys
      BY <1>1, <3>1, Under
    <3> QED
      BY <3>1, <3>2, <3>3
  <2> QED
    BY <2>1, <2>2 DEF NextKey
<1>3. place \in Places
  BY DEF Places
<1>4. /\ call'.at = place /\ call'.todo = c.todo /\ call'.batch = c.batch
      /\ call'.found = call.found /\ call'.result = "none"
      /\ call'.op = call.op /\ call'.level = call.level
      /\ call'.keys = call.keys /\ call'.pattern = call.pattern
  BY <1>1, <1>2, <1>3, Steps DEF IInv
<1>5. CallFits(call)'
  BY <1>1, <1>2, <1>4, Under
     DEF CallFits, PlaceFits, VariablesFit, Levels, Includes, Layers
<1>6. \A layer \in (Includes(call.level) \cap enabled) \ c.failed, j \in call.keys :
        j \in Pending(layer) => j \in Pending(layer)'
  BY <1>1, <1>2, <1>4, Under DEF Pending, Layers
<1> QED
  BY <1>1, <1>2, <1>3, <1>5, <1>6, GoesOn

LEMMA NoMoreKeysInv ==
  ASSUME IInv, NoMoreKeys
  PROVE  IInv'
<1>1. /\ call.at = "next" /\ call.todo = {} /\ call.result = "none"
      /\ holds' \in [Layers -> [Keys -> Values]] /\ VariablesFit(call) /\ Return(call)
  BY Under DEF NoMoreKeys, At, CallFits
<1>2. \A layer, j : j \in Pending(layer) => j \in call.found
  BY <1>1 DEF Pending
<1> QED
  BY <1>1, <1>2, Under, Returns

LEMMA DeleteFromMemoryInv ==
  ASSUME IInv, DeleteFromMemory
  PROVE  IInv'
<1>1. /\ call.at = "memoryDelete" /\ call.op = "deleteMany" /\ call.result = "none"
  BY Under DEF DeleteFromMemory, At, CallFits, PlaceFits
<1>2. PICK c \in CallType, place \in {"next", "redisDelete"} :
        /\ Goto(place, c) /\ SameArguments(c)
        /\ c.todo = call.todo /\ c.batch = call.batch /\ c.found = call.found
        /\ c.result = "none" /\ call.failed \subseteq c.failed
        /\ "redis" \in Includes(call.level) <=> place = "redisDelete"
        /\ "memory" \in c.failed \/ holds' = Without("memory", call.batch)
        /\ holds' \in {holds, Without("memory", call.batch)}
  <2> DEFINE next == IF "redis" \in Includes(call.level) THEN "redisDelete" ELSE "next"
  <2>1. CASE UNCHANGED holds /\ Goto(next, Failed({"memory"}))
    <3> DEFINE c == Failed({"memory"})
    <3>1. /\ c \in CallType /\ SameArguments(c)
          /\ c.todo = call.todo /\ c.batch = call.batch /\ c.found = call.found
          /\ c.result = "none" /\ c.failed = call.failed \cup {"memory"}
      BY <1>1, FailedFields DEF Layers
    <3> HIDE DEF c
    <3>2. Goto(next, c)
      BY <2>1 DEF c
    <3> QED
      BY <2>1, <3>1, <3>2
  <2>2. CASE holds' = Without("memory", call.batch) /\ Goto(next, call)
    BY <1>1, <2>2, Under
  <2> QED
    BY <2>1, <2>2 DEF DeleteFromMemory
<1>3. place \in Places
  BY DEF Places
<1>4. holds' \in [Layers -> [Keys -> Values]]
  BY <1>2, Under, WithoutType DEF Layers
<1>5. /\ call'.at = place /\ call'.todo = call.todo /\ call'.batch = call.batch
      /\ call'.found = call.found /\ call'.result = "none"
      /\ call'.op = call.op /\ call'.level = call.level
      /\ call'.keys = call.keys /\ call'.pattern = call.pattern
  BY <1>2, <1>3, <1>4, Steps DEF IInv
<1>6. CallFits(call)'
  BY <1>1, <1>2, <1>5, Under DEF CallFits, PlaceFits, VariablesFit
<1>7. \A layer \in (Includes(call.level) \cap enabled) \ c.failed, j \in call.keys :
        j \in Pending(layer) /\ j \notin Pending(layer)' /\ MustTake(layer, j) =>
          holds'[layer][j] = Wanted(call.op)
  <2> SUFFICES ASSUME NEW layer \in (Includes(call.level) \cap enabled) \ c.failed,
                      NEW j \in call.keys, j \in Pending(layer), j \notin Pending(layer)'
               PROVE  holds'[layer][j] = Wanted(call.op)
    OBVIOUS
  <2>1. layer = "memory" /\ j \in call.batch
    BY <1>1, <1>2, <1>5, Under DEF Pending, Layers
  <2> QED
    BY <1>1, <1>2, <2>1, Under, WithoutType DEF Wanted, Layers
<1> QED
  BY <1>1, <1>2, <1>3, <1>4, <1>6, <1>7, GoesOn

LEMMA DeleteFromRedisInv ==
  ASSUME IInv, DeleteFromRedis
  PROVE  IInv'
<1>1. /\ call.at = "redisDelete" /\ call.op = "deleteMany" /\ call.result = "none"
  BY Under DEF DeleteFromRedis, At, CallFits, PlaceFits
<1>2. PICK c \in CallType :
        /\ Goto("next", c) /\ SameArguments(c)
        /\ c.todo = call.todo /\ c.batch = call.batch /\ c.found = call.found
        /\ c.result = "none" /\ call.failed \subseteq c.failed
        /\ "redis" \in c.failed \/ holds' = Without("redis", call.batch)
        /\ holds' \in {holds, Without("redis", call.batch)}
  <2>1. CASE holds' \in {holds, Without("redis", call.batch)} /\ Goto("next", Failed({"redis"}))
    <3> DEFINE c == Failed({"redis"})
    <3>1. /\ c \in CallType /\ SameArguments(c)
          /\ c.todo = call.todo /\ c.batch = call.batch /\ c.found = call.found
          /\ c.result = "none" /\ c.failed = call.failed \cup {"redis"}
      BY <1>1, FailedFields DEF Layers
    <3> HIDE DEF c
    <3>2. Goto("next", c)
      BY <2>1 DEF c
    <3> QED
      BY <2>1, <3>1, <3>2
  <2>2. CASE holds' = Without("redis", call.batch) /\ Goto("next", call)
    BY <1>1, <2>2, Under
  <2> QED
    BY <2>1, <2>2 DEF DeleteFromRedis
<1>3. holds' \in [Layers -> [Keys -> Values]] /\ "next" \in Places
  BY <1>2, Under, WithoutType DEF Layers, Places
<1>4. /\ call'.at = "next" /\ call'.todo = call.todo /\ call'.batch = call.batch
      /\ call'.found = call.found /\ call'.result = "none"
      /\ call'.op = call.op /\ call'.level = call.level
      /\ call'.keys = call.keys /\ call'.pattern = call.pattern
  BY <1>2, <1>3, Steps DEF IInv
<1>5. CallFits(call)'
  BY <1>1, <1>2, <1>4, Under DEF CallFits, PlaceFits, VariablesFit
<1>6. \A layer \in (Includes(call.level) \cap enabled) \ c.failed, j \in call.keys :
        j \in Pending(layer) /\ j \notin Pending(layer)' /\ MustTake(layer, j) =>
          holds'[layer][j] = Wanted(call.op)
  <2> SUFFICES ASSUME NEW layer \in (Includes(call.level) \cap enabled) \ c.failed,
                      NEW j \in call.keys, j \in Pending(layer), j \notin Pending(layer)'
               PROVE  holds'[layer][j] = Wanted(call.op)
    OBVIOUS
  <2>1. layer = "redis" /\ j \in call.batch
    BY <1>1, <1>2, <1>4, Under DEF Pending, Layers
  <2> QED
    BY <1>1, <1>2, <2>1, Under, WithoutType DEF Wanted, Layers
<1> QED
  BY <1>1, <1>2, <1>3, <1>5, <1>6, GoesOn

-----------------------------------------------------------------------------
(***************************************************************************)
(* Clear and ClearByPattern.                                               *)
(***************************************************************************)

(***************************************************************************)
(* How the two layers read a pattern, for keys and patterns of any length.  *)
(* An induction is an appeal to the least place where the claim would fail. *)
(***************************************************************************)
\* What HasPrefix and HasSuffix of the two ends of a pattern say, symbol by symbol.
LEMMA Ends ==
  ASSUME NEW key \in Seq(Symbols), NEW pattern \in Seq(Symbols), NEW i \in 1..Len(pattern)
  PROVE  /\ HasPrefix(key, Before(pattern, i)) <=>
              i - 1 <= Len(key) /\ \A j \in 1..(i - 1) : key[j] = pattern[j]
         /\ HasSuffix(key, After(pattern, i)) <=>
              /\ Len(pattern) - i <= Len(key)
              /\ \A j \in (i + 1)..Len(pattern) : key[j + Len(key) - Len(pattern)] = pattern[j]
<1> DEFINE n == Len(pattern)
           m == Len(key)
           before == Before(pattern, i)
           after  == After(pattern, i)
<1>1. n \in Nat /\ m \in Nat
  OBVIOUS
<1>2. /\ before \in Seq(Symbols) /\ Len(before) = i - 1
      /\ \A j \in 1..(i - 1) : before[j] = pattern[j]
  BY <1>1 DEF Before
<1>3. /\ after \in Seq(Symbols) /\ Len(after) = n - i
      /\ \A j \in 1..(n - i) : after[j] = pattern[i + j]
  BY <1>1 DEF After
<1> HIDE DEF before, after
<1>4. ASSUME i - 1 <= m
      PROVE  SubSeq(key, 1, i - 1) = before <=> \A j \in 1..(i - 1) : key[j] = pattern[j]
  <2>1. /\ SubSeq(key, 1, i - 1) \in Seq(Symbols) /\ Len(SubSeq(key, 1, i - 1)) = i - 1
        /\ \A j \in 1..(i - 1) : SubSeq(key, 1, i - 1)[j] = key[j]
    BY <1>1, <1>4
  <2> QED
    BY <1>1, <1>2, <2>1, SeqEqual
<1>5. ASSUME n - i <= m
      PROVE  SubSeq(key, m - (n - i) + 1, m) = after <=>
               \A j \in (i + 1)..n : key[j + m - n] = pattern[j]
  <2> DEFINE tail == SubSeq(key, m - (n - i) + 1, m)
  <2>1. /\ tail \in Seq(Symbols) /\ Len(tail) = n - i
        /\ \A j \in 1..(n - i) : tail[j] = key[j + i + m - n]
    BY <1>1, <1>5
  <2> HIDE DEF tail
  <2>2. tail = after <=> \A j \in 1..(n - i) : key[j + i + m - n] = pattern[j + i]
    <3>1. tail = after <=> \A j \in 1..(n - i) : tail[j] = after[j]
      BY <1>3, <2>1, SeqEqual
    <3>2. \A j \in 1..(n - i) : after[j] = pattern[j + i]
      BY <1>1, <1>3
    <3> QED
      BY <2>1, <3>1, <3>2
  <2>3. ASSUME \A j \in 1..(n - i) : key[j + i + m - n] = pattern[j + i],
               NEW j \in (i + 1)..n
        PROVE  key[j + m - n] = pattern[j]
    <3>1. j - i \in 1..(n - i) /\ (j - i) + i = j
      BY <1>1
    <3> QED
      BY <1>1, <2>3, <3>1
  <2>4. ASSUME \A j \in (i + 1)..n : key[j + m - n] = pattern[j],
               NEW j \in 1..(n - i)
        PROVE  key[j + i + m - n] = pattern[j + i]
    BY <1>1, <2>4
  <2> QED
    BY <2>2, <2>3, <2>4 DEF tail
<1> QED
  BY <1>1, <1>2, <1>3, <1>4, <1>5 DEF HasPrefix, HasSuffix, before, after

\* A key that has the two ends of a pattern, one after the other, is taken by the glob.
LEMMA CutGlobs ==
  ASSUME NEW key \in Seq(Symbols), NEW pattern \in Seq(Symbols), Literal(pattern),
         NEW i \in 1..Len(pattern), pattern[i] = Star,
         Len(pattern) - 1 <= Len(key),
         HasPrefix(key, Before(pattern, i)), HasSuffix(key, After(pattern, i))
  PROVE  Glob(key, pattern)
<1> DEFINE n == Len(pattern)
           m == Len(key)
           cut == [j \in 0..n |-> IF j < i THEN j ELSE j + m - n]
<1>1. n \in Nat /\ m \in Nat /\ i \in 1..n
  OBVIOUS
<1>2. cut \in [0..n -> 0..m] /\ cut[0] = 0 /\ cut[n] = m
  BY <1>1
<1>3. ASSUME NEW j \in 1..n
      PROVE  IF pattern[j] = Star
             THEN cut[j - 1] <= cut[j]
             ELSE cut[j] = cut[j - 1] + 1 /\ key[cut[j]] \in Meaning(pattern[j])
  <2>1. cut[j - 1] <= cut[j]
    BY <1>1
  <2>2. ASSUME pattern[j] # Star
        PROVE  cut[j] = cut[j - 1] + 1 /\ key[cut[j]] = pattern[j]
    <3>1. CASE j < i
      BY <1>1, <3>1, Ends
    <3>2. CASE j > i
      BY <1>1, <3>2, Ends
    <3> QED
      BY <1>1, <2>2, <3>1, <3>2
  <2> QED
    BY <2>1, <2>2 DEF Literal, Meaning
<1> HIDE DEF cut
<1> QED
  BY <1>2, <1>3 DEF Glob, IsCut

\* What matchPattern takes beyond the glob: the keys in which the ends overlap.
THEOREM TakesNoMore ==
  ASSUME NEW key \in Seq(Symbols), NEW pattern \in Seq(Symbols), Literal(pattern),
         MatchPattern(key, pattern)
  PROVE  Glob(key, pattern) \/ Overlaps(key, pattern)
<1> DEFINE n == Len(pattern)
<1>0. n \in Nat /\ Len(key) \in Nat
  OBVIOUS
<1>1. ASSUME NEW i \in Stars(pattern), HasPrefix(key, Before(pattern, i)),
             HasSuffix(key, After(pattern, i)), n - 1 <= Len(key)
      PROVE  Glob(key, pattern)
  BY <1>1, CutGlobs DEF Stars
<1>2. CASE n \in Stars(pattern) /\ HasPrefix(key, Before(pattern, n))
  <2>1. n \in 1..n
    BY <1>2 DEF Stars
  <2>2. n - 1 <= Len(key) /\ HasSuffix(key, After(pattern, n))
    BY <1>0, <1>2, <2>1, Ends
  <2> QED
    BY <1>1, <1>2, <2>2
<1>3. CASE 1 \in Stars(pattern) /\ HasSuffix(key, After(pattern, 1))
  <2>1. 1 \in 1..n
    BY <1>3 DEF Stars
  <2>2. n - 1 <= Len(key) /\ HasPrefix(key, Before(pattern, 1))
    BY <1>0, <1>3, <2>1, Ends
  <2> QED
    BY <1>1, <1>3, <2>2
<1>4. CASE \E i \in Stars(pattern) :
             /\ Stars(pattern) = {i}
             /\ HasPrefix(key, Before(pattern, i)) /\ HasSuffix(key, After(pattern, i))
  BY <1>0, <1>1, <1>4 DEF Overlaps, HasOneStar
<1>5. CASE key = pattern
  <2> DEFINE cut == [j \in 0..n |-> j]
  <2>1. cut \in [0..n -> 0..Len(key)] /\ cut[0] = 0 /\ cut[n] = Len(key)
    BY <1>0, <1>5
  <2>2. \A j \in 1..n : cut[j - 1] <= cut[j] /\ cut[j] = cut[j - 1] + 1 /\ key[cut[j]] = pattern[j]
    BY <1>0, <1>5
  <2> HIDE DEF cut
  <2> QED
    BY <2>1, <2>2 DEF Glob, IsCut, Literal, Meaning
<1>6. CASE pattern = <<Star>>
  <2> DEFINE cut == [j \in 0..1 |-> IF j = 0 THEN 0 ELSE Len(key)]
  <2>1. cut \in [0..1 -> 0..Len(key)] /\ cut[0] = 0 /\ cut[1] = Len(key)
    BY <1>0
  <2> HIDE DEF cut
  <2>2. IsCut(cut, key, pattern) /\ Len(pattern) = 1
    BY <1>0, <1>6, <2>1 DEF IsCut
  <2> QED
    BY <2>1, <2>2 DEF Glob
<1> QED
  BY <1>2, <1>3, <1>4, <1>5, <1>6 DEF MatchPattern

\* A function that grows by one at each step, from the least place where it would not.
LEMMA Counts ==
  ASSUME NEW k \in Nat, NEW l \in Nat, NEW f, \A i \in k..l : f[i] \in Int,
         \A i \in (k + 1)..l : f[i] = f[i - 1] + 1
  PROVE  \A i \in k..l : f[i] = f[k] + i - k
<1> DEFINE Bad == {i \in k..l : f[i] # f[k] + i - k}
<1> SUFFICES ASSUME Bad # {} PROVE FALSE
  OBVIOUS
<1>1. Bad \subseteq Nat
  OBVIOUS
<1> HIDE DEF Bad
<1>2. PICK i \in Bad : \A j \in Bad : ~(<<j, i>> \in OpToRel(<, Nat))
  BY <1>1, WFMin, NatLessThanWellFounded, Zenon
<1>3. \A j \in Bad : ~(j < i)
  BY <1>1, <1>2 DEF OpToRel
<1>4. i \in k..l /\ f[i] # f[k] + i - k
  BY DEF Bad
<1>5. CASE i = k
  BY <1>4, <1>5
<1>6. CASE i # k
  <2>1. i \in (k + 1)..l /\ i - 1 \in k..l /\ i - 1 < i
    BY <1>4, <1>6
  <2>2. f[i - 1] = f[k] + (i - 1) - k
    BY <1>3, <2>1 DEF Bad
  <2>3. f[i] = f[i - 1] + 1 /\ f[k] \in Int
    BY <2>1
  <2> QED
    BY <1>4, <2>1, <2>2, <2>3
<1> QED
  BY <1>5, <1>6

\* matchPattern leaves out nothing that the glob of a Simple pattern takes.
THEOREM TakesAll ==
  ASSUME NEW key \in Seq(Symbols), NEW pattern \in Seq(Symbols), Simple(pattern),
         Glob(key, pattern)
  PROVE  MatchPattern(key, pattern)
<1> DEFINE n == Len(pattern)
           m == Len(key)
<1>0. n \in Nat /\ m \in Nat
  OBVIOUS
<1>1. PICK cut \in [0..n -> 0..m] : IsCut(cut, key, pattern)
  BY DEF Glob
<1>2. cut[0] = 0 /\ cut[n] = m /\ \A i \in 0..n : cut[i] \in Int
  BY <1>0, <1>1 DEF IsCut
<1>3. ASSUME NEW i \in 1..n, pattern[i] # Star
      PROVE  cut[i] = cut[i - 1] + 1 /\ key[cut[i]] = pattern[i]
  <2>1. cut[i] = cut[i - 1] + 1 /\ key[cut[i]] \in Meaning(pattern[i])
    BY <1>1, <1>3 DEF IsCut
  <2>2. Meaning(pattern[i]) = {pattern[i]}
    BY DEF Simple, Literal, Meaning
  <2> QED
    BY <2>1, <2>2
<1>4. CASE Stars(pattern) = {}
  <2>1. \A i \in 1..n : pattern[i] # Star
    BY <1>4 DEF Stars
  <2>2. \A i \in (0 + 1)..n : cut[i] = cut[i - 1] + 1
    BY <1>3, <2>1
  <2>3. \A i \in 0..n : cut[i] = i
    <3>1. 0 \in Nat /\ n \in Nat
      BY <1>0
    <3>2. \A i \in 0..n : cut[i] = cut[0] + i - 0
      BY <1>2, <2>2, <3>1, Counts
    <3> QED
      BY <1>2, <3>1, <3>2
  <2>4. m = n
    BY <1>0, <1>2, <2>3
  <2>5. \A i \in 1..n : key[i] = pattern[i]
    BY <1>0, <1>3, <2>1, <2>3
  <2>6. key = pattern
    BY <2>4, <2>5, SeqEqual
  <2>7. pattern # <<Star>>
    BY <1>0, <2>1
  <2> QED
    BY <1>4, <2>6, <2>7 DEF MatchPattern
<1>5. ASSUME NEW s \in Stars(pattern), Stars(pattern) = {s}
      PROVE  MatchPattern(key, pattern)
  <2>1. s \in 1..n /\ \A i \in 1..n : i # s => pattern[i] # Star
    BY <1>5 DEF Stars
  <2>2. \A i \in 0..(s - 1) : cut[i] = i
    <3>1. \A i \in (0 + 1)..(s - 1) : i \in 1..n /\ i # s
      BY <1>0, <2>1
    <3>2. \A i \in (0 + 1)..(s - 1) : cut[i] = cut[i - 1] + 1
      BY <1>3, <2>1, <3>1
    <3>3. 0 \in Nat /\ s - 1 \in Nat /\ \A i \in 0..(s - 1) : cut[i] \in Int
      BY <1>0, <1>2, <2>1
    <3>4. \A i \in 0..(s - 1) : cut[i] = cut[0] + i - 0
      BY <3>2, <3>3, Counts
    <3> QED
      BY <1>2, <3>3, <3>4
  <2>3. \A i \in s..n : cut[i] = cut[s] + i - s
    <3>1. \A i \in (s + 1)..n : i \in 1..n /\ i # s
      BY <1>0, <2>1
    <3>2. \A i \in (s + 1)..n : cut[i] = cut[i - 1] + 1
      BY <1>3, <2>1, <3>1
    <3>3. s \in Nat /\ \A i \in s..n : cut[i] \in Int
      BY <1>0, <1>2, <2>1
    <3> QED
      BY <1>0, <3>2, <3>3, Counts
  <2>4. cut[s] \in Int /\ cut[s] = s + m - n
    <3>1. s \in 0..n /\ n \in s..n
      BY <1>0, <2>1
    <3>2. m = cut[s] + n - s /\ cut[s] \in Int
      BY <1>2, <2>3, <3>1
    <3> QED
      BY <1>0, <2>1, <3>2
  <2>5. s - 1 <= s + m - n
    <3>1. cut[s - 1] <= cut[s] /\ cut[s - 1] = s - 1
      BY <1>0, <1>1, <1>5, <2>1, <2>2 DEF IsCut, Stars
    <3> QED
      BY <2>4, <3>1
  <2>6. HasPrefix(key, Before(pattern, s))
    <3>1. ASSUME NEW j \in 1..(s - 1) PROVE key[j] = pattern[j]
      <4>1. j \in 1..n /\ j # s /\ cut[j] = j
        BY <1>0, <2>1, <2>2
      <4> QED
        BY <1>3, <2>1, <4>1
    <3>2. s - 1 <= m
      BY <1>0, <2>1, <2>5
    <3> QED
      BY <2>1, <3>1, <3>2, Ends
  <2>7. HasSuffix(key, After(pattern, s))
    <3>1. ASSUME NEW j \in (s + 1)..n PROVE key[j + m - n] = pattern[j]
      <4>1. j \in 1..n /\ j # s /\ cut[j] = j + m - n
        BY <1>0, <2>1, <2>3, <2>4
      <4> QED
        BY <1>3, <2>1, <4>1
    <3>2. n - s <= m
      BY <1>0, <2>1, <2>5
    <3> QED
      BY <2>1, <3>1, <3>2, Ends
  <2> QED
    BY <1>5, <2>1, <2>6, <2>7 DEF MatchPattern
<1> QED
  BY <1>4, <1>5 DEF Simple, HasOneStar

\* What both mean by their patterns, for the keys and the patterns of a call.
LEMMA PatternsTake ==
  ASSUME NEW pattern \in Given, NEW k \in Keys
  PROVE  /\ pattern = <<Star>> => Glob(k, pattern)
         /\ Simple(pattern) /\ Glob(k, pattern) => MatchPattern(k, pattern)
         /\ Literal(pattern) /\ MatchPattern(k, pattern) =>
              Glob(k, pattern) \/ Overlaps(k, pattern)
<1>1. k \in Seq(Symbols) /\ pattern \in Seq(Symbols)
  <2>1. <<Star>> \in Seq(Symbols)
    BY SymbolsAssumption
  <2> QED
    BY <2>1, KeysAssumption DEF Given
<1>2. pattern = <<Star>> => MatchPattern(k, pattern) /\ Literal(pattern)
  BY SymbolsAssumption DEF MatchPattern, Literal
<1>3. pattern = <<Star>> => ~Overlaps(k, pattern)
  BY <1>1 DEF Overlaps
<1> QED
  BY <1>1, <1>2, <1>3, TakesAll, TakesNoMore

(***************************************************************************)
(* From memory to Redis: nothing that is due in memory may be left.        *)
(***************************************************************************)
LEMMA AfterMemoryInv ==
  ASSUME IInv, call.at \in {"reset", "iterate"}, UNCHANGED holds,
         NEW c \in CallType, AfterMemory(c), SameArguments(c),
         c.at = call.at, c.batch = call.batch, c.found = call.found, c.result = call.result,
         c.todo \subseteq call.keys, call.failed \subseteq c.failed,
         call.batch = {}, "memory" \in c.failed \/ call.todo = {}
  PROVE  IInv'
<1>1. /\ call.op \in {"clear", "clearByPattern"} /\ call.result = "none" /\ call.found = {}
      /\ holds' \in [Layers -> [Keys -> Values]] /\ VariablesFit(call)
  BY Under DEF CallFits, PlaceFits, VariablesFit
<1>2. \A layer \in (Includes(call.level) \cap enabled) \ c.failed, j \in call.keys :
        j \in Pending(layer) => layer = "redis"
  BY <1>1, Under DEF Pending, Layers
<1>3. CASE "redis" \in Includes(call.level) /\ Goto("scan", [c EXCEPT !.todo = c.keys])
  <2> DEFINE d == [c EXCEPT !.todo = c.keys]
  <2>1. /\ d \in CallType /\ SameArguments(d) /\ d.todo = call.keys /\ d.batch = call.batch
        /\ d.found = {} /\ d.failed = c.failed /\ d.result = "none"
    BY <1>1 DEF CallType, SameArguments
  <2> HIDE DEF d
  <2>2. Goto("scan", d)
    BY <1>3 DEF d
  <2>3. /\ call'.at = "scan" /\ call'.todo = call.keys /\ call'.batch = call.batch
        /\ call'.found = {} /\ call'.result = "none"
        /\ call'.op = call.op /\ call'.level = call.level
        /\ call'.keys = call.keys /\ call'.pattern = call.pattern
    BY <1>1, <2>1, <2>2, Steps DEF IInv, Places
  <2>4. CallFits(call)'
    BY <1>1, <1>3, <2>3 DEF CallFits, PlaceFits, VariablesFit
  <2>5. \A layer \in (Includes(call.level) \cap enabled) \ d.failed, j \in call.keys :
          j \in Pending(layer) => j \in Pending(layer)'
    BY <1>2, <2>1, <2>3 DEF Pending
  <2> QED
    BY <1>1, <2>1, <2>2, <2>4, <2>5, GoesOn DEF Places
<1>4. CASE "redis" \notin Includes(call.level) /\ Return(c)
  <2>1. VariablesFit(c)
    BY <1>1, Under DEF VariablesFit, SameArguments, CallFits
  <2> QED
    BY <1>1, <1>2, <1>4, <2>1, Returns
<1> QED
  BY <1>3, <1>4 DEF AfterMemory, SameArguments

LEMMA MemoryIsClosedInv ==
  ASSUME IInv, MemoryIsClosed
  PROVE  IInv'
<1> DEFINE c == Failed({"memory"})
<1>1. /\ c \in CallType /\ SameArguments(c) /\ c.at = call.at
      /\ c.todo = call.todo /\ c.batch = call.batch /\ c.found = call.found
      /\ c.result = call.result /\ c.failed = call.failed \cup {"memory"}
  BY FailedFields DEF Layers
<1> HIDE DEF c
<1>2. AfterMemory(c) /\ call.at \in {"reset", "iterate"} /\ UNCHANGED holds
  BY DEF MemoryIsClosed, At, c
<1>3. call.batch = {}
  BY Under DEF MemoryIsClosed, At, CallFits, VariablesFit
<1> QED
  BY <1>1, <1>2, <1>3, Under, AfterMemoryInv

LEMMA MemoryIsClearedInv ==
  ASSUME IInv, MemoryIsCleared
  PROVE  IInv'
BY Under, AfterMemoryInv DEF MemoryIsCleared, At

LEMMA ResetShardInv ==
  ASSUME IInv, NEW k \in Keys, ResetShard(k)
  PROVE  IInv'
<1> DEFINE c == Through(k)
<1>1. /\ call.at = "reset" /\ call.op = "clear" /\ call.result = "none" /\ k \in call.todo
      /\ holds' = Without("memory", {k}) /\ Goto("reset", c)
  BY Under DEF ResetShard, At, CallFits, PlaceFits
<1>2. /\ c \in CallType /\ SameArguments(c) /\ VariablesFit(c)
      /\ c.todo = call.todo \ {k} /\ c.batch = call.batch /\ c.found = call.found
      /\ c.failed = call.failed /\ c.result = "none"
  BY <1>1, ThroughFields
<1> HIDE DEF c
<1>3. /\ holds' \in [Layers -> [Keys -> Values]] /\ holds'["memory"][k] = Missing
  BY <1>1, WithoutType DEF Layers
<1>4. /\ call'.at = "reset" /\ call'.todo = c.todo /\ call'.batch = call.batch
      /\ call'.found = call.found /\ call'.result = "none"
      /\ call'.op = call.op /\ call'.level = call.level
      /\ call'.keys = call.keys /\ call'.pattern = call.pattern
  BY <1>1, <1>2, <1>3, Steps DEF IInv, Places
<1>5. CallFits(call)'
  BY <1>1, <1>2, <1>4, Under DEF CallFits, PlaceFits, VariablesFit
<1>6. \A layer \in (Includes(call.level) \cap enabled) \ c.failed, j \in call.keys :
        j \in Pending(layer) /\ j \notin Pending(layer)' /\ MustTake(layer, j) =>
          holds'[layer][j] = Wanted(call.op)
  BY <1>1, <1>2, <1>3, <1>4, Under DEF Pending, Wanted, Layers
<1> QED
  BY <1>1, <1>2, <1>3, <1>5, <1>6, GoesOn DEF Places

LEMMA IterateInv ==
  ASSUME IInv, NEW k \in Keys, Iterate(k)
  PROVE  IInv'
<1>1. /\ call.at = "iterate" /\ call.op = "clearByPattern" /\ call.result = "none"
      /\ k \in call.todo /\ UNCHANGED holds /\ holds' \in [Layers -> [Keys -> Values]]
      /\ call.pattern \in Given
  BY Under DEF Iterate, At, CallFits, PlaceFits, CallType
<1>2. PICK c \in CallType :
        /\ Goto("iterate", c) /\ SameArguments(c)
        /\ c.todo = call.todo \ {k} /\ c.found = call.found /\ c.failed = call.failed
        /\ c.result = "none"
        /\ \/ c.batch = call.batch \cup {k} /\ MatchPattern(k, call.pattern)
           \/ /\ c.batch = call.batch
              /\ holds["memory"][k] = Missing \/ ~MatchPattern(k, call.pattern)
  <2> DEFINE takes == holds["memory"][k] # Missing /\ MatchPattern(k, call.pattern)
             c == IF takes THEN [Through(k) EXCEPT !.batch = @ \cup {k}] ELSE Through(k)
  <2>1. /\ c \in CallType /\ SameArguments(c)
        /\ c.todo = call.todo \ {k} /\ c.found = call.found /\ c.failed = call.failed
        /\ c.result = "none"
        /\ c.batch = IF takes THEN call.batch \cup {k} ELSE call.batch
    BY <1>1, Under DEF CallType, SameArguments, Through
  <2>2. Goto("iterate", c)
    BY DEF Iterate
  <2> HIDE DEF c
  <2> QED
    BY <2>1, <2>2
<1>3. /\ call'.at = "iterate" /\ call'.todo = c.todo /\ call'.batch = c.batch
      /\ call'.found = call.found /\ call'.result = "none"
      /\ call'.op = call.op /\ call'.level = call.level
      /\ call'.keys = call.keys /\ call'.pattern = call.pattern
  BY <1>1, <1>2, Steps DEF IInv, Places
<1>4. CallFits(call)'
  BY <1>1, <1>2, <1>3, Under DEF CallFits, PlaceFits, VariablesFit
<1>5. \A layer \in (Includes(call.level) \cap enabled) \ c.failed, j \in call.keys :
        j \in Pending(layer) /\ j \notin Pending(layer)' /\ MustTake(layer, j) =>
          holds'[layer][j] = Wanted(call.op)
  <2> SUFFICES ASSUME NEW layer \in (Includes(call.level) \cap enabled) \ c.failed,
                      NEW j \in call.keys, j \in Pending(layer), j \notin Pending(layer)',
                      MustTake(layer, j)
               PROVE  holds'[layer][j] = Wanted(call.op)
    OBVIOUS
  <2>1. layer = "memory" /\ j = k /\ c.batch = call.batch
    BY <1>1, <1>2, <1>3, Under DEF Pending, Layers
  <2>2. MatchPattern(k, call.pattern)
    BY <1>1, <2>1, PatternsTake DEF MustTake
  <2>3. holds["memory"][k] = Missing
    BY <1>1, <1>2, <1>3, <2>1, <2>2 DEF Pending
  <2> QED
    BY <1>1, <2>1, <2>3 DEF Wanted
<1> QED
  BY <1>1, <1>2, <1>4, <1>5, GoesOn DEF Places

LEMMA DeleteCollectedInv ==
  ASSUME IInv, NEW k \in Keys, DeleteCollected(k)
  PROVE  IInv'
<1> DEFINE c == [call EXCEPT !.batch = @ \ {k}]
<1>1. /\ call.at = "iterate" /\ call.op = "clearByPattern" /\ call.result = "none"
      /\ k \in call.batch /\ holds' = Without("memory", {k}) /\ Goto("iterate", c)
  BY Under DEF DeleteCollected, At, CallFits, PlaceFits
<1>2. /\ c \in CallType /\ SameArguments(c)
      /\ c.todo = call.todo /\ c.batch = call.batch \ {k} /\ c.found = call.found
      /\ c.failed = call.failed /\ c.result = "none"
  BY <1>1, Under DEF CallType, SameArguments
<1> HIDE DEF c
<1>3. /\ holds' \in [Layers -> [Keys -> Values]] /\ holds'["memory"][k] = Missing
  BY <1>1, WithoutType DEF Layers
<1>4. /\ call'.at = "iterate" /\ call'.todo = call.todo /\ call'.batch = c.batch
      /\ call'.found = call.found /\ call'.result = "none"
      /\ call'.op = call.op /\ call'.level = call.level
      /\ call'.keys = call.keys /\ call'.pattern = call.pattern
  BY <1>1, <1>2, <1>3, Steps DEF IInv, Places
<1>5. CallFits(call)'
  BY <1>1, <1>2, <1>4, Under DEF CallFits, PlaceFits, VariablesFit
<1>6. \A layer \in (Includes(call.level) \cap enabled) \ c.failed, j \in call.keys :
        j \in Pending(layer) /\ j \notin Pending(layer)' /\ MustTake(layer, j) =>
          holds'[layer][j] = Wanted(call.op)
  BY <1>1, <1>2, <1>3, <1>4, Under DEF Pending, Wanted, Layers
<1> QED
  BY <1>1, <1>2, <1>3, <1>5, <1>6, GoesOn DEF Places

(***************************************************************************)
(* A page of SCAN: what is left of it after the filter was missing from     *)
(* Redis at that moment, or is not due.                                    *)
(***************************************************************************)
LEMMA ScanInv ==
  ASSUME IInv, Scan
  PROVE  IInv'
<1>1. /\ call.at = "scan" /\ call.op \in {"clear", "clearByPattern"} /\ call.result = "none"
      /\ UNCHANGED holds /\ holds' \in [Layers -> [Keys -> Values]]
      /\ "redis" \in Includes(call.level) /\ call.pattern \in Given
      /\ call.op = "clear" => call.pattern = <<Star>>
  BY Under DEF Scan, At, CallFits, PlaceFits, VariablesFit, CallType
<1> DEFINE taken(page) == {k \in page : holds["redis"][k] # Missing /\ Glob(k, call.pattern)}
<1>2. PICK page \in SUBSET call.todo :
        Goto("del", [call EXCEPT !.todo = @ \ page, !.batch = taken(page)])
  BY DEF Scan
<1> DEFINE c == [call EXCEPT !.todo = @ \ page, !.batch = taken(page)]
<1>3. /\ c \in CallType /\ SameArguments(c)
      /\ c.todo = call.todo \ page /\ c.batch = taken(page) /\ c.found = call.found
      /\ c.failed = call.failed /\ c.result = "none"
  BY <1>1, Under DEF CallType, SameArguments
<1>4. Goto("del", c)
  BY <1>2
<1> HIDE DEF c
<1>5. /\ call'.at = "del" /\ call'.todo = c.todo /\ call'.batch = c.batch
      /\ call'.found = call.found /\ call'.result = "none"
      /\ call'.op = call.op /\ call'.level = call.level
      /\ call'.keys = call.keys /\ call'.pattern = call.pattern
  BY <1>1, <1>3, <1>4, Steps DEF IInv, Places
<1>6. CallFits(call)'
  BY <1>1, <1>3, <1>5, Under DEF CallFits, PlaceFits, VariablesFit
<1>7. \A layer \in (Includes(call.level) \cap enabled) \ c.failed, j \in call.keys :
        j \in Pending(layer) /\ j \notin Pending(layer)' /\ MustTake(layer, j) =>
          holds'[layer][j] = Wanted(call.op)
  <2> SUFFICES ASSUME NEW layer \in (Includes(call.level) \cap enabled) \ c.failed,
                      NEW j \in call.keys, j \in Pending(layer), j \notin Pending(layer)',
                      MustTake(layer, j)
               PROVE  holds'[layer][j] = Wanted(call.op)
    OBVIOUS
  <2>1. layer = "redis" /\ j \in page /\ j \notin taken(page)
    <3> HIDE DEF taken
    <3> QED
      BY <1>1, <1>3, <1>5, Under DEF Pending, Layers
  <2>2. Glob(j, call.pattern)
    BY <1>1, <2>1, PatternsTake, Under DEF MustTake
  <2> QED
    BY <1>1, <2>1, <2>2 DEF Wanted
<1> QED
  BY <1>1, <1>3, <1>4, <1>6, <1>7, GoesOn DEF Places

LEMMA DeletePageInv ==
  ASSUME IInv, DeletePage
  PROVE  IInv'
<1> DEFINE c == [call EXCEPT !.batch = {}]
<1>1. /\ call.at = "del" /\ call.op \in {"clear", "clearByPattern"} /\ call.result = "none"
      /\ holds' = Without("redis", call.batch) /\ "redis" \in Includes(call.level)
      /\ \/ call.todo = {} /\ Return(c)
         \/ Goto("scan", c)
  BY Under DEF DeletePage, At, CallFits, PlaceFits
<1>2. /\ c \in CallType /\ SameArguments(c) /\ VariablesFit(c)
      /\ c.todo = call.todo /\ c.batch = {} /\ c.found = call.found
      /\ c.failed = call.failed /\ c.result = "none"
  BY <1>1, Under DEF CallType, SameArguments, VariablesFit, CallFits
<1> HIDE DEF c
<1>3. /\ holds' \in [Layers -> [Keys -> Values]]
      /\ \A k \in call.batch : holds'["redis"][k] = Missing
  BY <1>1, Under, WithoutType DEF Layers
<1>4. \A layer \in Includes(call.level) \cap enabled, j \in call.keys :
        j \in Pending(layer) =>
          j \in call.found \/ (layer = "redis" /\ j \in call.todo \cup call.batch)
  BY <1>1, Under DEF Pending, Layers
<1>5. CASE call.todo = {} /\ Return(c)
  <2>1. \A layer \in (Includes(call.level) \cap enabled) \ c.failed, j \in call.keys :
          j \in Pending(layer) /\ j \notin c.found /\ MustTake(layer, j) =>
            holds'[layer][j] = Wanted(call.op)
    BY <1>1, <1>2, <1>3, <1>4, <1>5 DEF Wanted
  <2> QED
    BY <1>1, <1>2, <1>3, <1>5, <2>1, Returns
<1>6. CASE Goto("scan", c)
  <2>1. /\ call'.at = "scan" /\ call'.todo = call.todo /\ call'.batch = {}
        /\ call'.found = call.found /\ call'.result = "none"
        /\ call'.op = call.op /\ call'.level = call.level
        /\ call'.keys = call.keys /\ call'.pattern = call.pattern
    BY <1>2, <1>3, <1>6, Steps DEF IInv, Places
  <2>2. CallFits(call)'
    BY <1>1, <2>1, Under DEF CallFits, PlaceFits, VariablesFit
  <2>3. \A layer \in (Includes(call.level) \cap enabled) \ c.failed, j \in call.keys :
          j \in Pending(layer) /\ j \notin Pending(layer)' /\ MustTake(layer, j) =>
            holds'[layer][j] = Wanted(call.op)
    BY <1>1, <1>3, <1>4, <2>1 DEF Wanted, Pending
  <2> QED
    BY <1>1, <1>2, <1>3, <1>6, <2>2, <2>3, GoesOn DEF Places
<1> QED
  BY <1>1, <1>5, <1>6

LEMMA ScanEndsInv ==
  ASSUME IInv, ScanEnds
  PROVE  IInv'
<1>1. /\ call.at \in {"scan", "del"} /\ call.result = "none"
  BY Under DEF ScanEnds, At
<1>2. \A layer \in Includes(call.level) \cap enabled, j \in call.keys :
        j \in Pending(layer) => j \in call.found \/ layer = "redis"
  BY <1>1, Under DEF Pending, Layers
<1>3. CASE /\ holds' \in {holds, Without("redis", call.batch)}
           /\ Return([Failed({"redis"}) EXCEPT !.batch = {}])
  <2> DEFINE c == [Failed({"redis"}) EXCEPT !.batch = {}]
  <2>1. /\ c \in CallType /\ SameArguments(c) /\ VariablesFit(c)
        /\ c.found = call.found /\ c.failed = call.failed \cup {"redis"}
    BY <1>1, Under DEF CallType, SameArguments, VariablesFit, CallFits, Failed, Layers
  <2> HIDE DEF c
  <2>2. Return(c)
    BY <1>3 DEF c
  <2>3. holds' \in [Layers -> [Keys -> Values]]
    BY <1>3, Under, WithoutType DEF Layers
  <2> QED
    BY <1>1, <1>2, <2>1, <2>2, <2>3, Returns
<1>4. CASE "redis" \notin enabled /\ UNCHANGED holds /\ Return(call)
  <2>1. VariablesFit(call)
    BY Under DEF CallFits
  <2> QED
    BY <1>1, <1>2, <1>4, <2>1, Under, Returns
<1> QED
  BY <1>3, <1>4 DEF ScanEnds

-----------------------------------------------------------------------------
(***************************************************************************)
(* What everybody else does takes nothing back.                            *)
(***************************************************************************)
LEMMA OthersInv ==
  ASSUME IInv, Others
  PROVE  IInv'
<1>1. /\ UNCHANGED <<enabled, call>> /\ seen \subseteq seen' /\ seen' \subseteq Layers \X Keys
  BY DEF Others, AsWanted, IInv, TypeOK
<1>2. holds' \in [Layers -> [Keys -> Values]]
  BY Under DEF Others, Values, Valid
<1>3. TypeOK'
  BY <1>1, <1>2 DEF IInv, TypeOK
<1>4. Progress'
  BY <1>1 DEF IInv, Progress, Served, Pending, MustTake
<1> QED
  BY <1>1, <1>3, <1>4 DEF IInv, CallFits, PlaceFits, VariablesFit, ResultFits, Reported

LEMMA InitInv == Init => IInv
<1> SUFFICES ASSUME Init PROVE IInv
  OBVIOUS
<1>1. /\ call.at = "begin" /\ call.todo = call.keys /\ call.batch = {} /\ call.found = {}
      /\ call.failed = {} /\ call.result = "none" /\ call \in CallType
      /\ call.op = "clear" => call.pattern = <<Star>>
  <2>1. call \in Calls
    BY DEF Init
  <2>2. Valid \in SUBSET Keys
    BY DEF Valid
  <2> QED
    BY <2>1, <2>2 DEF Calls, NewCall, CallType, Ops, KeyOps, Given, Places
<1>2. TypeOK
  BY <1>1 DEF Init, TypeOK, Values
<1>3. CallFits(call)
  BY <1>1 DEF CallFits, PlaceFits, VariablesFit
<1>4. Progress
  BY <1>1 DEF Progress, Pending, Served, Includes, CallType, Levels, Layers
<1> QED
  BY <1>1, <1>2, <1>3, <1>4 DEF IInv, ResultFits

LEMMA NextInv == IInv /\ [Next]_vars => IInv'
<1> SUFFICES ASSUME IInv, [Next]_vars PROVE IInv'
  OBVIOUS
<1>1. ASSUME NEW k \in Keys,
             \/ GetFromMemory(k) \/ SetInMemory(k) \/ SetInRedis(k) \/ NextKey(k)
             \/ ResetShard(k) \/ Iterate(k) \/ DeleteCollected(k)
      PROVE  IInv'
  BY <1>1, GetFromMemoryInv, SetInMemoryInv, SetInRedisInv, NextKeyInv, ResetShardInv,
     IterateInv, DeleteCollectedInv
<1>2. CASE Begin \/ ToRedis \/ GetFromRedis \/ PipelineFails
  BY <1>2, BeginInv, ToRedisInv, GetFromRedisInv, PipelineFailsInv
<1>3. CASE NoMoreKeys \/ DeleteFromMemory \/ DeleteFromRedis
  BY <1>3, NoMoreKeysInv, DeleteFromMemoryInv, DeleteFromRedisInv
<1>4. CASE MemoryIsClosed \/ MemoryIsCleared \/ Scan \/ DeletePage \/ ScanEnds
  BY <1>4, MemoryIsClosedInv, MemoryIsClearedInv, ScanInv, DeletePageInv, ScanEndsInv
<1>5. CASE Others
  BY <1>5, OthersInv
<1>6. CASE Close \/ UNCHANGED vars
  BY <1>6 DEF Close, vars, IInv, TypeOK, CallFits, PlaceFits, VariablesFit, Progress, Served,
              Pending, MustTake, ResultFits, Reported
<1> QED
  BY <1>1, <1>2, <1>3, <1>4, <1>5, <1>6 DEF Next

LEMMA Invariance == Spec => []IInv
BY InitInv, NextInv, PTL DEF Spec

-----------------------------------------------------------------------------
(***************************************************************************)
(* When the call returns, each layer that reported no error has had all of  *)
(* it (EachLayerIsServed).                                                 *)
(***************************************************************************)
THEOREM LayersAreServed == Spec => []EachLayerIsServed
<1>1. IInv => EachLayerIsServed
  BY DEF IInv, EachLayerIsServed, At, Carried, Progress, Pending, MustTake, CallFits, VariablesFit,
         ResultFits, Reported
<1> QED
  BY <1>1, Invariance, PTL

(***************************************************************************)
(* GetMany overlooks no key (GetManyFindsAll).                             *)
(***************************************************************************)
THEOREM NothingIsOverlooked == Spec => []GetManyFindsAll
<1>1. IInv => GetManyFindsAll
  BY DEF IInv, GetManyFindsAll, At, Carried, Progress, Pending, MustTake
<1> QED
  BY <1>1, Invariance, PTL

\* SparesTheRest of one step.
Spares ==
  \A layer \in Layers, k \in Keys :
    holds'[layer][k] # holds[layer][k] =>
      MayTake(layer, k) /\ holds'[layer][k] = Missing

LEMMA RemovesItsOwn ==
  ASSUME IInv, NEW layer \in Includes(call.level), NEW keys \in SUBSET call.keys,
         holds' = Without(layer, keys),
         \A k \in keys : MayTake(layer, k)
  PROVE  Spares
<1>1. layer \in Layers
  BY Under DEF CallType, Levels, Includes, Layers
<1> QED
  BY <1>1, Under, WithoutType DEF Spares

(***************************************************************************)
(* A call that removes keys takes none but its own (SparesTheRest).         *)
(***************************************************************************)
THEOREM RemovalsSpareTheRest == Spec => SparesTheRest
<1>1. ASSUME IInv, [Next]_vars, call' # call, call.op \notin {"getMany", "setMany"}
      PROVE  Spares
  <2>0. CallFits(call) /\ call.batch \subseteq call.keys /\ call.todo \subseteq call.keys
    BY <1>1, Under
  <2>1. CASE UNCHANGED holds
    BY <2>1 DEF Spares
  <2>2. ASSUME NEW k \in Keys, ResetShard(k) \/ DeleteCollected(k)
        PROVE  Spares
    <3>1. /\ holds' = Without("memory", {k}) /\ "memory" \in Includes(call.level)
          /\ k \in call.keys
          /\ call.op = "clearByPattern" => MatchPattern(k, call.pattern)
      BY <2>0, <2>2 DEF ResetShard, DeleteCollected, At, CallFits, PlaceFits, VariablesFit
    <3>2. MayTake("memory", k)
      BY <1>1, <3>1, PatternsTake, Under DEF MayTake, CallType
    <3> QED
      BY <1>1, <3>1, <3>2, RemovesItsOwn
  <2>3. ASSUME NEW layer \in Layers, holds' = Without(layer, call.batch),
               DeleteFromMemory \/ DeleteFromRedis \/ DeletePage \/ ScanEnds,
               layer = IF DeleteFromMemory THEN "memory" ELSE "redis"
        PROVE  Spares
    <3>1. /\ layer \in Includes(call.level)
          /\ \A k \in call.batch : call.op = "clearByPattern" => Glob(k, call.pattern)
      BY <2>0, <2>3 DEF DeleteFromMemory, DeleteFromRedis, DeletePage, ScanEnds, At,
                       CallFits, PlaceFits, VariablesFit
    <3> QED
      BY <1>1, <2>0, <2>3, <3>1, RemovesItsOwn DEF MayTake
  <2>4. \/ UNCHANGED holds
        \/ \E k \in Keys : ResetShard(k) \/ DeleteCollected(k)
        \/ \E layer \in Layers :
             /\ holds' = Without(layer, call.batch)
             /\ DeleteFromMemory \/ DeleteFromRedis \/ DeletePage \/ ScanEnds
             /\ layer = IF DeleteFromMemory THEN "memory" ELSE "redis"
    <3>1. CASE \E k \in Keys : \/ GetFromMemory(k) \/ SetInMemory(k) \/ SetInRedis(k)
                              \/ NextKey(k) \/ Iterate(k)
      BY <1>1, <3>1 DEF GetFromMemory, SetInMemory, SetInRedis, NextKey, Iterate, Asks
    <3>2. CASE DeleteFromMemory \/ DeleteFromRedis \/ DeletePage \/ ScanEnds
      BY <3>2 DEF DeleteFromMemory, DeleteFromRedis, DeletePage, ScanEnds, Layers, At
    <3>3. CASE UNCHANGED vars \/ Others \/ Close
      BY <1>1, <3>3 DEF vars, Others, Close
    <3> QED
      BY <1>1, <3>1, <3>2, <3>3
         DEF Next, Begin, ToRedis, GetFromRedis, PipelineFails, NoMoreKeys, MemoryIsClosed,
             MemoryIsCleared, Scan
  <2> QED
    BY <2>1, <2>2, <2>3, <2>4
<1>2. IInv /\ [Next]_vars =>
        [call' # call /\ call.op \notin {"getMany", "setMany"} =>
           \A layer \in Layers, k \in Keys :
             holds'[layer][k] # holds[layer][k] =>
               MayTake(layer, k) /\ holds'[layer][k] = Missing]_vars
  BY <1>1 DEF Spares
<1> QED
  BY <1>2, Invariance, PTL DEF Spec, SparesTheRest
=============================================================================
