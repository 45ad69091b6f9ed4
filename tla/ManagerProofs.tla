----------------------------- MODULE ManagerProofs -----------------------------
(***************************************************************************)
(* Theorems of Manager and ManagerRaces, for any number of clients, values, *)
(* background writes and queued writes: the singleflight group, the factory *)
(* that runs once, and the races that alone can divide the layers.          *)
(***************************************************************************)
EXTENDS ManagerRaces, FiniteSetTheorems, TLAPS

CallType ==
  [op : Readers \cup Writers \cup {"delete", "none"}, level : {"memory", "redis", "both"},
   async : BOOLEAN, value : 0..MaxValue, memErr : BOOLEAN]

(***************************************************************************)
(* The places of a goroutine and the operation it is in fit together.      *)
(***************************************************************************)
PlaceFits(c) ==
  /\ pc[c] \in {"memGet", "redisGet"} => call[c].op \in Readers
  /\ pc[c] \in {"memSet", "redisSet"} => call[c].op \in Writers
  /\ pc[c] \in {"memDel", "redisDel"} => call[c].op = "delete"
  /\ pc[c] \in {"join", "waiting"} => call[c].op = "lookup"
  /\ pc[c] = "factory" => call[c].op = "check"
  /\ pc[c] = "idle" => call[c].op = "none"
  /\ call[c].op \in Writers \cup {"lookup", "check"} => call[c].value > 0

Calls ==
  /\ call \in [Clients -> CallType]
  /\ DOMAIN pc = Clients
  /\ made \in 0..MaxValue
  /\ \A c \in Clients : PlaceFits(c)

Leads(c) == call[c].op \in {"check", "fill"}

Flight ==
  /\ flight \in Clients \cup {"none"}
  /\ \A c \in Clients : flight = c <=> Leads(c)
  /\ Waiting # {} => flight # "none"

FInv == Calls /\ Flight

-----------------------------------------------------------------------------
(***************************************************************************)
(* How a step of an operation ends.                                        *)
(***************************************************************************)
LEMMA CallFields ==
  ASSUME FInv, NEW c \in Clients
  PROVE  /\ call[c] \in CallType /\ NoCall \in CallType
         /\ NoCall.op = "none" /\ NoCall.value = 0
BY ManagerAssumption DEF FInv, Calls, CallType, NoCall

LEMMA ContinueInv ==
  ASSUME FInv, NEW c \in Clients, NEW place, Continue(c, place), UNCHANGED made,
         \/ place = "redisGet" /\ call[c].op \in Readers
         \/ place = "redisSet" /\ call[c].op \in Writers
         \/ place = "redisDel" /\ call[c].op = "delete"
         \/ place = "join" /\ call[c].op = "lookup"
         \/ place = "factory" /\ call[c].op = "check"
         \/ place = "waiting" /\ call[c].op = "lookup" /\ flight # "none"
  PROVE  FInv'
<1>1. /\ pc' = [pc EXCEPT ![c] = place] /\ UNCHANGED <<flight, call>>
  BY DEF Continue
<1>2. Calls'
  BY <1>1 DEF FInv, Calls, PlaceFits
<1>3. Flight'
  BY <1>1 DEF FInv, Calls, Flight, Leads, Waiting
<1> QED
  BY <1>2, <1>3 DEF FInv

LEMMA ReturnInv ==
  ASSUME FInv, NEW c \in Clients, NEW r, Return(c, r), UNCHANGED made, ~Leads(c)
  PROVE  FInv'
<1>1. /\ pc' = [pc EXCEPT ![c] = "idle"] /\ call' = [call EXCEPT ![c] = NoCall]
      /\ UNCHANGED flight
  BY DEF Return
<1>2. Calls'
  BY <1>1, CallFields DEF FInv, Calls, PlaceFits, Writers
<1>3. Flight'
  BY <1>1, CallFields DEF FInv, Calls, Flight, Leads, Waiting
<1> QED
  BY <1>2, <1>3 DEF FInv

LEMMA LandInv ==
  ASSUME FInv, NEW c \in Clients, NEW r, Land(c, r), UNCHANGED made, Leads(c)
  PROVE  FInv'
<1>1. /\ pc' = [d \in Clients |-> IF d = c \/ d \in Waiting THEN "idle" ELSE pc[d]]
      /\ call' = [d \in Clients |-> IF d = c \/ d \in Waiting THEN NoCall ELSE call[d]]
      /\ flight' = "none"
  BY DEF Land
<1>2. Calls'
  BY <1>1, CallFields DEF FInv, Calls, PlaceFits, Writers
<1>3. Flight'
  BY <1>1, CallFields, ManagerAssumption DEF FInv, Calls, Flight, Leads, Waiting
<1> QED
  BY <1>2, <1>3 DEF FInv

LEMMA EndGetInv ==
  ASSUME FInv, NEW c \in Clients, NEW r, EndGet(c, r), UNCHANGED made
  PROVE  FInv'
BY ContinueInv, ReturnInv, LandInv DEF EndGet, Leads

LEMMA EndWriteInv ==
  ASSUME FInv, NEW c \in Clients, NEW r, EndWrite(c, r), UNCHANGED made,
         call[c].op \in Writers
  PROVE  FInv'
BY ReturnInv, LandInv DEF EndWrite, Leads, Writers

-----------------------------------------------------------------------------
LEMMA BeginInv ==
  ASSUME FInv, NEW c \in Clients, NEW op \in Ops, NEW level \in Levels, NEW async \in Async,
         Begin(c, op, level, async)
  PROVE  FInv'
<1> DEFINE first == IF op = "getOrCreate" THEN "lookup" ELSE op
           makes == first \in Writers \cup {"lookup"}
           value == IF makes THEN made' ELSE 0
           new   == [op |-> first, level |-> level, async |-> async, value |-> value,
                     memErr |-> FALSE]
<1>1. /\ pc[c] = "idle" /\ pc' = [pc EXCEPT ![c] = Starts(first, level)]
      /\ call' = [call EXCEPT ![c] = new] /\ UNCHANGED flight
      /\ made' = IF makes THEN made + 1 ELSE made
      /\ makes => made < MaxValue
  BY DEF Begin, Step
<1>2. /\ first \in {"get", "getMany", "set", "setMany", "delete", "lookup"}
      /\ level \in {"memory", "redis", "both"} /\ async \in BOOLEAN
  BY ManagerAssumption
<1>3. made' \in 0..MaxValue /\ value \in 0..MaxValue /\ (makes => value > 0)
  BY <1>1, ManagerAssumption DEF FInv, Calls
<1>4. new \in CallType
  BY <1>2, <1>3 DEF CallType, Readers, Writers
<1>5. /\ Starts(first, level) \in {"memGet", "redisGet", "memSet", "redisSet", "memDel", "redisDel"}
      /\ Starts(first, level) \in {"memGet", "redisGet"} => first \in Readers
      /\ Starts(first, level) \in {"memSet", "redisSet"} => first \in Writers
      /\ Starts(first, level) \in {"memDel", "redisDel"} => first = "delete"
  BY <1>2 DEF Starts, Readers, Writers
<1>6. Calls'
  <2>1. call' \in [Clients -> CallType] /\ DOMAIN pc' = Clients
    BY <1>1, <1>4 DEF FInv, Calls
  <2>2. ASSUME NEW d \in Clients PROVE PlaceFits(d)'
    <3>1. CASE d = c
      <4>1. /\ pc'[d] = Starts(first, level) /\ call'[d].op = first /\ call'[d].value = value
        BY <1>1, <3>1 DEF FInv, Calls
      <4> HIDE DEF first, value
      <4>2. first \in Writers \cup {"lookup", "check"} => value > 0
        BY <1>2, <1>3 DEF value, first
      <4> QED
        BY <1>5, <4>1, <4>2 DEF PlaceFits
    <3>2. CASE d # c
      BY <1>1, <3>2 DEF FInv, Calls, PlaceFits
    <3> QED
      BY <3>1, <3>2
  <2> QED
    BY <1>3, <2>1, <2>2 DEF Calls
<1>7. Flight'
  BY <1>1, <1>2, <1>5 DEF FInv, Calls, PlaceFits, Flight, Leads, Waiting
<1> QED
  BY <1>6, <1>7 DEF FInv

LEMMA LeadInv ==
  ASSUME FInv, NEW c \in Clients, Lead(c)
  PROVE  FInv'
<1>1. /\ pc[c] = "join" /\ pc' = [pc EXCEPT ![c] = Starts("check", call[c].level)]
      /\ flight = "none" /\ flight' = c /\ UNCHANGED made
      /\ call' = [call EXCEPT ![c].op = "check"]
  BY DEF Lead, Step
<1>2. Starts("check", call[c].level) \in {"memGet", "redisGet"}
  BY DEF Starts, Readers
<1>3. /\ call'[c].op = "check" /\ call'[c].value = call[c].value /\ call'[c] \in CallType
      /\ \A d \in Clients \ {c} : call'[d] = call[d]
  BY <1>1, CallFields DEF FInv, Calls, CallType, Readers
<1>4. Calls'
  BY <1>1, <1>2, <1>3 DEF FInv, Calls, PlaceFits, Readers, Writers
<1>5. Flight'
  BY <1>1, <1>2, <1>3, ManagerAssumption DEF FInv, Calls, Flight, Leads, Waiting
<1> QED
  BY <1>4, <1>5 DEF FInv

LEMMA CreateInv ==
  ASSUME FInv, NEW c \in Clients, Create(c)
  PROVE  FInv'
<1>1. /\ pc[c] = "factory" /\ pc' = [pc EXCEPT ![c] = Starts("fill", call[c].level)]
      /\ UNCHANGED <<flight, made>> /\ call[c].op = "check"
      /\ call' = [call EXCEPT ![c].op = "fill"]
  BY DEF Create, Step, FInv, Calls, PlaceFits
<1>2. Starts("fill", call[c].level) \in {"memSet", "redisSet"}
  BY DEF Starts, Readers
<1>3. /\ call'[c].op = "fill" /\ call'[c].value = call[c].value /\ call'[c] \in CallType
      /\ \A d \in Clients \ {c} : call'[d] = call[d]
  BY <1>1, CallFields DEF FInv, Calls, CallType, Writers
<1>4. Calls'
  BY <1>1, <1>2, <1>3 DEF FInv, Calls, PlaceFits, Readers, Writers
<1>5. Flight'
  BY <1>1, <1>2, <1>3 DEF FInv, Calls, Flight, Leads, Waiting
<1> QED
  BY <1>4, <1>5 DEF FInv

LEMMA RefusedInv ==
  ASSUME FInv, NEW c \in Clients, RefusedByMemory(c), pc[c] = "memSet", UNCHANGED made
  PROVE  FInv'
<1>0. call[c].op \in Writers
  BY DEF FInv, Calls, PlaceFits
<1>1. CASE EndWrite(c, "failed")
  BY <1>0, <1>1, EndWriteInv
<1>2. CASE /\ Step(c, "memSet", "redisSet") /\ call' = [call EXCEPT ![c].memErr = TRUE]
           /\ UNCHANGED flight
  <2>1. /\ call'[c].op = call[c].op /\ call'[c].value = call[c].value /\ call'[c] \in CallType
        /\ \A d \in Clients \ {c} : call'[d] = call[d]
        /\ pc' = [pc EXCEPT ![c] = "redisSet"]
    BY <1>2, CallFields DEF FInv, Calls, CallType, Step
  <2>2. Calls'
    BY <1>0, <1>2, <2>1 DEF FInv, Calls, PlaceFits
  <2>3. Flight'
    BY <1>2, <2>1 DEF FInv, Calls, Flight, Leads, Waiting
  <2> QED
    BY <2>2, <2>3 DEF FInv
<1> QED
  BY <1>1, <1>2 DEF RefusedByMemory

LEMMA ProceedInv ==
  ASSUME FInv, NEW c \in Clients, Proceed(c)
  PROVE  FInv'
<1>0. PlaceFits(c)
  BY DEF FInv, Calls
<1>1. CASE GetMemory(c)
  BY <1>0, <1>1, EndGetInv, ContinueInv DEF GetMemory, PlaceFits
<1>2. CASE GetRedis(c)
  BY <1>2, EndGetInv DEF GetRedis
<1>3. CASE SetMemory(c)
  BY <1>0, <1>3, EndWriteInv, ContinueInv, RefusedInv DEF SetMemory, AfterMemory, PlaceFits
<1>4. CASE SetRedis(c)
  BY <1>0, <1>4, EndWriteInv, ContinueInv DEF SetRedis, PlaceFits
<1>5. CASE SetRedisAsync(c)
  BY <1>0, <1>5, EndWriteInv DEF SetRedisAsync, PlaceFits
<1>6. CASE DeleteMemory(c) \/ DeleteRedis(c)
  BY <1>0, <1>6, ReturnInv, ContinueInv DEF DeleteMemory, DeleteRedis, PlaceFits, Leads
<1>7. CASE Join(c)
  BY <1>0, <1>7, ContinueInv DEF Join, PlaceFits
<1>8. CASE CreateFails(c)
  BY <1>0, <1>8, LandInv DEF CreateFails, PlaceFits, Leads
<1> QED
  BY <1>1, <1>2, <1>3, <1>4, <1>5, <1>6, <1>7, <1>8, LeadInv, CreateInv DEF Proceed

LEMMA FlightInit == Init => FInv
<1> SUFFICES ASSUME Init PROVE FInv
  OBVIOUS
<1>1. NoCall \in CallType /\ NoCall.op = "none" /\ NoCall.value = 0
  BY ManagerAssumption DEF CallType, NoCall
<1> QED
  BY <1>1, ManagerAssumption
     DEF Init, FInv, Calls, PlaceFits, Flight, Leads, Waiting, Writers

LEMMA FlightNext == FInv /\ [Next]_vars => FInv'
<1> SUFFICES ASSUME FInv, [Next]_vars PROVE FInv'
  OBVIOUS
<1>1. CASE UNCHANGED <<made, flight, pc, call>>
  BY <1>1 DEF FInv, Calls, PlaceFits, Flight, Leads, Waiting
<1>2. CASE \/ \E v \in Values : Backfill(v)
           \/ WriteAsync \/ Evict \/ Expire \/ Reconnect \/ UNCHANGED vars
  BY <1>1, <1>2 DEF Backfill, WriteAsync, Evict, Expire, Reconnect, vars
<1> QED
  BY <1>2, BeginInv, ProceedInv DEF Next

LEMMA FlightInvariance == Spec => []FInv
BY FlightInit, FlightNext, PTL DEF Spec

(***************************************************************************)
(* However many goroutines call GetOrCreate at once, the flight in progress *)
(* has one leader, who is in it, and whoever waits waits for a flight that  *)
(* somebody leads (FlightIsLed).                                           *)
(***************************************************************************)
THEOREM FlightHasALeader == Spec => []FlightIsLed
<1>1. FInv => FlightIsLed
  BY DEF FInv, Calls, PlaceFits, Flight, Leads, FlightIsLed
<1> QED
  BY <1>1, FlightInvariance, PTL

-----------------------------------------------------------------------------
(***************************************************************************)
(* What the layers and the background writes hold.                         *)
(***************************************************************************)
Contents ==
  /\ memory \in Values \cup {Missing} /\ redis \in Values \cup {Missing}
  /\ writeQueue \in Seq(Values)
  /\ backfills \in [Values -> Nat]
  /\ created \in Nat /\ raced \in BOOLEAN /\ lost \in BOOLEAN

(***************************************************************************)
(* As long as there was no race, at most one write is under way, to both    *)
(* layers, while no value is copied, and what the layers hold follows it.   *)
(***************************************************************************)
Quiet ==
  /\ \A c, d \in Writing : c = d
  /\ Writing # {} \/ CopyInFlight => writeQueue = <<>>
  /\ Len(writeQueue) <= 1
  /\ CopyInFlight => Writing = {}
  /\ \A c \in Writing : call[c].level = "both"

\* What Redis holds, or held until its TTL was over.
InRedis(v) == v = redis \/ (redis = Missing /\ v = expired)

WriteFits(c) ==
  /\ pc[c] \in {"memSet", "memDel"} => memory = Missing \/ InRedis(memory)
  /\ pc[c] = "redisSet" => memory \in {Missing, call[c].value}
  /\ pc[c] = "redisDel" => memory = Missing

NoRaceYet ==
  /\ Quiet
  /\ connected
  /\ \A v \in Values : backfills[v] > 0 => InRedis(v)
  /\ Settled => memory = Missing \/ InRedis(memory)
  /\ writeQueue # <<>> => memory \in {Missing, Head(writeQueue)}
  /\ \A c \in Clients : WriteFits(c)

RInv == FInv /\ Contents /\ (~raced => NoRaceYet)

LEMMA Counting ==
  ASSUME NEW W \in SUBSET Clients, NEW n \in Nat, ~(Cardinality(W) + n > 1)
  PROVE  (\A c, d \in W : c = d) /\ (W # {} => n = 0) /\ n <= 1
<1>1. IsFiniteSet(W) /\ Cardinality(W) \in Nat
  BY ManagerAssumption, FS_Subset, FS_CardinalityType
<1>2. ASSUME NEW c \in W, NEW d \in W, c # d PROVE FALSE
  <2>1. {c, d} \subseteq W /\ Cardinality({c, d}) = 2
    <3>1. IsFiniteSet({c}) /\ Cardinality({c}) = 1
      BY FS_Singleton
    <3>2. {c} \cup {d} = {c, d} /\ d \notin {c}
      BY <1>2
    <3>3. Cardinality({c} \cup {d}) = Cardinality({c}) + 1
      BY <3>1, <3>2, FS_AddElement
    <3> QED
      BY <3>1, <3>2, <3>3
  <2>2. Cardinality({c, d}) <= Cardinality(W)
    BY <1>1, <2>1, FS_Subset
  <2> QED
    BY <1>1, <2>1, <2>2
<1>3. W # {} => Cardinality(W) # 0
  BY <1>1, FS_EmptySet
<1> QED
  BY <1>1, <1>2, <1>3

LEMMA QuietUnlessRace == Contents /\ ~Race => Quiet
<1> SUFFICES ASSUME Contents, ~Race PROVE Quiet
  OBVIOUS
<1>1. Writing \in SUBSET Clients /\ Len(writeQueue) \in Nat
  BY DEF Writing, Contents
<1>2. ~(Cardinality(Writing) + Len(writeQueue) > 1)
  BY DEF Race, WritesOverlap
<1>3. Len(writeQueue) = 0 => writeQueue = <<>>
  BY DEF Contents
<1> QED
  BY <1>1, <1>2, <1>3, Counting DEF Quiet, Race, OneLayerOnly

LEMMA QuietNext == Contents' /\ ~Race' => Quiet'
BY QuietUnlessRace, PTL

(***************************************************************************)
(* What a goroutine's step does to the others: those that wait for its      *)
(* flight return with it.                                                  *)
(***************************************************************************)
Elsewhere(c) ==
  \A d \in Clients \ {c} : \/ pc'[d] = pc[d] /\ call'[d] = call[d]
                           \/ pc[d] = "waiting" /\ pc'[d] = "idle" /\ call'[d] = NoCall

LEMMA Ends ==
  ASSUME FInv, NEW c \in Clients, NEW r, Return(c, r) \/ Land(c, r)
  PROVE  pc'[c] = "idle" /\ call'[c] = NoCall /\ Elsewhere(c)
BY DEF Return, Land, Elsewhere, Waiting, FInv, Calls

LEMMA Continues ==
  ASSUME FInv, NEW c \in Clients, NEW place, Continue(c, place)
  PROVE  pc'[c] = place /\ call' = call /\ Elsewhere(c)
BY DEF Continue, Elsewhere, FInv, Calls

LEMMA EndGetFields ==
  ASSUME FInv, NEW c \in Clients, NEW r, EndGet(c, r)
  PROVE  /\ \/ pc'[c] = "idle" /\ call'[c] = NoCall
            \/ pc'[c] = "join" /\ call'[c] = call[c]
            \/ pc'[c] = "factory" /\ call'[c] = call[c] /\ call[c].op = "check" /\ r # "hit"
         /\ Elsewhere(c)
BY Ends, Continues DEF EndGet

LEMMA EndWriteFields ==
  ASSUME FInv, NEW c \in Clients, NEW r, EndWrite(c, r)
  PROVE  pc'[c] = "idle" /\ call'[c] = NoCall /\ Elsewhere(c)
BY Ends DEF EndWrite

LEMMA ContentsNext == FInv /\ Contents /\ RacesNext => Contents'
<1> SUFFICES ASSUME FInv, Contents, RacesNext PROVE Contents'
  OBVIOUS
<1>0. raced' \in BOOLEAN /\ lost' \in BOOLEAN
  BY DEF RacesNext, Contents
<1>1. CASE UNCHANGED <<memory, redis, writeQueue, backfills, created>>
  BY <1>0, <1>1 DEF Contents
<1>2. ASSUME NEW c \in Clients, SetMemory(c) \/ SetRedis(c) \/ SetRedisAsync(c)
      PROVE  Contents'
  <2>1. call[c].value \in Values
    BY <1>2, CallFields
       DEF SetMemory, SetRedis, SetRedisAsync, FInv, Calls, PlaceFits, CallType, Values
  <2>2. /\ memory' \in {memory, call[c].value} /\ redis' \in {redis, call[c].value}
        /\ writeQueue' \in {writeQueue, Append(writeQueue, call[c].value)}
        /\ UNCHANGED <<backfills, created>>
    BY <1>2 DEF SetMemory, SetRedis, SetRedisAsync
  <2>3. writeQueue' \in Seq(Values)
    BY <2>1, <2>2 DEF Contents
  <2>4. memory' \in Values \cup {Missing} /\ redis' \in Values \cup {Missing}
    BY <2>1, <2>2 DEF Contents
  <2> QED
    BY <1>0, <2>2, <2>3, <2>4 DEF Contents
<1>3. ASSUME NEW c \in Clients, NEW op, NEW level, NEW async, Begin(c, op, level, async)
      PROVE  Contents'
  BY <1>1, <1>3 DEF Begin
<1>4. ASSUME NEW c \in Clients,
             GetMemory(c) \/ DeleteMemory(c) \/ DeleteRedis(c) \/ Join(c) \/ Lead(c)
               \/ Create(c) \/ CreateFails(c)
      PROVE  Contents'
  <2>1. /\ memory' \in {memory, Missing} /\ redis' \in {redis, Missing}
        /\ UNCHANGED <<writeQueue, backfills>> /\ created' \in {created, created + 1}
    BY <1>4 DEF GetMemory, DeleteMemory, DeleteRedis, Join, Lead, Create, CreateFails
  <2> QED
    BY <1>0, <2>1 DEF Contents
<1>5. ASSUME NEW c \in Clients, GetRedis(c)
      PROVE  Contents'
  <2>1. /\ UNCHANGED <<memory, redis, writeQueue, created>>
        /\ \/ UNCHANGED backfills
           \/ redis # Missing /\ backfills' = [backfills EXCEPT ![redis] = @ + 1]
    BY <1>5 DEF GetRedis, Backfilled, BackfillAll
  <2> QED
    BY <1>0, <2>1 DEF Contents
<1>6. ASSUME NEW v \in Values, Backfill(v)
      PROVE  Contents'
  BY <1>0, <1>6 DEF Backfill, Contents
<1>7. CASE WriteAsync
  <2>1. writeQueue # <<>> /\ Head(writeQueue) \in Values /\ Tail(writeQueue) \in Seq(Values)
    BY <1>7 DEF WriteAsync, Contents
  <2> QED
    BY <1>0, <1>7, <2>1 DEF WriteAsync, Contents
<1>8. CASE Evict \/ Expire \/ Reconnect
  BY <1>0, <1>8 DEF Evict, Expire, Reconnect, Contents, Missing
<1> QED
  BY <1>2, <1>3, <1>4, <1>5, <1>6, <1>7, <1>8 DEF RacesNext, Next, Proceed

-----------------------------------------------------------------------------
(***************************************************************************)
(* Without failures, and with room for a queued write, the layers follow    *)
(* the one write that is under way.                                        *)
(***************************************************************************)
NothingFails == RedisEnabled /\ Faults \cap {"memory", "redis"} = {} /\ MaxPendingWrites > 0

\* A step of c that changes neither layer, and may make c a writer.
LEMMA ReaderSteps ==
  ASSUME FInv, NoRaceYet, Quiet', NEW c \in Clients, Elsewhere(c),
         UNCHANGED <<memory, redis, connected, writeQueue, expired>>,
         pc[c] \notin {"memSet", "redisSet", "memDel", "redisDel"},
         pc'[c] \in {"redisSet", "redisDel"} => call'[c].level # "both",
         \A v \in Values : backfills'[v] > 0 => InRedis(v)
  PROVE  NoRaceYet'
<1>1. ASSUME NEW d \in Writing PROVE d \in Writing' /\ d # c
  BY <1>1 DEF Elsewhere, Writing
<1>2. Settled' => Settled
  BY <1>1 DEF Settled
<1>3. ASSUME NEW d \in Clients PROVE WriteFits(d)'
  <2>1. CASE d # c
    BY <2>1 DEF NoRaceYet, WriteFits, Elsewhere, InRedis
  <2>2. CASE d = c /\ c \in Writing'
    <3>1. Settled
      BY <1>1, <2>2 DEF Quiet, Settled
    <3>2. pc'[c] \notin {"redisSet", "redisDel"}
      BY <2>2 DEF Quiet
    <3> QED
      BY <2>2, <3>1, <3>2 DEF NoRaceYet, WriteFits, InRedis
  <2>3. CASE d = c /\ c \notin Writing'
    BY <2>3 DEF Writing, WriteFits
  <2> QED
    BY <2>1, <2>2, <2>3
<1> QED
  BY <1>2, <1>3 DEF NoRaceYet, InRedis

LEMMA ReadersKeep ==
  ASSUME FInv, Contents, NoRaceYet, Quiet', UNCHANGED expired, NEW c \in Clients,
         GetMemory(c) \/ GetRedis(c) \/ Join(c) \/ Lead(c) \/ Create(c) \/ CreateFails(c)
  PROVE  NoRaceYet'
<1>0. \A v \in Values : backfills[v] > 0 => InRedis(v)
  BY DEF NoRaceYet
<1>1. CASE GetMemory(c)
  <2>1. /\ pc[c] = "memGet" /\ UNCHANGED <<memory, redis, connected, writeQueue, backfills>>
        /\ Elsewhere(c) /\ pc'[c] \in {"idle", "join", "factory", "redisGet"}
    BY <1>1, EndGetFields, Continues DEF GetMemory
  <2> QED
    BY <1>0, <2>1, ReaderSteps
<1>2. CASE GetRedis(c)
  <2>1. /\ pc[c] = "redisGet" /\ UNCHANGED <<memory, redis, connected, writeQueue>>
        /\ Elsewhere(c) /\ pc'[c] \in {"idle", "join", "factory"}
        /\ \/ UNCHANGED backfills
           \/ redis # Missing /\ backfills' = [backfills EXCEPT ![redis] = @ + 1]
    BY <1>2, EndGetFields DEF GetRedis, Backfilled, BackfillAll
  <2>2. \A v \in Values : backfills'[v] > 0 => InRedis(v)
    BY <1>0, <2>1 DEF Contents, InRedis
  <2> QED
    BY <2>1, <2>2, ReaderSteps
<1>3. CASE Join(c)
  <2>1. /\ pc[c] = "join" /\ UNCHANGED <<memory, redis, connected, writeQueue, backfills>>
        /\ Elsewhere(c) /\ pc'[c] = "waiting"
    BY <1>3, Continues DEF Join
  <2> QED
    BY <1>0, <2>1, ReaderSteps
<1>4. CASE CreateFails(c)
  <2>1. /\ pc[c] = "factory" /\ UNCHANGED <<memory, redis, connected, writeQueue, backfills>>
        /\ Elsewhere(c) /\ pc'[c] = "idle"
    BY <1>4, Ends DEF CreateFails
  <2> QED
    BY <1>0, <2>1, ReaderSteps
<1>5. CASE Lead(c)
  <2>1. /\ pc[c] = "join" /\ UNCHANGED <<memory, redis, connected, writeQueue, backfills>>
        /\ Elsewhere(c) /\ pc'[c] \in {"memGet", "redisGet"}
    BY <1>5 DEF Lead, Step, Starts, Readers, Elsewhere, FInv, Calls
  <2> QED
    BY <1>0, <2>1, ReaderSteps
<1>6. CASE Create(c)
  <2>1. /\ pc[c] = "factory" /\ UNCHANGED <<memory, redis, connected, writeQueue, backfills>>
        /\ Elsewhere(c) /\ pc'[c] \in {"memSet", "redisSet"}
        /\ call'[c].level = call[c].level
        /\ pc'[c] = "redisSet" => call[c].level # "both"
    BY <1>6, CallFields
       DEF Create, Step, Starts, Readers, Elsewhere, FInv, Calls, CallType, IncludesMemory
  <2> QED
    BY <1>0, <2>1, ReaderSteps
<1> QED
  BY <1>1, <1>2, <1>3, <1>4, <1>5, <1>6

LEMMA BeginKeeps ==
  ASSUME FInv, Contents, NoRaceYet, Quiet', UNCHANGED expired,
         NEW c \in Clients, NEW op, NEW level, NEW async,
         Begin(c, op, level, async)
  PROVE  NoRaceYet'
<1>1. /\ pc[c] = "idle" /\ UNCHANGED <<memory, redis, connected, writeQueue, backfills>>
      /\ Elsewhere(c) /\ call'[c].level = level
      /\ pc'[c] = Starts(IF op = "getOrCreate" THEN "lookup" ELSE op, level)
  BY DEF Begin, Step, Elsewhere, FInv, Calls
<1>2. pc'[c] \in {"redisSet", "redisDel"} => call'[c].level # "both"
  BY <1>1 DEF Starts, IncludesMemory
<1> QED
  BY <1>1, <1>2, ReaderSteps DEF NoRaceYet

\* A step of the only writer.
LEMMA WritersKeep ==
  ASSUME FInv, Contents, NoRaceYet, Quiet', UNCHANGED expired, NothingFails,
         NEW c \in Clients,
         SetMemory(c) \/ SetRedis(c) \/ SetRedisAsync(c) \/ DeleteMemory(c) \/ DeleteRedis(c)
  PROVE  NoRaceYet'
<1>1. /\ pc[c] \in {"memSet", "redisSet", "memDel", "redisDel"} /\ c \in Writing
      /\ Writing = {c} /\ writeQueue = <<>> /\ call[c].level = "both"
      /\ connected /\ WriteFits(c)
  <2>1. pc[c] \in {"memSet", "redisSet", "memDel", "redisDel"}
    BY DEF SetMemory, SetRedis, SetRedisAsync, DeleteMemory, DeleteRedis
  <2>2. c \in Writing
    BY <2>1 DEF Writing
  <2> QED
    BY <2>1, <2>2 DEF NoRaceYet, Quiet
<1>2. \A v \in Values : ~(backfills[v] > 0)
  BY <1>1 DEF NoRaceYet, Quiet, CopyInFlight
<1>3. "memory" \notin Faults /\ "redis" \notin Faults /\ MaxPendingWrites > 0
  BY DEF NothingFails
<1>4. ASSUME Elsewhere(c), NEW d \in Clients \ {c}
      PROVE  pc'[d] \notin {"memSet", "redisSet", "memDel", "redisDel"}
  BY <1>1, <1>4 DEF Elsewhere, Writing
<1>5. CASE SetMemory(c) \/ DeleteMemory(c)
  <2>1. /\ UNCHANGED <<redis, connected, writeQueue, backfills>> /\ Elsewhere(c) /\ call' = call
        /\ \/ pc'[c] = "redisSet" /\ memory' = call[c].value
           \/ pc'[c] = "redisDel" /\ memory' = Missing
    BY <1>1, <1>3, <1>5, Continues DEF SetMemory, DeleteMemory, AfterMemory
  <2>2. ASSUME NEW d \in Clients PROVE WriteFits(d)'
    BY <1>4, <2>1 DEF WriteFits
  <2>3. ~Settled'
    BY <2>1 DEF Settled, Writing
  <2> QED
    BY <1>1, <1>2, <2>1, <2>2, <2>3 DEF NoRaceYet
<1>6. CASE SetRedis(c) \/ SetRedisAsync(c) \/ DeleteRedis(c)
  <2>1. /\ UNCHANGED <<memory, connected, backfills>> /\ Elsewhere(c) /\ pc'[c] = "idle"
        /\ \/ redis' = call[c].value /\ writeQueue' = <<>> /\ pc[c] = "redisSet"
           \/ redis' = Missing /\ writeQueue' = <<>> /\ pc[c] = "redisDel"
           \/ /\ UNCHANGED redis /\ writeQueue' = Append(<<>>, call[c].value)
              /\ pc[c] = "redisSet"
    <3>1. CASE SetRedis(c)
      <4>1. /\ pc[c] = "redisSet" /\ redis' = call[c].value
            /\ UNCHANGED <<memory, connected, writeQueue, backfills>>
            /\ EndWrite(c, Outcome(c, "ok"))
        BY <1>1, <1>3, <3>1 DEF SetRedis
      <4> QED
        BY <1>1, <4>1, EndWriteFields
    <3>2. CASE SetRedisAsync(c)
      <4>1. Len(writeQueue) = 0 /\ 0 # MaxPendingWrites
        BY <1>1, <1>3, ManagerAssumption
      <4>2. /\ pc[c] = "redisSet" /\ writeQueue' = Append(writeQueue, call[c].value)
            /\ UNCHANGED <<memory, redis, connected, backfills>>
            /\ EndWrite(c, Outcome(c, "ok"))
        BY <1>1, <3>2, <4>1 DEF SetRedisAsync
      <4> QED
        BY <1>1, <4>2, EndWriteFields
    <3>3. CASE DeleteRedis(c)
      <4>1. /\ pc[c] = "redisDel" /\ redis' = Missing
            /\ UNCHANGED <<memory, connected, writeQueue, backfills>>
            /\ Return(c, Deleted(c))
        BY <1>1, <1>3, <3>3 DEF DeleteRedis
      <4> QED
        BY <1>1, <4>1, Ends
    <3> QED
      BY <1>6, <3>1, <3>2, <3>3
  <2>2. Append(<<>>, call[c].value) # <<>> /\ Head(Append(<<>>, call[c].value)) = call[c].value
    OBVIOUS
  <2>3. ASSUME NEW d \in Clients PROVE WriteFits(d)'
    BY <1>4, <2>1 DEF WriteFits
  <2>4. Settled' => memory' = Missing \/ InRedis(memory)'
    BY <1>1, <2>1, <2>2 DEF Settled, WriteFits, InRedis
  <2>5. writeQueue' # <<>> => memory' \in {Missing, Head(writeQueue')}
    BY <1>1, <2>1, <2>2 DEF WriteFits
  <2> QED
    BY <1>1, <1>2, <2>1, <2>3, <2>4, <2>5 DEF NoRaceYet
<1> QED
  BY <1>5, <1>6

LEMMA BackgroundKeeps ==
  ASSUME FInv, Contents, NoRaceYet, Quiet', UNCHANGED expired, NothingFails,
         (\E v \in Values : Backfill(v)) \/ WriteAsync \/ Evict \/ Reconnect
  PROVE  NoRaceYet'
<1>1. /\ "memory" \notin Faults /\ "redis" \notin Faults
  BY DEF NothingFails
<1>2. ASSUME NEW v \in Values, Backfill(v)
      PROVE  NoRaceYet'
  <2>1. backfills[v] > 0 /\ InRedis(v)
    BY <1>2 DEF Backfill, NoRaceYet
  <2>2. /\ memory' = v /\ UNCHANGED <<redis, connected, writeQueue, pc, call>>
        /\ backfills' = [backfills EXCEPT ![v] = @ - 1]
    BY <1>1, <1>2, <2>1 DEF Backfill
  <2>3. Writing = {} /\ writeQueue = <<>>
    BY <2>1 DEF NoRaceYet, Quiet, CopyInFlight
  <2>4. \A w \in Values : (backfills'[w] > 0 => InRedis(w)') /\ InRedis(v)'
    BY <2>1, <2>2 DEF NoRaceYet, Contents, InRedis
  <2>5. ASSUME NEW d \in Clients PROVE WriteFits(d)'
    BY <2>2, <2>3 DEF Writing, WriteFits
  <2> QED
    BY <2>2, <2>3, <2>4, <2>5 DEF NoRaceYet
<1>3. CASE WriteAsync
  <2>1. /\ writeQueue # <<>> /\ writeQueue' = Tail(writeQueue) /\ redis' = Head(writeQueue)
        /\ UNCHANGED <<memory, connected, backfills, pc, call>>
    BY <1>1, <1>3 DEF WriteAsync
  <2>2. Writing = {} /\ ~CopyInFlight
    BY <2>1 DEF NoRaceYet, Quiet
  <2>3. writeQueue' = <<>>
    BY <2>1 DEF NoRaceYet, Quiet, Contents
  <2>4. ASSUME NEW d \in Clients PROVE WriteFits(d)'
    BY <2>1, <2>2 DEF Writing, WriteFits
  <2> QED
    BY <2>1, <2>2, <2>3, <2>4 DEF NoRaceYet, CopyInFlight, InRedis
<1>4. CASE Evict
  BY <1>4 DEF Evict, NoRaceYet, WriteFits, Settled, Writing, InRedis
<1> QED
  BY <1>1, <1>2, <1>3, <1>4 DEF Reconnect

\* The TTL of what Redis holds is over.
LEMMA ExpireKeeps ==
  ASSUME NoRaceYet, Quiet', Expire, expired' = redis
  PROVE  NoRaceYet'
<1>1. redis # Missing /\ redis' = Missing /\ expired' = redis
      /\ UNCHANGED <<memory, connected, writeQueue, backfills, pc, call>>
  BY DEF Expire
<1>2. \A v : InRedis(v) => InRedis(v)'
  BY <1>1 DEF InRedis
<1>3. ASSUME NEW c \in Clients PROVE WriteFits(c)'
  BY <1>1, <1>2 DEF NoRaceYet, WriteFits
<1> QED
  BY <1>1, <1>2, <1>3 DEF NoRaceYet, Settled, Writing

LEMMA RacesInvariance ==
  ASSUME NothingFails
  PROVE  RacesSpec => []RInv
<1>1. RacesInit => RInv
  <2> SUFFICES ASSUME RacesInit PROVE RInv
    OBVIOUS
  <2>1. Writing = {} /\ ~CopyInFlight
    BY DEF RacesInit, Init, Writing, CopyInFlight
  <2>2. Contents
    <3>1. <<>> \in Seq(Values)
      OBVIOUS
    <3>2. [v \in Values |-> 0] \in [Values -> Nat]
      OBVIOUS
    <3> QED
      BY <3>1, <3>2 DEF RacesInit, Init, Contents
  <2>3. Quiet
    BY <2>1 DEF RacesInit, Init, Quiet
  <2>4. connected /\ (\A v \in Values : ~(backfills[v] > 0)) /\ (\A c \in Clients : WriteFits(c))
    BY DEF RacesInit, Init, NothingFails, WriteFits
  <2>5. NoRaceYet
    BY <2>3, <2>4 DEF RacesInit, Init, NoRaceYet
  <2> QED
    BY <2>2, <2>5, FlightInit DEF RacesInit, RInv
<1>2. RInv /\ [RacesNext]_racesVars => RInv'
  <2> SUFFICES ASSUME RInv, [RacesNext]_racesVars PROVE RInv'
    OBVIOUS
  <2>1. CASE RacesNext
    <3>1. FInv' /\ Contents'
      BY <2>1, FlightNext, ContentsNext DEF RInv, RacesNext
    <3>2. ASSUME ~raced' PROVE NoRaceYet'
      <4>1. NoRaceYet /\ Quiet' /\ FInv /\ Contents
        BY <2>1, <3>1, <3>2, QuietNext DEF RInv, RacesNext
      <4>2. CASE Expire
        BY <2>1, <4>1, <4>2, ExpireKeeps DEF RacesNext
      <4>3. CASE ~Expire
        BY <2>1, <4>1, <4>3, ReadersKeep, BeginKeeps, WritersKeep, BackgroundKeeps
           DEF RacesNext, Next, Proceed
      <4> QED
        BY <4>2, <4>3
    <3> QED
      BY <3>1, <3>2 DEF RInv
  <2>2. CASE UNCHANGED racesVars
    <3>1. FInv'
      BY <2>2, FlightNext DEF RInv, racesVars, vars
    <3> QED
      BY <2>2, <3>1
         DEF RInv, racesVars, vars, Contents, NoRaceYet, Quiet, WriteFits, Settled, Writing,
             CopyInFlight, InRedis
  <2> QED
    BY <2>1, <2>2
<1> QED
  BY <1>1, <1>2, PTL DEF RacesSpec

(***************************************************************************)
(* When nothing fails, the layers of a settled cache can differ only after  *)
(* a race or a write to one layer only, and otherwise memory holds nothing  *)
(* or what Redis holds or held when its TTL was over (OnlyRacesDivide).     *)
(***************************************************************************)
THEOREM RacesAloneDivide ==
  ASSUME NothingFails
  PROVE  RacesSpec => []OnlyRacesDivide
<1>1. RInv => OnlyRacesDivide
  BY DEF RInv, NoRaceYet, InRedis, OnlyRacesDivide
<1> QED
  BY <1>1, RacesInvariance, PTL

-----------------------------------------------------------------------------
(***************************************************************************)
(* Once a factory has succeeded, its value is in the memory layer or about  *)
(* to be put there by the flight's leader, so that nobody else goes past    *)
(* the second Get of a flight.                                             *)
(***************************************************************************)
Filling == \E c \in Clients : pc[c] = "memSet" /\ call[c].op = "fill"

PastTheCheck(c) == call[c].op = "check" /\ pc[c] \in {"redisGet", "factory"}

NothingLostYet ==
  /\ created <= 1
  /\ created > 0 => memory # Missing \/ Filling
  /\ \A c \in Clients : IncludesMemory(call[c].level) /\ (PastTheCheck(c) => created = 0)

CInv == FInv /\ Contents /\ (~lost => NothingLostYet)

\* A step of c other than the factory's.
LEMMA OthersKeep ==
  ASSUME FInv, NothingLostYet, ~Loss, NEW c \in Clients, Elsewhere(c), created' = created,
         pc[c] = "memSet" /\ call[c].op = "fill" => memory' # Missing,
         PastTheCheck(c)' => created = 0
  PROVE  NothingLostYet'
<1>1. created > 0 => memory' # Missing \/ Filling'
  <2>1. ASSUME NEW d \in Clients, pc[d] = "memSet" /\ call[d].op = "fill", d # c
        PROVE  Filling'
    BY <2>1 DEF Elsewhere, Filling
  <2> QED
    BY <2>1 DEF NothingLostYet, Filling, Loss
<1>2. ASSUME NEW d \in Clients, PastTheCheck(d)' PROVE created = 0
  BY <1>2 DEF Elsewhere, PastTheCheck, NothingLostYet
<1> QED
  BY <1>1, <1>2 DEF NothingLostYet, Loss

LEMMA CheckersKeep ==
  ASSUME FInv, Contents, NothingLostYet, ~Loss, NEW c \in Clients, GetMemory(c) \/ GetRedis(c)
  PROVE  NothingLostYet'
<1>1. UNCHANGED created /\ pc[c] # "memSet"
  BY DEF GetMemory, GetRedis
<1>2. CASE GetMemory(c)
  <2>1. memory = Missing /\ call[c].op = "check" => created = 0
    <3>1. \A d \in Clients : call[c].op = "check" /\ call[d].op = "fill" => FALSE
      BY DEF FInv, Flight, Leads
    <3> QED
      BY <3>1 DEF NothingLostYet, Filling, Contents
  <2>2. CASE memory # Missing
    <3>1. EndGet(c, "hit")
      BY <1>2, <2>2 DEF GetMemory
    <3>2. Elsewhere(c) /\ ~PastTheCheck(c)'
      BY <3>1, EndGetFields DEF PastTheCheck
    <3> QED
      BY <1>1, <3>2, OthersKeep
  <2>3. CASE memory = Missing
    <3>1. Elsewhere(c) /\ (call'[c].op = "check" => call[c].op = "check")
      BY <1>2, <2>3, EndGetFields, Continues DEF GetMemory, NoCall
    <3> QED
      BY <1>1, <2>1, <2>3, <3>1, OthersKeep DEF PastTheCheck
  <2> QED
    BY <2>2, <2>3
<1>3. CASE GetRedis(c)
  <2>1. pc[c] = "redisGet" /\ \E r : EndGet(c, r)
    BY <1>3 DEF GetRedis
  <2>2. /\ Elsewhere(c) /\ pc'[c] \in {"idle", "join", "factory"}
        /\ pc'[c] = "factory" => call[c].op = "check"
    BY <2>1, EndGetFields
  <2>3. PastTheCheck(c)' => created = 0
    BY <2>1, <2>2 DEF PastTheCheck, NothingLostYet
  <2> QED
    BY <1>1, <2>2, <2>3, OthersKeep
<1> QED
  BY <1>2, <1>3

LEMMA StoresKeep ==
  ASSUME FInv, Contents, NothingLostYet, ~Loss, "memory" \notin Faults, NEW c \in Clients,
         SetMemory(c) \/ SetRedis(c) \/ SetRedisAsync(c) \/ DeleteMemory(c) \/ DeleteRedis(c)
  PROVE  NothingLostYet'
<1>1. CASE SetMemory(c)
  <2>1. /\ memory' = call[c].value /\ created' = created
        /\ pc[c] = "memSet" /\ AfterMemory(c)
    BY <1>1 DEF SetMemory
  <2>2. memory' # Missing
    BY <2>1, CallFields DEF FInv, Calls, PlaceFits, CallType, Missing
  <2>3. Elsewhere(c) /\ pc'[c] \in {"idle", "redisSet"}
    BY <2>1, Continues, EndWriteFields DEF AfterMemory
  <2> QED
    BY <2>1, <2>2, <2>3, OthersKeep DEF PastTheCheck
<1>2. CASE SetRedis(c) \/ SetRedisAsync(c)
  <2>1. /\ created' = created /\ pc[c] = "redisSet"
        /\ (\E r : EndWrite(c, r)) \/ Continue(c, "redisSet")
    BY <1>2 DEF SetRedis, SetRedisAsync
  <2>2. Elsewhere(c) /\ pc'[c] \in {"idle", "redisSet"}
    BY <2>1, Continues, EndWriteFields
  <2> QED
    BY <2>1, <2>2, OthersKeep DEF PastTheCheck
<1>3. CASE DeleteMemory(c) \/ DeleteRedis(c)
  <2>1. /\ created' = created /\ pc[c] \in {"memDel", "redisDel"}
        /\ (\E r : Return(c, r)) \/ Continue(c, "redisDel")
    BY <1>3 DEF DeleteMemory, DeleteRedis
  <2>2. Elsewhere(c) /\ pc'[c] \in {"idle", "redisDel"}
    BY <2>1, Continues, Ends
  <2> QED
    BY <2>1, <2>2, OthersKeep DEF PastTheCheck
<1> QED
  BY <1>1, <1>2, <1>3

LEMMA FlightsKeep ==
  ASSUME FInv, Contents, NothingLostYet, ~Loss, NEW c \in Clients,
         Join(c) \/ Lead(c) \/ Create(c) \/ CreateFails(c)
  PROVE  NothingLostYet'
<1>1. CASE Join(c)
  <2>1. created' = created /\ pc[c] = "join" /\ Elsewhere(c) /\ pc'[c] = "waiting"
    BY <1>1, Continues DEF Join
  <2> QED
    BY <2>1, OthersKeep DEF PastTheCheck
<1>2. CASE Lead(c)
  <2>1. created' = created /\ pc[c] = "join" /\ Elsewhere(c) /\ pc'[c] = "memGet"
    BY <1>2 DEF Lead, Step, Starts, Readers, Elsewhere, FInv, Calls, NothingLostYet
  <2> QED
    BY <2>1, OthersKeep DEF PastTheCheck
<1>3. CASE CreateFails(c)
  <2>1. created' = created /\ pc[c] = "factory" /\ Elsewhere(c) /\ pc'[c] = "idle"
    BY <1>3, Ends DEF CreateFails
  <2> QED
    BY <2>1, OthersKeep DEF PastTheCheck
<1>4. CASE Create(c)
  <2>1. pc[c] = "factory" /\ call[c].op = "check" /\ created = 0
    BY <1>4 DEF Create, Step, FInv, Calls, PlaceFits, NothingLostYet, PastTheCheck
  <2>2. /\ created' = 1 /\ Elsewhere(c)
        /\ pc'[c] = "memSet" /\ call'[c].op = "fill"
    BY <1>4, <2>1, CallFields
       DEF Create, Step, Starts, Readers, Elsewhere, FInv, Calls, CallType, NothingLostYet
  <2>3. Filling'
    BY <2>2 DEF Filling
  <2>4. ASSUME NEW d \in Clients PROVE ~PastTheCheck(d)'
    <3>1. d # c => call[d].op # "check"
      BY <2>1 DEF FInv, Flight, Leads
    <3> QED
      BY <2>2, <3>1 DEF Elsewhere, PastTheCheck, NoCall
  <2> QED
    BY <2>2, <2>3, <2>4 DEF NothingLostYet, Loss
<1> QED
  BY <1>1, <1>2, <1>3, <1>4

LEMMA OnceNext ==
  ASSUME "memory" \notin Faults, CInv, RacesNext
  PROVE  CInv'
<1>1. FInv' /\ Contents'
  BY FlightNext, ContentsNext DEF CInv, RacesNext
<1>2. ASSUME ~lost' PROVE NothingLostYet'
  <2>1. FInv /\ Contents /\ NothingLostYet /\ ~Loss /\ Next
    BY <1>2 DEF CInv, RacesNext
  <2>2. ASSUME NEW c \in Clients, NEW op \in Ops, NEW level, NEW async,
               Begin(c, op, level, async)
        PROVE  NothingLostYet'
    <3>1. /\ created' = created /\ pc[c] = "idle" /\ Elsewhere(c)
          /\ call'[c].op = IF op = "getOrCreate" THEN "lookup" ELSE op
      BY <2>1, <2>2 DEF Begin, Step, Elsewhere, FInv, Calls
    <3>2. call'[c].op # "check"
      BY <3>1, ManagerAssumption
    <3> QED
      BY <2>1, <3>1, <3>2, OthersKeep DEF PastTheCheck
  <2>3. ASSUME NEW c \in Clients, Proceed(c) PROVE NothingLostYet'
    BY <2>1, <2>3, CheckersKeep, StoresKeep, FlightsKeep DEF Proceed
  <2>4. CASE (\E v \in Values : Backfill(v)) \/ WriteAsync \/ Evict \/ Expire \/ Reconnect
    <3>1. UNCHANGED <<created, pc, call>> /\ (memory # Missing => memory' # Missing)
      BY <2>1, <2>4 DEF Backfill, WriteAsync, Evict, Expire, Reconnect, Loss
    <3> QED
      BY <2>1, <3>1 DEF NothingLostYet, Filling, PastTheCheck
  <2> QED
    BY <2>1, <2>2, <2>3, <2>4 DEF Next
<1> QED
  BY <1>1, <1>2 DEF CInv

(***************************************************************************)
(* However many goroutines call GetOrCreate, and however their lookups and *)
(* flights interleave, the factory succeeds once, as long as the memory    *)
(* layer refuses nothing, loses nothing and no call leaves it out          *)
(* (CreatedOnce).                                                          *)
(***************************************************************************)
THEOREM FactoryRunsOnce ==
  ASSUME "memory" \notin Faults
  PROVE  RacesSpec => []CreatedOnce
<1>1. RacesInit => CInv
  <2> SUFFICES ASSUME RacesInit PROVE CInv
    OBVIOUS
  <2>1. Contents
    <3>1. <<>> \in Seq(Values) /\ [v \in Values |-> 0] \in [Values -> Nat]
      OBVIOUS
    <3> QED
      BY <3>1 DEF RacesInit, Init, Contents
  <2>2. NothingLostYet
    BY DEF RacesInit, Init, NothingLostYet, PastTheCheck, IncludesMemory, NoCall
  <2> QED
    BY <2>1, <2>2, FlightInit DEF RacesInit, CInv
<1>2. CInv /\ [RacesNext]_racesVars => CInv'
  <2>1. CASE CInv /\ UNCHANGED racesVars
    <3>1. FInv'
      BY <2>1, FlightNext DEF CInv, racesVars, vars
    <3> QED
      BY <2>1, <3>1 DEF CInv, racesVars, vars, Contents, NothingLostYet, Filling, PastTheCheck
  <2> QED
    BY <2>1, OnceNext
<1>3. CInv => CreatedOnce
  BY DEF CInv, NothingLostYet, CreatedOnce
<1> QED
  BY <1>1, <1>2, <1>3, PTL DEF RacesSpec
=============================================================================
