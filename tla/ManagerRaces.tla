---------------------------- MODULE ManagerRaces ----------------------------
(***************************************************************************)
(* The Manager takes no lock around a pair of layers and none around       *)
(* GetOrCreate's look at the cache and its factory.  Auxiliary variables   *)
(* remember what may then go wrong: raced, that a write went to one layer  *)
(* only, that two overlapped or that one overlapped the copying of a value *)
(* from Redis to memory; lost, that the memory layer lost an entry or a    *)
(* call passed it by; expired, the last value whose TTL in Redis ended.    *)
(***************************************************************************)
EXTENDS Manager

VARIABLES raced, lost, expired

racesVars == <<vars, raced, lost, expired>>

Writing == {c \in Clients : pc[c] \in {"memSet", "redisSet", "memDel", "redisDel"}}

WritesOverlap == Cardinality(Writing) + Len(writeQueue) > 1
CopyInFlight  == \E v \in Values : backfills[v] > 0
OneLayerOnly  == \E c \in Writing : call[c].level # "both"
Race == WritesOverlap \/ OneLayerOnly \/ (CopyInFlight /\ (Writing # {} \/ writeQueue # <<>>))
Loss == \/ memory # Missing /\ memory' = Missing
        \/ \E c \in Clients : ~IncludesMemory(call'[c].level)

RacesInit == Init /\ raced = FALSE /\ lost = FALSE /\ expired = Missing
RacesNext ==
  /\ Next
  /\ raced' = (raced \/ Race') /\ lost' = (lost \/ Loss)
  /\ expired' = IF Expire THEN redis ELSE expired
RacesSpec == RacesInit /\ [][RacesNext]_racesVars

(***************************************************************************)
(* If nothing fails, the layers can hold different values only during a    *)
(* write, or after a write to one layer only, after two writes overlapped  *)
(* or a write overlapped the copying of a value from Redis to memory (Set, *)
(* SetMany, GetOrCreate, Delete, setAsync, getFromBothLayers).  When the   *)
(* TTL of an entry is over, memory may go on with the very value that has  *)
(* expired in Redis, also one copied there from Redis, and with no other.  *)
(***************************************************************************)
Settled == Writing = {} /\ writeQueue = <<>>

OnlyRacesDivide ==
  Settled /\ ~raced =>
    memory \in {Missing, redis} \/ (redis = Missing /\ memory = expired)

(***************************************************************************)
(* As long as no call passes the memory layer by and it keeps what it is   *)
(* given, the factory succeeds once, however many GetOrCreates missed      *)
(* before, during and after the flight (GetOrCreate).                      *)
(***************************************************************************)
CreatedOnce == ~lost => created <= 1
=============================================================================
