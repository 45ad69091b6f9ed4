------------------------------ MODULE Tracker ------------------------------
(***************************************************************************)
(* The in-memory metrics of internal/metrics/tracker.go.  Goroutines record *)
(* events, each an Add to one or two atomic counters followed by an entry   *)
(* in a ring of latencies behind a mutex; Snapshot copies the ring and then *)
(* loads the counters one after the other; Reset stores zero in them one    *)
(* after the other and empties the ring last.  Nothing makes the three      *)
(* atomic, so the model has one step per Add, Load, Store and critical      *)
(* section.                                                                 *)
(***************************************************************************)
EXTENDS Naturals, Sequences, FiniteSets

CONSTANTS Recorders,    \* goroutines that record events
          Readers,      \* goroutines that take snapshots
          Events,       \* the events they record, a subset of DOMAIN Adds
          BufferSize,   \* defaultLatencyBufferSize
          MaxRecords,   \* bound: events ever recorded
          MaxResets     \* bound: calls of Reset

\* The counters an event is added to, in order.  totalBytesWritten counts
\* the writes here, not their bytes.
Adds == [memoryHit   |-> <<"memoryHits", "getCount">>,
         memoryMiss  |-> <<"memoryMisses", "getCount">>,
         redisHit    |-> <<"redisHits", "getCount">>,
         redisMiss   |-> <<"redisMisses", "getCount">>,
         set         |-> <<"setCount", "totalBytesWritten">>,
         delete      |-> <<"deleteCount">>,
         error       |-> <<"errorCount">>,
         stateChange |-> <<"cbStateChanges">>]
HasLatency(e) == e \notin {"error", "stateChange"}

Counters == UNION {{Adds[e][i] : i \in 1..Len(Adds[e])} : e \in DOMAIN Adds}

\* The order in which Snapshot loads the counters and Reset clears them.
LoadsGetsFirst == <<"getCount", "memoryHits", "memoryMisses", "redisHits", "redisMisses",
                    "setCount", "deleteCount", "errorCount">>
Loads == <<"memoryHits", "memoryMisses", "redisHits", "redisMisses",
           "getCount", "setCount", "deleteCount", "errorCount">>
Stores == <<"memoryHits", "memoryMisses", "redisHits", "redisMisses", "getCount",
            "setCount", "deleteCount", "errorCount", "totalBytesWritten", "cbStateChanges">>

ASSUME TrackerAssumption ==
  /\ IsFiniteSet(Recorders)
  /\ Events \subseteq DOMAIN Adds
  /\ BufferSize \in Nat \ {0}
  /\ {MaxRecords, MaxResets} \subseteq Nat

VARIABLES counters,   \* the atomic counters
          ring,       \* latencyBuffer, latencyIndex, latencyCount
          recording,  \* recording[g]: the event g is recording, the Adds it has made
          snapshot,   \* snapshot[r]: what r has read so far
          clearing,   \* how many stores the running Reset has made
          records,    \* events recorded so far
          resets,     \* calls of Reset so far
          log,        \* auxiliary: the latencies since the ring was last emptied
          raced       \* auxiliary: a Reset has overlapped the recording of an event
trackerVars == <<counters, ring, recording, snapshot, clearing, records, resets, log, raced>>

Idle   == [event |-> "none", adds |-> 0]
Nobody == 0     \* clearing: no Reset is running
Busy(g) == recording[g] # Idle
Complete(r) == Len(snapshot[r].loaded) = Len(Loads)

TrackerInit ==
  /\ counters = [c \in Counters |-> 0]
  /\ ring = [buffer |-> [i \in 1..BufferSize |-> 0], index |-> 0, count |-> 0]
  /\ recording = [g \in Recorders |-> Idle]
  /\ snapshot = [r \in Readers |-> [latencies |-> <<>>, torn |-> FALSE,
                                    loaded |-> [i \in 1..Len(Loads) |-> 0]]]
  /\ clearing = Nobody
  /\ records = 0 /\ resets = 0
  /\ log = <<>> /\ raced = FALSE

-----------------------------------------------------------------------------
(* Recording                                                               *)

Record(g, e) ==
  /\ ~Busy(g) /\ records < MaxRecords
  /\ recording' = [recording EXCEPT ![g] = [event |-> e, adds |-> 0]]
  /\ records' = records + 1
  /\ raced' = (raced \/ clearing # Nobody)
  /\ UNCHANGED <<counters, ring, snapshot, clearing, resets, log>>

AddsOnlyOnce(g) ==
  LET e == recording[g].event
  IN  /\ Busy(g) /\ recording[g].adds = 0
      /\ counters' = [counters EXCEPT ![Adds[e][1]] = @ + 1]
      /\ recording' = [recording EXCEPT
                         ![g] = IF HasLatency(e) THEN [@ EXCEPT !.adds = Len(Adds[e])] ELSE Idle]
      /\ UNCHANGED <<ring, snapshot, clearing, records, resets, log, raced>>

\* One Add; an event without a latency is over after its last one.
Add(g) ==
  LET e == recording[g].event
      n == recording[g].adds + 1
  IN  /\ Busy(g) /\ n <= Len(Adds[e])
      /\ counters' = [counters EXCEPT ![Adds[e][n]] = @ + 1]
      /\ recording' = [recording EXCEPT
                         ![g] = IF n = Len(Adds[e]) /\ ~HasLatency(e)
                                THEN Idle ELSE [@ EXCEPT !.adds = n]]
      /\ UNCHANGED <<ring, snapshot, clearing, records, resets, log, raced>>

\* The ring after one more latency.
Put(r, latency) ==
  [buffer |-> [r.buffer EXCEPT ![r.index + 1] = latency],
   index  |-> (r.index + 1) % BufferSize,
   count  |-> IF r.count < BufferSize THEN r.count + 1 ELSE r.count]

\* Latencies are numbered in the order in which they get into the ring, so
\* that entries can be told apart.
recordLatency(g) ==
  LET latency == resets * MaxRecords + Len(log) + 1
  IN
  /\ Busy(g) /\ recording[g].adds = Len(Adds[recording[g].event])
  /\ ring' = Put(ring, latency)
  /\ log' = Append(log, latency)
  /\ recording' = [recording EXCEPT ![g] = Idle]
  /\ UNCHANGED <<counters, snapshot, clearing, records, resets, raced>>

-----------------------------------------------------------------------------
(* Snapshot                                                                *)

\* The latencies in the ring, oldest first.
Contents(r) ==
  IF r.count < BufferSize
  THEN SubSeq(r.buffer, 1, r.count)
  ELSE SubSeq(r.buffer, r.index + 1, BufferSize) \o SubSeq(r.buffer, 1, r.index)

\* A reader takes one snapshot after another.
CopyLatencies(r) ==
  /\ Complete(r)
  /\ snapshot' = [snapshot EXCEPT
                    ![r] = [latencies |-> Contents(ring), loaded |-> <<>>,
                            torn |-> clearing # Nobody]]
  /\ UNCHANGED <<counters, ring, recording, clearing, records, resets, log, raced>>

Load(r) ==
  /\ ~Complete(r)
  /\ snapshot' = [snapshot EXCEPT
                    ![r].loaded = Append(@, counters[Loads[Len(@) + 1]])]
  /\ UNCHANGED <<counters, ring, recording, clearing, records, resets, log, raced>>

-----------------------------------------------------------------------------
(* Reset                                                                   *)

Clear(c) ==
  /\ counters' = [counters EXCEPT ![c] = 0]
  /\ raced' = (raced \/ \E g \in Recorders : Busy(g))
  /\ snapshot' = [r \in Readers |-> [snapshot[r] EXCEPT !.torn = TRUE]]
  /\ UNCHANGED <<ring, recording, records, log>>

StartReset ==
  /\ clearing = Nobody /\ resets < MaxResets
  /\ Clear(Stores[1])
  /\ clearing' = 1 /\ resets' = resets + 1

StoreZero ==
  /\ clearing \in 1..(Len(Stores) - 1)
  /\ Clear(Stores[clearing + 1])
  /\ clearing' = clearing + 1
  /\ UNCHANGED resets

KeepsTheIndex ==
  /\ clearing = Len(Stores)
  /\ ring' = [ring EXCEPT !.count = 0]
  /\ log' = <<>>
  /\ clearing' = Nobody
  /\ UNCHANGED <<counters, recording, snapshot, records, resets, raced>>

EmptyRing ==
  /\ clearing = Len(Stores)
  /\ ring' = [ring EXCEPT !.index = 0, !.count = 0]
  /\ log' = <<>>
  /\ clearing' = Nobody
  /\ UNCHANGED <<counters, recording, snapshot, records, resets, raced>>

TrackerNext ==
  \/ \E g \in Recorders : (\E e \in Events : Record(g, e)) \/ Add(g) \/ recordLatency(g)
  \/ \E r \in Readers : CopyLatencies(r) \/ Load(r)
  \/ StartReset \/ StoreZero \/ EmptyRing

TrackerSpec == TrackerInit /\ [][TrackerNext]_trackerVars

-----------------------------------------------------------------------------
(* Properties                                                              *)

\* The fields keep their types, the ring its bounds, and a goroutine that
\* records an event has at least one step left.
Recordings == {x \in [event : Events, adds : 0..2] :
                 /\ x.adds <= Len(Adds[x.event])
                 /\ HasLatency(x.event) \/ x.adds < Len(Adds[x.event])}

TypeOK ==
  /\ counters \in [Counters -> Nat]
  /\ ring \in [buffer : [1..BufferSize -> Nat],
               index : 0..(BufferSize - 1), count : 0..BufferSize]
  /\ recording \in [Recorders -> Recordings \cup {Idle}]
  /\ snapshot \in [Readers -> [latencies : Seq(Nat), loaded : Seq(Nat), torn : BOOLEAN]]
  /\ \A r \in Readers : Len(snapshot[r].loaded) <= Len(Loads)
  /\ clearing \in 0..Len(Stores)
  /\ records \in Nat /\ resets \in Nat /\ log \in Seq(Nat) /\ raced \in BOOLEAN

\* Whatever the order in which goroutines got the mutex, how often the ring
\* has wrapped and whether Reset left old entries in it, its contents are the
\* latest latencies since it was last emptied, oldest first.
RingHoldsTheLatest ==
  Contents(ring) =
    SubSeq(log, 1 + (IF Len(log) > BufferSize THEN Len(log) - BufferSize ELSE 0), Len(log))

LayerCounts(values) ==
  values["memoryHits"] + values["memoryMisses"] + values["redisHits"] + values["redisMisses"]

\* Goroutines that have counted a hit or a miss but not yet the get.
BetweenAdds ==
  {g \in Recorders : recording[g].adds = 1 /\ recording[g].event
                       \in {"memoryHit", "memoryMiss", "redisHit", "redisMiss"}}

\* The hits and misses of the layers add up to getCount, apart from the gets
\* being recorded, unless a Reset has overlapped a recording: what such a
\* Reset leaves uneven stays uneven.
CountsAddUp ==
  ~raced /\ clearing = Nobody =>
    LayerCounts(counters) = counters["getCount"] + Cardinality(BetweenAdds)

\* What a snapshot says, by the counter's name.
Says(s) == [c \in Counters |->
              IF \E n \in 1..Len(Loads) : Loads[n] = c
              THEN s.loaded[CHOOSE n \in 1..Len(Loads) : Loads[n] = c] ELSE 0]

\* A snapshot is not atomic, but its parts fit together as far as the order
\* of the Adds and of the Loads makes them: unless Reset interferes, every
\* latency in it belongs to an event it counts, and it counts no more hits
\* and misses than gets and goroutines that are recording one.
SnapshotFitsTogether ==
  ~raced => \A r \in Readers :
    LET s == snapshot[r]
        v == Says(s)
    IN  Complete(r) /\ ~s.torn =>
          /\ Len(s.latencies) <= v["getCount"] + v["setCount"] + v["deleteCount"]
          /\ LayerCounts(v) <= v["getCount"] + Cardinality(Recorders)
=============================================================================
