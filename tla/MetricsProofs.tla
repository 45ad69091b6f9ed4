----------------------------- MODULE MetricsProofs -----------------------------
(***************************************************************************)
(* Theorems of Tracker and of BackgroundPublisher, the two halves of        *)
(* internal/metrics.                                                       *)
(*                                                                         *)
(* Tracker: the ring is described entry by entry, against the log of all    *)
(* latencies (RingInv).  The counters are balanced against the goroutines   *)
(* that are between two steps of a recording, and against the log           *)
(* (BalanceInv); a Reset that meets nobody finds, when it comes to the      *)
(* ring, all counters still zero (ResetInv).  A snapshot under way is held  *)
(* against the counters as they are now, which have only grown since it     *)
(* loaded them (SnapshotInv).                                              *)
(*                                                                         *)
(* BackgroundPublisher: from SeeDone on the context of the loop is over, so *)
(* what is due of it does not change any more, and getHealth, which comes   *)
(* later, reports at least that much.                                      *)
(***************************************************************************)
EXTENDS Tracker, BackgroundPublisher, FiniteSetTheorems, SequenceTheorems, TLAPS

-----------------------------------------------------------------------------
(* The tracker: events, counters and types                                 *)

\* What each event is added to, read off the record (RecordMemoryHit .. RecordStateChange).
LEMMA AddsOf ==
  /\ DOMAIN Adds = {"memoryHit", "memoryMiss", "redisHit", "redisMiss", "set", "delete",
                    "error", "stateChange"}
  /\ Adds["memoryHit"] = <<"memoryHits", "getCount">>
  /\ Adds["memoryMiss"] = <<"memoryMisses", "getCount">>
  /\ Adds["redisHit"] = <<"redisHits", "getCount">>
  /\ Adds["redisMiss"] = <<"redisMisses", "getCount">>
  /\ Adds["set"] = <<"setCount", "totalBytesWritten">>
  /\ Adds["delete"] = <<"deleteCount">>
  /\ Adds["error"] = <<"errorCount">>
  /\ Adds["stateChange"] = <<"cbStateChanges">>
BY DEF Adds

\* The names of the counters.
Names == {"memoryHits", "memoryMisses", "redisHits", "redisMisses", "getCount", "setCount",
          "deleteCount", "errorCount", "totalBytesWritten", "cbStateChanges"}

\* Every Add is made to one of the ten counters.
LEMMA AddsTo ==
  ASSUME NEW e \in DOMAIN Adds, NEW n \in 1..Len(Adds[e])
  PROVE  Len(Adds[e]) \in {1, 2} /\ Adds[e][n] \in Names
<1>1. e \in {"memoryHit", "memoryMiss", "redisHit", "redisMiss", "set", "delete",
             "error", "stateChange"}
  BY AddsOf
<1>2. CASE e = "memoryHit"
  BY <1>2, AddsOf DEF Names
<1>3. CASE e = "memoryMiss"
  BY <1>3, AddsOf DEF Names
<1>4. CASE e = "redisHit"
  BY <1>4, AddsOf DEF Names
<1>5. CASE e = "redisMiss"
  BY <1>5, AddsOf DEF Names
<1>6. CASE e = "set"
  BY <1>6, AddsOf DEF Names
<1>7. CASE e = "delete"
  BY <1>7, AddsOf DEF Names
<1>8. CASE e = "error"
  BY <1>8, AddsOf DEF Names
<1>9. CASE e = "stateChange"
  BY <1>9, AddsOf DEF Names
<1> QED
  BY <1>1, <1>2, <1>3, <1>4, <1>5, <1>6, <1>7, <1>8, <1>9

\* The counters are the ten that Reset clears.
LEMMA CountersAre == Counters = Names
<1>1. Counters \subseteq Names
  BY AddsTo DEF Counters
<1>2. ASSUME NEW e \in DOMAIN Adds, NEW n \in 1..Len(Adds[e]) PROVE Adds[e][n] \in Counters
  BY DEF Counters
<1>3. /\ Adds["memoryHit"][1] \in Counters /\ Adds["memoryMiss"][1] \in Counters
      /\ Adds["redisHit"][1] \in Counters /\ Adds["redisMiss"][1] \in Counters
      /\ Adds["memoryHit"][2] \in Counters
      /\ Adds["set"][1] \in Counters /\ Adds["set"][2] \in Counters
      /\ Adds["delete"][1] \in Counters /\ Adds["error"][1] \in Counters
      /\ Adds["stateChange"][1] \in Counters
  BY <1>2, AddsOf
<1>4. Names \subseteq Counters
  BY <1>3, AddsOf DEF Names
<1> QED
  BY <1>1, <1>4

\* Snapshot loads eight counters; Reset leaves none of the ten out.
LEMMA StoresAre ==
  /\ Len(Loads) = 8 /\ Len(Stores) = 10
  /\ \A i \in 1..8 : Loads[i] \in Counters
  /\ \A i \in 1..10 : Stores[i] \in Counters
  /\ \A c \in Counters : \E i \in 1..10 : Stores[i] = c
<1>2. Len(Stores) = 10 /\ Stores[1] = "memoryHits" /\ Stores[2] = "memoryMisses" 
      /\ Stores[3] = "redisHits" /\ Stores[4] = "redisMisses" /\ Stores[5] = "getCount"
      /\ Stores[6] = "setCount" /\ Stores[7] = "deleteCount" /\ Stores[8] = "errorCount"
      /\ Stores[9] = "totalBytesWritten" /\ Stores[10] = "cbStateChanges"
  BY DEF Stores
<1>3. Len(Loads) = 8 /\ \A i \in 1..8 : Loads[i] \in Counters
  BY CountersAre DEF Loads, Names
<1>4. \A i \in 1..10 : Stores[i] \in Counters
  BY <1>2, CountersAre DEF Names
<1>5. \A c \in Counters : \E i \in 1..10 : Stores[i] = c
  BY <1>2, CountersAre DEF Names
<1> QED
  BY <1>2, <1>3, <1>4, <1>5

\* An event is added to one counter or to two.
LEMMA LengthOfAdds ==
  ASSUME NEW e \in DOMAIN Adds
  PROVE  Len(Adds[e]) \in {1, 2}
BY AddsOf

\* The event of an idle goroutine is none that can be recorded.
LEMMA NoneIsNoEvent == "none" \notin Events
BY AddsOf, TrackerAssumption

\* What a goroutine that records an event knows of it.
LEMMA RecordingFields ==
  ASSUME NEW x \in Recordings
  PROVE  /\ x.event \in Events /\ x.event \in DOMAIN Adds /\ x # Idle
         /\ x.adds \in 0..2 /\ x.adds <= Len(Adds[x.event])
         /\ x = [event |-> x.event, adds |-> x.adds]
BY TrackerAssumption, NoneIsNoEvent DEF Recordings, Idle

-----------------------------------------------------------------------------
\* The index of the ring goes up by one and wraps at the buffer's size (recordLatency).
LEMMA IndexStep ==
  ASSUME NEW i \in 0..(BufferSize - 1)
  PROVE  /\ (i + 1) % BufferSize = IF i + 1 = BufferSize THEN 0 ELSE i + 1
         /\ (i + 1) % BufferSize \in 0..(BufferSize - 1)
<1>1. BufferSize \in Nat \ {0}
  BY TrackerAssumption
<1>2. BufferSize % BufferSize = 0
  BY <1>1
<1>3. ASSUME NEW j \in 0..(BufferSize - 1) PROVE j % BufferSize = j
  BY <1>1, <1>3
<1> QED
  BY <1>1, <1>2, <1>3

\* Initially the fields have their types.
LEMMA TypeInit == TrackerInit => TypeOK
<1> SUFFICES ASSUME TrackerInit PROVE TypeOK
  OBVIOUS
<1>1. counters \in [Counters -> Nat] /\ recording \in [Recorders -> Recordings \cup {Idle}]
  BY DEF TrackerInit
<1>2. ring \in [buffer : [1..BufferSize -> Nat],
               index : 0..(BufferSize - 1), count : 0..BufferSize]
  BY TrackerAssumption DEF TrackerInit
<1>3. /\ <<>> \in Seq(Nat)
      /\ [i \in 1..Len(Loads) |-> 0] \in Seq(Nat)
      /\ Len([i \in 1..Len(Loads) |-> 0]) = Len(Loads)
  <2>1. Len(Loads) \in Nat
    BY StoresAre
  <2>2. [i \in 1..Len(Loads) |-> 0] \in [1..Len(Loads) -> Nat]
    OBVIOUS
  <2>3. [i \in 1..Len(Loads) |-> 0] \in Seq(Nat)
    BY <2>1, <2>2, SeqDef
  <2> QED
    BY <2>1, <2>2, <2>3, LenProperties
<1> DEFINE zeros == [i \in 1..Len(Loads) |-> 0]
<1>4. snapshot = [r \in Readers |-> [latencies |-> <<>>, torn |-> FALSE, loaded |-> zeros]]
  BY DEF TrackerInit
<1> HIDE DEF zeros
<1>5. /\ snapshot \in [Readers -> [latencies : Seq(Nat), loaded : Seq(Nat), torn : BOOLEAN]]
      /\ \A r \in Readers : Len(snapshot[r].loaded) <= Len(Loads)
  <2>1. Len(zeros) <= Len(Loads) /\ zeros \in Seq(Nat)
    BY <1>3, StoresAre DEF zeros
  <2> QED
    BY <1>3, <1>4, <2>1
<1>6. /\ clearing \in 0..Len(Stores) /\ records \in Nat /\ resets \in Nat
      /\ log \in Seq(Nat) /\ raced \in BOOLEAN
  <2>1. <<>> \in Seq(Nat)
    OBVIOUS
  <2>2. Len(Stores) = 10
    BY StoresAre
  <2>4. log \in Seq(Nat)
    BY <2>1, Zenon DEF TrackerInit
  <2>5. clearing \in 0..10 /\ records \in Nat /\ resets \in Nat
    BY DEF TrackerInit, Nobody
  <2>6. raced \in BOOLEAN
    BY Zenon DEF TrackerInit
  <2> QED
    BY <2>2, <2>4, <2>5, <2>6, Zenon
<1> QED
  BY <1>1, <1>2, <1>5, <1>6 DEF TypeOK

\* Beginning to record an event keeps the types.
LEMMA RecordType ==
  ASSUME TypeOK, NEW g \in Recorders, NEW e \in Events, Record(g, e)
  PROVE  TypeOK'
<1>1. [event |-> e, adds |-> 0] \in Recordings
  <2>1. Len(Adds[e]) \in {1, 2}
    BY LengthOfAdds, TrackerAssumption
  <2> QED
    BY <2>1 DEF Recordings
<1>2. recording' \in [Recorders -> Recordings \cup {Idle}]
  BY <1>1 DEF TypeOK, Record
<1> QED
  BY <1>2 DEF TypeOK, Record

\* An Add keeps the types: it is made to a counter, and leaves a recording or none.
LEMMA AddType ==
  ASSUME TypeOK, NEW g \in Recorders, Add(g)
  PROVE  TypeOK'
<1> DEFINE e == recording[g].event
           n == recording[g].adds + 1
<1>1. recording[g] \in Recordings
  BY DEF TypeOK, Add, Busy
<1>2. /\ e \in Events /\ n \in 1..2 /\ n <= Len(Adds[e])
      /\ recording[g] = [event |-> e, adds |-> n - 1]
  <2>1. Len(Adds[e]) \in {1, 2}
    BY <1>1, LengthOfAdds, RecordingFields
  <2> QED
    BY <1>1, <2>1, RecordingFields DEF Add
<1>3. ASSUME ~(n = Len(Adds[e]) /\ ~HasLatency(e))
      PROVE  [recording[g] EXCEPT !.adds = n] \in Recordings
  <2>1. [recording[g] EXCEPT !.adds = n] = [event |-> e, adds |-> n]
    BY <1>2
  <2>2. Len(Adds[e]) \in {1, 2}
    BY <1>1, LengthOfAdds, RecordingFields
  <2> HIDE DEF e, n
  <2>3. [event |-> e, adds |-> n] \in Recordings
    BY <1>2, <1>3, <2>2 DEF Recordings
  <2> QED
    BY <2>1, <2>3 DEF e, n
<1> DEFINE after == IF n = Len(Adds[e]) /\ ~HasLatency(e)
                     THEN Idle ELSE [recording[g] EXCEPT !.adds = n]
<1>4. recording' = [recording EXCEPT ![g] = after]
  BY DEF Add
<1>5. after \in Recordings \cup {Idle}
  BY <1>3
<1> HIDE DEF after
<1>6. recording' \in [Recorders -> Recordings \cup {Idle}]
  BY <1>4, <1>5 DEF TypeOK
<1> DEFINE c == Adds[e][n]
<1>7. counters' = [counters EXCEPT ![c] = @ + 1] /\ counters \in [Counters -> Nat]
  BY DEF Add, TypeOK
<1>8. c \in Counters
  <2>1. e \in DOMAIN Adds /\ n \in 1..Len(Adds[e])
    <3>1. e \in DOMAIN Adds
      BY <1>1, RecordingFields
    <3>2. Len(Adds[e]) \in {1, 2}
      BY <3>1, LengthOfAdds
    <3> HIDE DEF e, n
    <3> QED
      BY <1>2, <3>1, <3>2
  <2> HIDE DEF e, n
  <2> QED
    BY <2>1, AddsTo, CountersAre
<1> HIDE DEF c
<1>9. counters' \in [Counters -> Nat]
  BY <1>7, <1>8
<1> QED
  BY <1>6, <1>9 DEF TypeOK, Add

\* One latency more, field by field: the index stays within the buffer, the count
\* within its size.
LEMMA PutType ==
  ASSUME TypeOK, NEW l \in Nat
  PROVE  /\ Put(ring, l).buffer = [ring.buffer EXCEPT ![ring.index + 1] = l]
         /\ Put(ring, l).index = (ring.index + 1) % BufferSize
         /\ Put(ring, l).count = IF ring.count < BufferSize THEN ring.count + 1 ELSE ring.count
         /\ Put(ring, l) \in [buffer : [1..BufferSize -> Nat],
                           index : 0..(BufferSize - 1), count : 0..BufferSize]
<1>1. /\ ring.buffer \in [1..BufferSize -> Nat] /\ ring.index \in 0..(BufferSize - 1)
      /\ ring.count \in 0..BufferSize
  BY DEF TypeOK
<1>2. (ring.index + 1) % BufferSize \in 0..(BufferSize - 1)
  BY <1>1, IndexStep
<1> DEFINE buffer == [ring.buffer EXCEPT ![ring.index + 1] = l]
           index  == (ring.index + 1) % BufferSize
           count  == IF ring.count < BufferSize THEN ring.count + 1 ELSE ring.count
<1>3. Put(ring, l) = [buffer |-> buffer, index |-> index, count |-> count]
  BY Zenon DEF Put
<1>4. buffer \in [1..BufferSize -> Nat] /\ count \in 0..BufferSize
  BY <1>1, TrackerAssumption
<1> HIDE DEF buffer, index, count
<1>5. /\ Put(ring, l).buffer = buffer /\ Put(ring, l).index = index
      /\ Put(ring, l).count = count
  BY <1>3
<1>6. index \in 0..(BufferSize - 1)
  BY <1>2 DEF index
<1>7. Put(ring, l) \in [buffer : [1..BufferSize -> Nat],
                       index : 0..(BufferSize - 1), count : 0..BufferSize]
  BY <1>3, <1>4, <1>6
<1> QED
  BY <1>5, <1>7 DEF buffer, index, count

\* Recording a latency keeps the types.
LEMMA recordLatencyType ==
  ASSUME TypeOK, NEW g \in Recorders, recordLatency(g)
  PROVE  TypeOK'
<1> DEFINE l == resets * MaxRecords + Len(log) + 1
<1>1. l \in Nat
  <2>1. resets * MaxRecords \in Nat
    BY TrackerAssumption DEF TypeOK
  <2>2. Len(log) \in Nat
    BY LenProperties DEF TypeOK
  <2> QED
    BY <2>1, <2>2
<1>2. ring' = Put(ring, l) /\ log' = Append(log, l)
  BY DEF recordLatency
<1> HIDE DEF l
<1>3. ring' \in [buffer : [1..BufferSize -> Nat],
                index : 0..(BufferSize - 1), count : 0..BufferSize]
  BY <1>1, <1>2, PutType
<1>4. log' \in Seq(Nat)
  BY <1>1, <1>2 DEF TypeOK
<1>5. recording' \in [Recorders -> Recordings \cup {Idle}]
  BY DEF TypeOK, recordLatency
<1> QED
  BY <1>3, <1>4, <1>5 DEF TypeOK, recordLatency

\* The contents of the ring, entry by entry: the two halves that Snapshot puts
\* together when the ring is full are as long as the ring, and the older half comes first.
LEMMA ContentsType ==
  ASSUME TypeOK
  PROVE  /\ Contents(ring) \in Seq(Nat) /\ Len(Contents(ring)) = ring.count
         /\ \A i \in 1..ring.count :
              Contents(ring)[i] =
                IF ring.count < BufferSize THEN ring.buffer[i]
                ELSE IF i <= BufferSize - ring.index THEN ring.buffer[ring.index + i]
                     ELSE ring.buffer[i - (BufferSize - ring.index)]
<1>1. /\ ring.buffer \in [1..BufferSize -> Nat] /\ ring.index \in 0..(BufferSize - 1)
      /\ ring.count \in 0..BufferSize /\ BufferSize \in Nat \ {0}
  BY TrackerAssumption DEF TypeOK
<1>2. CASE ring.count < BufferSize
  <2> DEFINE a == SubSeq(ring.buffer, 1, ring.count)
  <2>1. \A i \in 1..ring.count : ring.buffer[i] \in Nat
    BY <1>1
  <2>2. /\ a \in Seq(Nat)
        /\ Len(a) = IF 1 <= ring.count THEN ring.count - 1 + 1 ELSE 0
        /\ \A i \in 1..(ring.count - 1 + 1) : a[i] = ring.buffer[1 + i - 1]
    BY <1>1, <2>1, SubSeqProperties
  <2>3. Contents(ring) = a
    BY <1>2, Zenon DEF Contents
  <2> HIDE DEF a
  <2>4. Len(a) = ring.count /\ \A i \in 1..ring.count : a[i] = ring.buffer[i]
    BY <1>1, <2>2
  <2> QED
    BY <1>2, <2>2, <2>3, <2>4
<1>3. CASE ~(ring.count < BufferSize)
  <2> DEFINE a == SubSeq(ring.buffer, ring.index + 1, BufferSize)
             b == SubSeq(ring.buffer, 1, ring.index)
  <2>1. /\ \A i \in (ring.index + 1)..BufferSize : ring.buffer[i] \in Nat
        /\ \A i \in 1..ring.index : ring.buffer[i] \in Nat
    BY <1>1
  <2>2. /\ a \in Seq(Nat) /\ Len(a) = BufferSize - ring.index
        /\ \A i \in 1..(BufferSize - ring.index) : a[i] = ring.buffer[ring.index + i]
    <3> DEFINE from == ring.index + 1
    <3>1. from \in Int /\ BufferSize \in Int /\ \A i \in from..BufferSize : ring.buffer[i] \in Nat
      BY <1>1, <2>1
    <3> HIDE DEF from
    <3>2. /\ a \in Seq(Nat)
          /\ Len(a) = IF from <= BufferSize THEN BufferSize - from + 1 ELSE 0
          /\ \A i \in 1..(BufferSize - from + 1) : a[i] = ring.buffer[from + i - 1]
      BY <3>1, SubSeqProperties DEF from
    <3>3. /\ from <= BufferSize /\ BufferSize - from + 1 = BufferSize - ring.index
          /\ \A i \in 1..(BufferSize - ring.index) : from + i - 1 = ring.index + i
      <4> DEFINE x == ring.index
      <4>1. x \in 0..(BufferSize - 1) /\ BufferSize \in Nat /\ from = x + 1
        BY <1>1 DEF from
      <4> HIDE DEF x
      <4>2. /\ from <= BufferSize /\ BufferSize - from + 1 = BufferSize - x
            /\ \A i \in 1..(BufferSize - x) : from + i - 1 = x + i
        BY <4>1
      <4> QED
        BY <4>2 DEF x
    <3> HIDE DEF a
    <3> QED
      BY <3>2, <3>3
  <2>3. /\ b \in Seq(Nat)
        /\ Len(b) = IF 1 <= ring.index THEN ring.index - 1 + 1 ELSE 0
        /\ \A i \in 1..(ring.index - 1 + 1) : b[i] = ring.buffer[1 + i - 1]
    BY <1>1, <2>1, SubSeqProperties
  <2>4. Contents(ring) = a \o b
    BY <1>3, Zenon DEF Contents
  <2> HIDE DEF a, b
  <2>5. Len(a) = BufferSize - ring.index
    BY <2>2
  <2>6. Len(b) = ring.index /\ \A i \in 1..ring.index : b[i] = ring.buffer[i]
    BY <1>1, <2>3
  <2>7. /\ a \o b \in Seq(Nat) /\ Len(a \o b) = Len(a) + Len(b)
        /\ \A i \in 1..(Len(a) + Len(b)) :
             (a \o b)[i] = IF i <= Len(a) THEN a[i] ELSE b[i - Len(a)]
    BY <2>2, <2>3, ConcatProperties
  <2> DEFINE c == a \o b
  <2>8. c \in Seq(Nat) /\ Contents(ring) = c
    BY <2>4, <2>7
  <2>9. Len(c) = BufferSize /\ ring.count = BufferSize
    BY <1>1, <1>3, <2>5, <2>6, <2>7
  <2>10. \A i \in 1..BufferSize :
           c[i] = IF i <= BufferSize - ring.index THEN ring.buffer[ring.index + i]
                  ELSE ring.buffer[i - (BufferSize - ring.index)]
    <3> DEFINE n == Len(a)  m == Len(b)
    <3>1. /\ n = BufferSize - ring.index /\ m = ring.index
          /\ \A i \in 1..(n + m) : c[i] = IF i <= n THEN a[i] ELSE b[i - n]
          /\ \A i \in 1..n : a[i] = ring.buffer[ring.index + i]
          /\ \A i \in 1..m : b[i] = ring.buffer[i]
      BY <2>2, <2>5, <2>6, <2>7
    <3> HIDE DEF n, m, c
    <3>2. n \in Nat /\ m \in Nat /\ n + m = BufferSize
      BY <1>1, <3>1
    <3> SUFFICES ASSUME NEW i \in 1..BufferSize
                 PROVE  c[i] = IF i <= n THEN ring.buffer[ring.index + i] ELSE ring.buffer[i - n]
      BY <3>1
    <3>3. CASE i <= n
      <4>1. i \in 1..n
        BY <3>2, <3>3
      <4> QED
        BY <3>1, <3>2, <3>3, <4>1
    <3>4. CASE ~(i <= n)
      <4>1. i - n \in 1..m
        BY <3>2, <3>4
      <4> QED
        BY <3>1, <3>2, <3>4, <4>1
    <3> QED
      BY <3>3, <3>4
  <2> HIDE DEF c
  <2> QED
    BY <1>3, <2>8, <2>9, <2>10
<1> QED
  BY <1>2, <1>3

\* Copying the latencies keeps the types.
LEMMA CopyType ==
  ASSUME TypeOK, NEW r \in Readers, CopyLatencies(r)
  PROVE  TypeOK'
<1> DEFINE copy == [latencies |-> Contents(ring), loaded |-> <<>>, torn |-> clearing # Nobody]
<1>1. snapshot' = [snapshot EXCEPT ![r] = copy]
  BY DEF CopyLatencies
<1>2. <<>> \in Seq(Nat) /\ Len(<<>>) = 0
  OBVIOUS
<1>3. copy \in [latencies : Seq(Nat), loaded : Seq(Nat), torn : BOOLEAN] /\ copy.loaded = <<>>
  BY <1>2, ContentsType
<1> HIDE DEF copy
<1>4. snapshot' \in [Readers -> [latencies : Seq(Nat), loaded : Seq(Nat), torn : BOOLEAN]]
  BY <1>1, <1>3 DEF TypeOK
<1>5. \A q \in Readers : Len(snapshot'[q].loaded) <= Len(Loads)
  <2>1. Len(Loads) = 8
    BY StoresAre
  <2> QED
    BY <1>1, <1>2, <1>3, <2>1 DEF TypeOK
<1> QED
  BY <1>4, <1>5 DEF TypeOK, CopyLatencies

\* What Load does to the reader that loads.
LEMMA LoadEffect ==
  ASSUME TypeOK, NEW r \in Readers, Load(r)
  PROVE  LET s == snapshot[r]  i == Len(s.loaded) + 1
         IN  /\ i \in 1..8 /\ Loads[i] \in Counters
             /\ snapshot'[r].latencies = s.latencies /\ snapshot'[r].torn = s.torn
             /\ snapshot'[r].loaded = Append(s.loaded, counters[Loads[i]])
             /\ snapshot'[r].loaded \in Seq(Nat)
             /\ Len(snapshot'[r].loaded) = i
             /\ \A j \in 1..(i - 1) : snapshot'[r].loaded[j] = s.loaded[j]
             /\ snapshot'[r].loaded[i] = counters[Loads[i]]
             /\ \A q \in Readers : q # r => snapshot'[q] = snapshot[q]
             /\ snapshot' \in [Readers -> [latencies : Seq(Nat), loaded : Seq(Nat),
                                          torn : BOOLEAN]]
<1> DEFINE s == snapshot[r]
           i == Len(s.loaded) + 1
           value == counters[Loads[i]]
<1>1. /\ s \in [latencies : Seq(Nat), loaded : Seq(Nat), torn : BOOLEAN]
      /\ Len(s.loaded) <= 8 /\ Len(s.loaded) # 8 /\ Len(s.loaded) \in Nat
  BY StoresAre, LenProperties DEF TypeOK, Load, Complete
<1>2. i \in 1..8 /\ Loads[i] \in Counters /\ value \in Nat
  <2>1. i \in 1..8
    <3>1. Len(s.loaded) \in Nat /\ Len(s.loaded) <= 8 /\ Len(s.loaded) # 8
      BY <1>1
    <3> DEFINE m == Len(s.loaded)
    <3>2. m \in Nat /\ m <= 8 /\ m # 8
      BY <3>1, Zenon
    <3> HIDE DEF m
    <3>3. m + 1 \in 1..8
      BY <3>2
    <3> QED
      BY <3>3, Zenon DEF m
  <2>2. Loads[i] \in Counters
    BY <2>1, StoresAre
  <2> HIDE DEF i
  <2> QED
    BY <2>1, <2>2 DEF TypeOK
<1>3. snapshot' = [snapshot EXCEPT ![r] = [s EXCEPT !.loaded = Append(s.loaded, value)]]
  BY DEF Load
<1> HIDE DEF value
<1>4. /\ Append(s.loaded, value) \in Seq(Nat) /\ Len(Append(s.loaded, value)) = i
      /\ \A j \in 1..(i - 1) : Append(s.loaded, value)[j] = s.loaded[j]
      /\ Append(s.loaded, value)[i] = value
  BY <1>1, <1>2, AppendProperties
<1> DEFINE longer == Append(s.loaded, value)
<1> HIDE DEF longer
<1>5. /\ snapshot'[r] = [s EXCEPT !.loaded = longer]
      /\ \A q \in Readers : q # r => snapshot'[q] = snapshot[q]
  BY <1>3 DEF TypeOK, longer
<1>6. /\ snapshot'[r].latencies = s.latencies /\ snapshot'[r].torn = s.torn
      /\ snapshot'[r].loaded = longer
  BY <1>1, <1>5
<1>7. snapshot' \in [Readers -> [latencies : Seq(Nat), loaded : Seq(Nat), torn : BOOLEAN]]
  <2>1. longer \in Seq(Nat)
    BY <1>4 DEF longer
  <2> QED
    BY <1>1, <1>3, <2>1 DEF TypeOK, longer
<1> QED
  BY <1>2, <1>4, <1>5, <1>6, <1>7 DEF longer, value

\* Loading a counter keeps the types.
LEMMA LoadType ==
  ASSUME TypeOK, NEW r \in Readers, Load(r)
  PROVE  TypeOK'
<1>1. \A q \in Readers : Len(snapshot'[q].loaded) <= Len(Loads)
  <2>1. Len(snapshot'[r].loaded) \in 1..8
    BY LoadEffect
  <2>2. \A q \in Readers : q # r => snapshot'[q] = snapshot[q]
    BY LoadEffect
  <2>3. Len(Loads) = 8 /\ \A q \in Readers : Len(snapshot[q].loaded) <= Len(Loads)
    BY StoresAre DEF TypeOK
  <2> SUFFICES ASSUME NEW q \in Readers PROVE Len(snapshot'[q].loaded) <= Len(Loads)
    OBVIOUS
  <2>4. CASE q = r
    <3>1. \A k \in 1..8 : k <= 8
      OBVIOUS
    <3> QED
      BY <2>1, <2>3, <2>4, <3>1, Zenon
  <2>5. CASE q # r
    BY <2>2, <2>3, <2>5
  <2> QED
    BY <2>4, <2>5
<1>2. snapshot' \in [Readers -> [latencies : Seq(Nat), loaded : Seq(Nat), torn : BOOLEAN]]
  BY LoadEffect
<1> QED
  BY <1>1, <1>2 DEF TypeOK, Load

\* One Store of Reset: its counter is zero, the others stay, and the snapshots
\* under way are marked.
LEMMA ClearEffect ==
  ASSUME TypeOK, NEW c \in Counters, Clear(c)
  PROVE  /\ counters' \in [Counters -> Nat] /\ counters'[c] = 0
         /\ \A d \in Counters : d # c => counters'[d] = counters[d]
         /\ snapshot' \in [Readers -> [latencies : Seq(Nat), loaded : Seq(Nat),
                                      torn : BOOLEAN]]
         /\ \A r \in Readers : snapshot'[r].torn /\ snapshot'[r].loaded = snapshot[r].loaded
         /\ raced' \in BOOLEAN
<1>1. counters' = [counters EXCEPT ![c] = 0] /\ counters \in [Counters -> Nat]
  BY DEF Clear, TypeOK
<1>2. snapshot' = [r \in Readers |-> [snapshot[r] EXCEPT !.torn = TRUE]]
  BY DEF Clear
<1>3. raced' \in BOOLEAN
  BY DEF Clear, TypeOK
<1>4. /\ snapshot' \in [Readers -> [latencies : Seq(Nat), loaded : Seq(Nat), torn : BOOLEAN]]
      /\ \A r \in Readers : snapshot'[r].torn /\ snapshot'[r].loaded = snapshot[r].loaded
  BY <1>2 DEF TypeOK
<1> QED
  BY <1>1, <1>3, <1>4

\* Reset keeps the types.
LEMMA ResetType ==
  ASSUME TypeOK, StartReset \/ StoreZero \/ EmptyRing
  PROVE  TypeOK'
<1>1. CASE StartReset \/ StoreZero
  <2>1. PICK i \in 1..10 : Clear(Stores[i]) /\ clearing' = i
    <3>1. CASE StartReset
      BY <3>1 DEF StartReset
    <3>2. CASE StoreZero
      <4>1. clearing \in 1..9
        BY <3>2, StoresAre DEF StoreZero
      <4> QED
        BY <3>2, <4>1 DEF StoreZero
    <3> QED
      BY <1>1, <3>1, <3>2
  <2>2. Stores[i] \in Counters
    BY StoresAre
  <2>3. /\ counters' \in [Counters -> Nat] /\ raced' \in BOOLEAN
        /\ snapshot' \in [Readers -> [latencies : Seq(Nat), loaded : Seq(Nat),
                                     torn : BOOLEAN]]
        /\ \A r \in Readers : snapshot'[r].loaded = snapshot[r].loaded
    BY <2>1, <2>2, ClearEffect
  <2>4. clearing' \in 0..Len(Stores) /\ resets' \in Nat
    <3>1. resets \in Nat /\ resets' \in {resets, resets + 1}
      BY <1>1 DEF StartReset, StoreZero, TypeOK
    <3>2. Len(Stores) = 10
      BY StoresAre
    <3> QED
      BY <2>1, <3>1, <3>2
  <2>5. UNCHANGED <<ring, recording, records, log>>
    BY <2>1 DEF Clear
  <2>6. \A r \in Readers : Len(snapshot'[r].loaded) <= Len(Loads)
    BY <2>3 DEF TypeOK
  <2> QED
    BY <2>3, <2>4, <2>5, <2>6 DEF TypeOK
<1>2. CASE EmptyRing
  <2>1. ring' \in [buffer : [1..BufferSize -> Nat],
                  index : 0..(BufferSize - 1), count : 0..BufferSize]
    <3>1. ring' = [ring EXCEPT !.index = 0, !.count = 0]
      BY <1>2 DEF EmptyRing
    <3>2. /\ ring \in [buffer : [1..BufferSize -> Nat],
                     index : 0..(BufferSize - 1), count : 0..BufferSize]
          /\ 0 \in 0..(BufferSize - 1) /\ 0 \in 0..BufferSize
      BY TrackerAssumption DEF TypeOK
    <3> QED
      BY <3>1, <3>2
  <2>2. log' \in Seq(Nat)
    <3>1. <<>> \in Seq(Nat)
      OBVIOUS
    <3> QED
      BY <1>2, <3>1 DEF EmptyRing
  <2>3. clearing' \in 0..Len(Stores)
    BY <1>2, StoresAre DEF EmptyRing, Nobody
  <2> QED
    BY <1>2, <2>1, <2>2, <2>3 DEF EmptyRing, TypeOK
<1> QED
  BY <1>1, <1>2

\* Every step keeps the types.
LEMMA TypeStep == TypeOK /\ [TrackerNext]_trackerVars => TypeOK'
<1> SUFFICES ASSUME TypeOK, [TrackerNext]_trackerVars PROVE TypeOK'
  OBVIOUS
<1>1. CASE UNCHANGED trackerVars
  BY <1>1 DEF trackerVars, TypeOK
<1> QED
  BY <1>1, RecordType, AddType, recordLatencyType, CopyType, LoadType, ResetType
     DEF TrackerNext

-----------------------------------------------------------------------------
\* The ring, entry by entry: before it is full it holds the sequence l of n
\* entries, afterwards the entry before the index is the latest one.
RingOf(buffer, index, count, l, n) ==
  /\ count = IF n < BufferSize THEN n ELSE BufferSize
  /\ n < BufferSize => index = n /\ \A i \in 1..n : buffer[i] = l[i]
  /\ n >= BufferSize =>
       \A i \in 1..BufferSize :
         buffer[i] = IF i <= index THEN l[n - index + i] ELSE l[n - BufferSize - index + i]

RingInv == RingOf(ring.buffer, ring.index, ring.count, log, Len(log))

\* One latency more keeps the order, before the ring is full, when it becomes full,
\* and when it wraps (recordLatency).
LEMMA PutKeepsOrder ==
  ASSUME NEW buffer \in [1..BufferSize -> Nat], NEW index \in 0..(BufferSize - 1), NEW count,
         NEW n \in Nat, NEW l \in [1..n -> Nat], RingOf(buffer, index, count, l, n),
         NEW m \in [1..(n + 1) -> Nat], \A i \in 1..n : m[i] = l[i]
  PROVE  RingOf([buffer EXCEPT ![index + 1] = m[n + 1]],
                IF index + 1 = BufferSize THEN 0 ELSE index + 1,
                IF count < BufferSize THEN count + 1 ELSE count, m, n + 1)
<1> DEFINE b == [buffer EXCEPT ![index + 1] = m[n + 1]]
<1>0. BufferSize \in Nat \ {0}
  BY TrackerAssumption
<1>1. /\ b[index + 1] = m[n + 1]
      /\ \A i \in 1..BufferSize : i # index + 1 => b[i] = buffer[i]
  BY <1>0
<1> HIDE DEF b
<1>2. CASE n + 1 < BufferSize
  BY <1>0, <1>1, <1>2 DEF RingOf, b
<1>3. CASE n + 1 = BufferSize
  BY <1>0, <1>1, <1>3 DEF RingOf, b
<1>4. ASSUME n >= BufferSize
      PROVE  /\ count = BufferSize
             /\ \A i \in 1..BufferSize :
                  /\ i <= index => /\ n - index + i \in 1..n
                                   /\ buffer[i] = m[n - index + i]
                  /\ i > index  => /\ n - BufferSize - index + i \in 1..n
                                   /\ buffer[i] = m[n - BufferSize - index + i]
  <2>1. /\ count = BufferSize
        /\ \A i \in 1..BufferSize :
             buffer[i] = IF i <= index THEN l[n - index + i] ELSE l[n - BufferSize - index + i]
    BY <1>0, <1>4 DEF RingOf
  <2>2. ASSUME NEW i \in 1..BufferSize, i <= index
        PROVE  n - index + i \in 1..n /\ buffer[i] = m[n - index + i]
    <3>1. n - index + i \in 1..n
      BY <1>0, <1>4, <2>2
    <3> QED
      BY <2>1, <2>2, <3>1
  <2>3. ASSUME NEW i \in 1..BufferSize, i > index
        PROVE  /\ n - BufferSize - index + i \in 1..n
               /\ buffer[i] = m[n - BufferSize - index + i]
    <3>1. n - BufferSize - index + i \in 1..n /\ ~(i <= index)
      BY <1>0, <1>4, <2>3
    <3> QED
      BY <2>1, <3>1
  <2> QED
    BY <2>1, <2>2, <2>3
<1>5. CASE n >= BufferSize /\ index + 1 < BufferSize
  <2>1. ASSUME NEW i \in 1..BufferSize
        PROVE  b[i] = IF i <= index + 1 THEN m[n + 1 - (index + 1) + i]
                      ELSE m[n + 1 - BufferSize - (index + 1) + i]
    <3>1. CASE i <= index
      <4>1. n + 1 - (index + 1) + i = n - index + i /\ i <= index + 1 /\ i # index + 1
        BY <1>0, <3>1
      <4> QED
        BY <1>1, <1>4, <1>5, <3>1, <4>1
    <3>2. CASE i = index + 1
      <4>1. n + 1 - (index + 1) + i = n + 1 /\ i <= index + 1
        BY <1>0, <3>2
      <4> QED
        BY <1>1, <3>2, <4>1
    <3>3. CASE i > index + 1
      <4>1. /\ n + 1 - BufferSize - (index + 1) + i = n - BufferSize - index + i
            /\ ~(i <= index + 1) /\ i # index + 1 /\ i > index
        BY <1>0, <3>3
      <4> QED
        BY <1>1, <1>4, <1>5, <4>1
    <3> QED
      BY <3>1, <3>2, <3>3
  <2>2. ~(index + 1 = BufferSize) /\ ~(count < BufferSize) /\ count = BufferSize
    BY <1>0, <1>4, <1>5
  <2> QED
    BY <1>0, <1>5, <2>1, <2>2 DEF RingOf, b
<1>6. CASE n >= BufferSize /\ index + 1 = BufferSize
  <2>1. ASSUME NEW i \in 1..BufferSize
        PROVE  b[i] = IF i <= 0 THEN m[n + 1 - 0 + i] ELSE m[n + 1 - BufferSize - 0 + i]
    <3>1. CASE i <= index
      <4>1. n + 1 - BufferSize - 0 + i = n - index + i /\ ~(i <= 0) /\ i # index + 1
        BY <1>0, <1>6, <3>1
      <4> QED
        BY <1>1, <1>4, <1>6, <3>1, <4>1
    <3>2. CASE i = index + 1
      <4>1. n + 1 - BufferSize - 0 + i = n + 1 /\ ~(i <= 0)
        BY <1>0, <1>6, <3>2
      <4> QED
        BY <1>1, <3>2, <4>1
    <3> QED
      BY <1>6, <3>1, <3>2
  <2>2. ~(count < BufferSize) /\ count = BufferSize
    BY <1>0, <1>4, <1>6
  <2> QED
    BY <1>0, <1>6, <2>1, <2>2 DEF RingOf, b
<1> QED
  BY <1>0, <1>2, <1>3, <1>5, <1>6

\* Initially the ring and the log are empty.
LEMMA RingInit == TrackerInit => RingInv
<1> SUFFICES ASSUME TrackerInit PROVE RingInv
  OBVIOUS
<1>1. /\ ring.count = 0 /\ ring.index = 0
  BY DEF TrackerInit
<1>2. Len(log) = 0
  <2>1. log = <<>>
    BY DEF TrackerInit
  <2> QED
    BY <2>1
<1> QED
  BY <1>1, <1>2, TrackerAssumption DEF RingInv, RingOf

\* Every step keeps the order: only recordLatency and the end of Reset touch the ring.
LEMMA RingStep == TypeOK /\ RingInv /\ [TrackerNext]_trackerVars => RingInv'
<1> SUFFICES ASSUME TypeOK, RingInv, [TrackerNext]_trackerVars PROVE RingInv'
  OBVIOUS
<1>1. ASSUME NEW g \in Recorders, recordLatency(g) PROVE RingInv'
  <2> DEFINE l == resets * MaxRecords + Len(log) + 1
             n == Len(log)
  <2>1. ring' = Put(ring, l) /\ log' = Append(log, l)
    BY <1>1 DEF recordLatency
  <2>2. l \in Nat /\ n \in Nat /\ log \in [1..n -> Nat]
    <3>1. resets * MaxRecords \in Nat
      BY TrackerAssumption DEF TypeOK
    <3>2. Len(log) \in Nat /\ log \in [1..Len(log) -> Nat]
      BY LenProperties DEF TypeOK
    <3> QED
      BY <3>1, <3>2
  <2> HIDE DEF l
  <2>3. /\ log' \in Seq(Nat) /\ Len(log') = n + 1 /\ log'[n + 1] = l
        /\ \A i \in 1..n : log'[i] = log[i]
    BY <2>1, <2>2, AppendProperties DEF TypeOK
  <2>4. log' \in [1..(n + 1) -> Nat]
    BY <2>3, LenProperties
  <2> HIDE DEF n
  <2>5. /\ ring.buffer \in [1..BufferSize -> Nat] /\ ring.index \in 0..(BufferSize - 1)
    BY DEF TypeOK
  <2>6. RingOf(ring.buffer, ring.index, ring.count, log, n)
    BY DEF RingInv, n
  <2>7. RingOf([ring.buffer EXCEPT ![ring.index + 1] = log'[n + 1]],
               IF ring.index + 1 = BufferSize THEN 0 ELSE ring.index + 1,
               IF ring.count < BufferSize THEN ring.count + 1 ELSE ring.count, log', n + 1)
    BY <2>2, <2>3, <2>4, <2>5, <2>6, PutKeepsOrder
  <2>8. /\ ring'.buffer = [ring.buffer EXCEPT ![ring.index + 1] = log'[n + 1]]
        /\ ring'.index = IF ring.index + 1 = BufferSize THEN 0 ELSE ring.index + 1
        /\ ring'.count = IF ring.count < BufferSize THEN ring.count + 1 ELSE ring.count
    BY <2>1, <2>2, <2>3, <2>5, PutType, IndexStep
  <2> QED
    BY <2>3, <2>7, <2>8 DEF RingInv, RingOf
<1>2. CASE EmptyRing
  <2>1. /\ ring'.count = 0 /\ ring'.index = 0
    BY <1>2 DEF EmptyRing, TypeOK
  <2>2. Len(log') = 0
    <3>1. log' = <<>>
      BY <1>2 DEF EmptyRing
    <3> QED
      BY <3>1
  <2> QED
    BY <2>1, <2>2, TrackerAssumption DEF RingInv, RingOf
<1>3. ASSUME ring' = ring, log' = log PROVE RingInv'
  BY <1>3 DEF RingInv, RingOf
<1>4. CASE StartReset \/ StoreZero
  BY <1>3, <1>4 DEF StartReset, StoreZero, Clear
<1>5. ASSUME NEW g \in Recorders, (\E e \in Events : Record(g, e)) \/ Add(g) PROVE RingInv'
  BY <1>3, <1>5 DEF Record, Add
<1>6. ASSUME NEW r \in Readers, CopyLatencies(r) \/ Load(r) PROVE RingInv'
  BY <1>3, <1>6 DEF CopyLatencies, Load
<1>7. CASE UNCHANGED trackerVars
  BY <1>3, <1>7 DEF trackerVars
<1> QED
  BY <1>1, <1>2, <1>4, <1>5, <1>6, <1>7 DEF TrackerNext

\* The fields keep their types.
LEMMA TrackerTypes == TrackerSpec => []TypeOK
BY TypeInit, TypeStep, PTL DEF TrackerSpec

\* A ring whose entries are where they belong is read in the order of the log
\* (Snapshot).
LEMMA RingIsLog ==
  ASSUME TypeOK, RingInv
  PROVE  RingHoldsTheLatest
<1> DEFINE n == Len(log)
           start == 1 + (IF n > BufferSize THEN n - BufferSize ELSE 0)
           latest == SubSeq(log, start, n)
<1>1. /\ n \in Nat /\ log \in [1..n -> Nat] /\ BufferSize \in Nat \ {0}
  BY LenProperties, TrackerAssumption DEF TypeOK
<1>2. /\ RingOf(ring.buffer, ring.index, ring.count, log, n)
      /\ ring.index \in 0..(BufferSize - 1)
  BY DEF RingInv, TypeOK
<1>3. /\ Contents(ring) \in Seq(Nat) /\ Len(Contents(ring)) = ring.count
      /\ \A i \in 1..ring.count :
           Contents(ring)[i] =
             IF ring.count < BufferSize THEN ring.buffer[i]
             ELSE IF i <= BufferSize - ring.index THEN ring.buffer[ring.index + i]
                  ELSE ring.buffer[i - (BufferSize - ring.index)]
  BY ContentsType
<1> HIDE DEF n
<1>4. start \in 1..(n + 1) /\ \A i \in start..n : log[i] \in Nat
  BY <1>1
<1>5. /\ latest \in Seq(Nat) /\ Len(latest) = IF start <= n THEN n - start + 1 ELSE 0
      /\ \A i \in 1..(n - start + 1) : latest[i] = log[start + i - 1]
  <2>1. start \in Int /\ n \in Int
    BY <1>1, <1>4
  <2> HIDE DEF start
  <2> QED
    BY <1>4, <2>1, SubSeqProperties
<1> DEFINE have == Contents(ring)
<1> HIDE DEF latest, have
<1>6. ring.count = IF n < BufferSize THEN n ELSE BufferSize
  BY <1>2 DEF RingOf
<1>7. n - start + 1 = ring.count /\ Len(latest) = ring.count
  BY <1>1, <1>5, <1>6
<1>8. ASSUME NEW i \in 1..ring.count PROVE have[i] = latest[i]
  <2>1. latest[i] = log[start + i - 1]
    BY <1>5, <1>7
  <2>2. CASE n < BufferSize
    <3>1. ring.count < BufferSize /\ i \in 1..n /\ start + i - 1 = i
      BY <1>1, <1>6, <2>2
    <3>2. ring.buffer[i] = log[i]
      BY <1>2, <2>2, <3>1 DEF RingOf
    <3> QED
      BY <1>3, <2>1, <3>1, <3>2 DEF have
  <2>3. CASE n >= BufferSize
    <3>1. /\ ring.count = BufferSize /\ ~(ring.count < BufferSize) /\ i \in 1..BufferSize
          /\ start + i - 1 = n - BufferSize + i
      BY <1>1, <1>6, <2>3
    <3>2. \A k \in 1..BufferSize :
            ring.buffer[k] = IF k <= ring.index THEN log[n - ring.index + k]
                             ELSE log[n - BufferSize - ring.index + k]
      BY <1>1, <1>2, <2>3 DEF RingOf
    <3>3. CASE i <= BufferSize - ring.index
      <4>1. /\ ring.index + i \in 1..BufferSize /\ ~(ring.index + i <= ring.index)
            /\ n - BufferSize - ring.index + (ring.index + i) = n - BufferSize + i
        BY <1>1, <1>2, <3>1, <3>3
      <4>2. have[i] = ring.buffer[ring.index + i]
        BY <1>3, <3>1, <3>3 DEF have
      <4> QED
        BY <2>1, <3>1, <3>2, <4>1, <4>2
    <3>4. CASE ~(i <= BufferSize - ring.index)
      <4> DEFINE k == i - (BufferSize - ring.index)
      <4>1. /\ k \in 1..BufferSize /\ k <= ring.index
            /\ n - ring.index + k = n - BufferSize + i
        <5>1. n \in Nat /\ BufferSize \in Nat /\ ring.index \in 0..(BufferSize - 1)
          BY <1>1, <1>2
        <5>2. i \in 1..BufferSize
          BY <3>1
        <5> HIDE DEF start
        <5> QED
          BY <3>4, <5>1, <5>2
      <4>2. have[i] = ring.buffer[k]
        BY <1>3, <3>1, <3>4 DEF have
      <4> HIDE DEF k
      <4> QED
        BY <2>1, <3>1, <3>2, <4>1, <4>2
    <3> QED
      BY <3>3, <3>4
  <2> QED
    BY <1>1, <2>2, <2>3
<1>9. have = latest
  BY <1>3, <1>5, <1>7, <1>8, SeqEqual DEF have
<1> QED
  BY <1>9 DEF RingHoldsTheLatest, have, latest, n

\* For any size of the buffer and any number of goroutines, events and Resets: the
\* ring holds the latest latencies, oldest first, as Snapshot reads them (recordLatency,
\* Snapshot, Reset).
THEOREM LatestLatencies == TrackerSpec => []RingHoldsTheLatest
BY RingInit, RingStep, TrackerTypes, RingIsLog, PTL DEF TrackerSpec

-----------------------------------------------------------------------------
\* The events that read.
Gets == {"memoryHit", "memoryMiss", "redisHit", "redisMiss"}

\* Goroutines that have counted their event, in getCount, setCount or
\* deleteCount, and have yet to record its latency.
BeforeLatency ==
  {g \in Recorders : \/ recording[g].adds = 2 /\ recording[g].event \in Gets
                     \/ recording[g].adds >= 1 /\ recording[g].event \in {"set", "delete"}}

\* While a Reset that has met nobody is running, what it has cleared is zero.
ResetInv ==
  ~raced /\ clearing # Nobody =>
    /\ \A g \in Recorders : recording[g] = Idle
    /\ \A i \in 1..clearing : counters[Stores[i]] = 0

\* The counters against the log: every latency belongs to one event counted.
BalanceInv ==
  ~raced /\ clearing = Nobody =>
    /\ LayerCounts(counters) = counters["getCount"] + Cardinality(BetweenAdds)
    /\ Len(log) + Cardinality(BeforeLatency)
         = counters["getCount"] + counters["setCount"] + counters["deleteCount"]

\* What the reader has loaded, or would load now, as the i-th counter.
ValueOf(s, i) == IF i <= Len(s.loaded) THEN s.loaded[i] ELSE counters[Loads[i]]

\* A snapshot that no Reset has touched, while it is being taken.
SnapshotInv ==
  ~raced => \A r \in Readers : ~snapshot[r].torn =>
    LET s == snapshot[r] IN
    /\ clearing = Nobody
    /\ \A i \in 1..Len(s.loaded) : s.loaded[i] <= counters[Loads[i]]
    /\ Len(s.loaded) >= 5 =>
         s.loaded[1] + s.loaded[2] + s.loaded[3] + s.loaded[4]
           <= s.loaded[5] + Cardinality(Recorders)
    /\ Len(s.latencies) <= ValueOf(s, 5) + ValueOf(s, 6) + ValueOf(s, 7)

-----------------------------------------------------------------------------
\* While Reset clears the counters nobody can have begun to record, or it has met
\* somebody; what it has cleared stays zero.
LEMMA ResetStep ==
  TypeOK /\ ResetInv /\ [TrackerNext]_trackerVars => ResetInv'
<1> SUFFICES ASSUME TypeOK, ResetInv, [TrackerNext]_trackerVars,
                    ~raced', clearing' # Nobody
             PROVE  /\ \A g \in Recorders : recording'[g] = Idle
                    /\ \A i \in 1..clearing' : counters'[Stores[i]] = 0
  BY DEF ResetInv
<1>1. ASSUME ~raced, clearing = clearing'
      PROVE  /\ \A g \in Recorders : recording[g] = Idle
             /\ \A i \in 1..clearing : counters[Stores[i]] = 0
  BY <1>1 DEF ResetInv
<1>2. ASSUME NEW g \in Recorders, (\E e \in Events : Record(g, e)) \/ Add(g) \/ recordLatency(g)
      PROVE  FALSE
  <2>1. CASE \E e \in Events : Record(g, e)
    BY <2>1 DEF Record
  <2>2. CASE Add(g) \/ recordLatency(g)
    BY <1>1, <2>2 DEF Add, recordLatency, Busy
  <2> QED
    BY <1>2, <2>1, <2>2
<1>3. CASE (\E r \in Readers : CopyLatencies(r) \/ Load(r)) \/ UNCHANGED trackerVars
  <2>1. UNCHANGED <<raced, clearing, recording, counters>>
    BY <1>3 DEF CopyLatencies, Load, trackerVars
  <2> QED
    BY <1>1, <2>1
<1>4. ASSUME NEW k \in 0..9, clearing = k, clearing' = k + 1, Clear(Stores[k + 1])
      PROVE  /\ \A g \in Recorders : recording'[g] = Idle
             /\ \A i \in 1..clearing' : counters'[Stores[i]] = 0
  <2>1. ~raced /\ recording' = recording /\ \A g \in Recorders : recording[g] = Idle
    BY <1>4 DEF Clear, Busy
  <2>2. \A i \in 1..k : counters[Stores[i]] = 0
    BY <1>4, <2>1 DEF ResetInv, Nobody
  <2>3. /\ counters' = [counters EXCEPT ![Stores[k + 1]] = 0] /\ Stores[k + 1] \in Counters
        /\ \A i \in 1..10 : Stores[i] \in Counters
    BY <1>4, StoresAre DEF Clear
  <2>4. counters \in [Counters -> Nat]
    BY DEF TypeOK
  <2>5. \A i \in 1..k : counters'[Stores[i]] = 0
    BY <2>2, <2>3, <2>4
  <2>6. counters'[Stores[k + 1]] = 0
    BY <2>3, <2>4
  <2>7. \A i \in 1..(k + 1) : i \in 1..k \/ i = k + 1
    OBVIOUS
  <2> QED
    BY <1>4, <2>1, <2>5, <2>6, <2>7
<1>5. CASE StartReset
  BY <1>4, <1>5 DEF StartReset, Nobody
<1>6. CASE StoreZero
  <2>1. clearing \in 1..9
    BY <1>6, StoresAre DEF StoreZero
  <2> QED
    BY <1>4, <1>6, <2>1 DEF StoreZero
<1>7. CASE EmptyRing
  BY <1>7 DEF EmptyRing
<1> QED
  BY <1>2, <1>3, <1>5, <1>6, <1>7 DEF TrackerNext

-----------------------------------------------------------------------------
\* A set of goroutines grows or shrinks by one if it changes for one goroutine.
LEMMA OneMoves ==
  ASSUME NEW S \in SUBSET Recorders, NEW T \in SUBSET Recorders, NEW g \in Recorders,
         \A h \in Recorders : h # g => (h \in S <=> h \in T)
  PROVE  /\ Cardinality(S) \in Nat /\ Cardinality(T) \in Nat
         /\ (g \in S <=> g \in T) => Cardinality(T) = Cardinality(S)
         /\ g \notin S /\ g \in T => Cardinality(T) = Cardinality(S) + 1
         /\ g \in S /\ g \notin T => Cardinality(T) = Cardinality(S) - 1
<1>1. IsFiniteSet(S) /\ IsFiniteSet(T)
  BY FS_Subset, TrackerAssumption
<1>2. Cardinality(S) \in Nat /\ Cardinality(T) \in Nat
  BY <1>1, FS_CardinalityType
<1>3. ASSUME g \in S <=> g \in T PROVE Cardinality(T) = Cardinality(S)
  <2>1. T = S
    BY <1>3
  <2> QED
    BY <2>1
<1>4. ASSUME g \notin S, g \in T PROVE Cardinality(T) = Cardinality(S) + 1
  <2>1. T = S \cup {g}
    BY <1>4
  <2> QED
    BY <1>1, <1>4, <2>1, FS_AddElement
<1>5. ASSUME g \in S, g \notin T PROVE Cardinality(T) = Cardinality(S) - 1
  <2>1. T = S \ {g}
    BY <1>5
  <2> QED
    BY <1>1, <1>5, <2>1, FS_RemoveElement
<1> QED
  BY <1>2, <1>3, <1>4, <1>5

\* Where a recording stands.
IsBetween(x) == x.adds = 1 /\ x.event \in Gets
IsBefore(x)  == \/ x.adds = 2 /\ x.event \in Gets
                \/ x.adds >= 1 /\ x.event \in {"set", "delete"}

\* The two sets of goroutines when one of them makes a step.
LEMMA RecordingMoves ==
  ASSUME NEW g \in Recorders, \A h \in Recorders : h # g => recording'[h] = recording[h]
  PROVE  /\ Cardinality(BetweenAdds) \in Nat /\ Cardinality(BeforeLatency) \in Nat
         /\ Cardinality(BetweenAdds') \in Nat /\ Cardinality(BeforeLatency') \in Nat
         /\ (IsBetween(recording[g]) <=> IsBetween(recording'[g])) =>
              Cardinality(BetweenAdds') = Cardinality(BetweenAdds)
         /\ ~IsBetween(recording[g]) /\ IsBetween(recording'[g]) =>
              Cardinality(BetweenAdds') = Cardinality(BetweenAdds) + 1
         /\ IsBetween(recording[g]) /\ ~IsBetween(recording'[g]) =>
              Cardinality(BetweenAdds') = Cardinality(BetweenAdds) - 1
         /\ (IsBefore(recording[g]) <=> IsBefore(recording'[g])) =>
              Cardinality(BeforeLatency') = Cardinality(BeforeLatency)
         /\ ~IsBefore(recording[g]) /\ IsBefore(recording'[g]) =>
              Cardinality(BeforeLatency') = Cardinality(BeforeLatency) + 1
         /\ IsBefore(recording[g]) /\ ~IsBefore(recording'[g]) =>
              Cardinality(BeforeLatency') = Cardinality(BeforeLatency) - 1
<1>1. /\ BetweenAdds = {h \in Recorders : IsBetween(recording[h])}
      /\ BetweenAdds' = {h \in Recorders : IsBetween(recording'[h])}
      /\ BeforeLatency = {h \in Recorders : IsBefore(recording[h])}
      /\ BeforeLatency' = {h \in Recorders : IsBefore(recording'[h])}
  BY DEF BetweenAdds, BeforeLatency, IsBetween, IsBefore, Gets
<1>2. /\ BetweenAdds \in SUBSET Recorders /\ BetweenAdds' \in SUBSET Recorders
      /\ BeforeLatency \in SUBSET Recorders /\ BeforeLatency' \in SUBSET Recorders
  BY <1>1
<1>3. /\ \A h \in Recorders : h # g => (h \in BetweenAdds <=> h \in BetweenAdds')
      /\ \A h \in Recorders : h # g => (h \in BeforeLatency <=> h \in BeforeLatency')
  BY <1>1
<1>4. /\ g \in BetweenAdds <=> IsBetween(recording[g])
      /\ g \in BetweenAdds' <=> IsBetween(recording'[g])
      /\ g \in BeforeLatency <=> IsBefore(recording[g])
      /\ g \in BeforeLatency' <=> IsBefore(recording'[g])
  BY <1>1
<1>5. /\ Cardinality(BetweenAdds) \in Nat /\ Cardinality(BetweenAdds') \in Nat
      /\ (g \in BetweenAdds <=> g \in BetweenAdds')
           => Cardinality(BetweenAdds') = Cardinality(BetweenAdds)
      /\ g \notin BetweenAdds /\ g \in BetweenAdds'
           => Cardinality(BetweenAdds') = Cardinality(BetweenAdds) + 1
      /\ g \in BetweenAdds /\ g \notin BetweenAdds'
           => Cardinality(BetweenAdds') = Cardinality(BetweenAdds) - 1
  BY <1>2, <1>3, OneMoves
<1>6. /\ Cardinality(BeforeLatency) \in Nat /\ Cardinality(BeforeLatency') \in Nat
      /\ (g \in BeforeLatency <=> g \in BeforeLatency')
           => Cardinality(BeforeLatency') = Cardinality(BeforeLatency)
      /\ g \notin BeforeLatency /\ g \in BeforeLatency'
           => Cardinality(BeforeLatency') = Cardinality(BeforeLatency) + 1
      /\ g \in BeforeLatency /\ g \notin BeforeLatency'
           => Cardinality(BeforeLatency') = Cardinality(BeforeLatency) - 1
  BY <1>2, <1>3, OneMoves
<1> QED
  BY <1>4, <1>5, <1>6

\* One Add: the counter it is made to, and where the recording stands next.
LEMMA AddEffect ==
  ASSUME TypeOK, NEW g \in Recorders, Add(g)
  PROVE  LET e == recording[g].event
             n == recording[g].adds + 1
             c == Adds[e][n]
         IN  /\ e \in DOMAIN Adds /\ n \in 1..2 /\ n <= Len(Adds[e]) /\ c \in Counters
             /\ counters'[c] = counters[c] + 1
             /\ \A d \in Counters : d # c => counters'[d] = counters[d]
             /\ \A h \in Recorders : h # g => recording'[h] = recording[h]
             /\ ~(n = Len(Adds[e]) /\ ~HasLatency(e)) =>
                  recording'[g].event = e /\ recording'[g].adds = n
             /\ n = Len(Adds[e]) /\ ~HasLatency(e) => recording'[g] = Idle
<1> DEFINE e == recording[g].event
           n == recording[g].adds + 1
           c == Adds[e][n]
<1>1. recording[g] \in Recordings
  BY DEF TypeOK, Add, Busy
<1>2. /\ e \in DOMAIN Adds /\ recording[g].adds \in 0..2
      /\ recording[g] = [event |-> e, adds |-> n - 1]
  BY <1>1, RecordingFields
<1>3. Len(Adds[e]) \in {1, 2}
  BY <1>2, LengthOfAdds
<1>4. n \in 1..2 /\ n <= Len(Adds[e]) /\ n \in 1..Len(Adds[e])
  <2> DEFINE m == Len(Adds[e])
  <2>1. n \in Nat /\ n >= 1 /\ n <= m /\ m \in {1, 2}
    BY <1>2, <1>3 DEF Add
  <2> HIDE DEF n, m
  <2>2. n \in 1..2 /\ n <= m /\ n \in 1..m
    BY <2>1
  <2> QED
    BY <2>2 DEF m
<1>5. c \in Counters
  <2> HIDE DEF e, n
  <2> QED
    BY <1>2, <1>4, AddsTo, CountersAre
<1>6. counters' = [counters EXCEPT ![c] = @ + 1] /\ counters \in [Counters -> Nat]
  BY DEF Add, TypeOK
<1>7. /\ counters'[c] = counters[c] + 1
      /\ \A d \in Counters : d # c => counters'[d] = counters[d]
  <2> HIDE DEF c
  <2> QED
    BY <1>5, <1>6
<1> DEFINE after == IF n = Len(Adds[e]) /\ ~HasLatency(e)
                     THEN Idle ELSE [recording[g] EXCEPT !.adds = n]
<1>8. /\ recording' = [recording EXCEPT ![g] = after]
      /\ recording \in [Recorders -> Recordings \cup {Idle}]
  BY DEF Add, TypeOK
<1>9. recording'[g] = after /\ \A h \in Recorders : h # g => recording'[h] = recording[h]
  <2> HIDE DEF after
  <2> QED
    BY <1>8
<1>10. ~(n = Len(Adds[e]) /\ ~HasLatency(e)) => after.event = e /\ after.adds = n
  BY <1>2
<1> HIDE DEF after
<1>11. /\ ~(n = Len(Adds[e]) /\ ~HasLatency(e)) =>
            recording'[g].event = e /\ recording'[g].adds = n
       /\ n = Len(Adds[e]) /\ ~HasLatency(e) => recording'[g] = Idle
  BY <1>9, <1>10 DEF after
<1> QED
  BY <1>2, <1>4, <1>5, <1>7, <1>9, <1>11

\* The counters again, as names the sums can be read off.
LEMMA CounterNames ==
  {"memoryHits", "memoryMisses", "redisHits", "redisMisses", "getCount", "setCount",
   "deleteCount", "errorCount", "totalBytesWritten", "cbStateChanges"} = Counters
BY CountersAre DEF Names

\* The counters of hits and misses.
LayerCounters == {"memoryHits", "memoryMisses", "redisHits", "redisMisses"}

\* A hit or miss is added to its layer first, and to getCount second.
LEMMA ReadCounters ==
  ASSUME NEW e \in Gets
  PROVE  /\ e \in DOMAIN Adds /\ Len(Adds[e]) = 2 /\ HasLatency(e)
         /\ Adds[e][1] \in LayerCounters /\ Adds[e][2] = "getCount"
<1>1. CASE e = "memoryHit"
  BY <1>1, AddsOf DEF HasLatency, LayerCounters
<1>2. CASE e = "memoryMiss"
  BY <1>2, AddsOf DEF HasLatency, LayerCounters
<1>3. CASE e = "redisHit"
  BY <1>3, AddsOf DEF HasLatency, LayerCounters
<1>4. CASE e = "redisMiss"
  BY <1>4, AddsOf DEF HasLatency, LayerCounters
<1> QED
  BY <1>1, <1>2, <1>3, <1>4 DEF Gets

\* What the other events are added to, and which of them have a latency.
LEMMA OtherCounters ==
  /\ Len(Adds["set"]) = 2 /\ Adds["set"][1] = "setCount"
  /\ Adds["set"][2] = "totalBytesWritten" /\ HasLatency("set")
  /\ Len(Adds["delete"]) = 1 /\ Adds["delete"][1] = "deleteCount" /\ HasLatency("delete")
  /\ Len(Adds["error"]) = 1 /\ Adds["error"][1] = "errorCount" /\ ~HasLatency("error")
  /\ Len(Adds["stateChange"]) = 1 /\ Adds["stateChange"][1] = "cbStateChanges"
  /\ ~HasLatency("stateChange")
BY AddsOf DEF HasLatency

\* An event is a read or one of four others.
LEMMA AllEvents ==
  ASSUME NEW e \in DOMAIN Adds
  PROVE  e \in Gets \/ e \in {"set", "delete", "error", "stateChange"}
BY AddsOf DEF Gets

\* The sum of the layers' counters follows the one that grows.
LEMMA LayerSum ==
  ASSUME counters \in [Counters -> Nat], counters' \in [Counters -> Nat], NEW c \in Counters,
         counters'[c] = counters[c] + 1,
         \A d \in Counters : d # c => counters'[d] = counters[d]
  PROVE  /\ LayerCounts(counters) \in Nat /\ LayerCounts(counters') \in Nat
         /\ c \in LayerCounters => LayerCounts(counters') = LayerCounts(counters) + 1
         /\ c \notin LayerCounters => LayerCounts(counters') = LayerCounts(counters)
<1>1. LayerCounters \subseteq Counters
  BY CounterNames DEF LayerCounters
<1>2. \A d \in LayerCounters : counters[d] \in Nat /\ counters'[d] \in Nat
  BY <1>1
<1>3. CASE c \notin LayerCounters
  BY <1>1, <1>2, <1>3 DEF LayerCounts, LayerCounters
<1>4. CASE c = "memoryHits"
  BY <1>1, <1>2, <1>4 DEF LayerCounts, LayerCounters
<1>5. CASE c = "memoryMisses"
  BY <1>1, <1>2, <1>5 DEF LayerCounts, LayerCounters
<1>6. CASE c = "redisHits"
  BY <1>1, <1>2, <1>6 DEF LayerCounts, LayerCounters
<1>7. CASE c = "redisMisses"
  BY <1>1, <1>2, <1>7 DEF LayerCounts, LayerCounters
<1> QED
  BY <1>3, <1>4, <1>5, <1>6, <1>7 DEF LayerCounters

\* BalanceInv, without the Resets.
Balance(k) ==
  /\ LayerCounts(counters) = counters["getCount"] + Cardinality(BetweenAdds)
  /\ k + Cardinality(BeforeLatency)
       = counters["getCount"] + counters["setCount"] + counters["deleteCount"]

\* The only Add of an event is its first.
LEMMA OnlyAdd ==
  ASSUME NEW n \in 1..2, NEW m, m = 1, n <= m
  PROVE  n = 1
OBVIOUS

\* An Add keeps the balance: the hit or miss of a read goes before its get, and the
\* Add that counts an event goes before its latency.
LEMMA AddBalance ==
  ASSUME TypeOK, TypeOK', NEW g \in Recorders, Add(g), Balance(Len(log))
  PROVE  Balance(Len(log))'
<1> DEFINE e == recording[g].event
           n == recording[g].adds + 1
           c == Adds[e][n]
           k == Len(log)
           ba == Cardinality(BetweenAdds)
           bl == Cardinality(BeforeLatency)
<1>1. /\ counters \in [Counters -> Nat] /\ counters' \in [Counters -> Nat] /\ k \in Nat
      /\ k' = k
  BY LenProperties DEF TypeOK, Add
<1>2. /\ e \in DOMAIN Adds /\ n \in 1..2 /\ n <= Len(Adds[e]) /\ c \in Counters
      /\ counters'[c] = counters[c] + 1
      /\ \A d \in Counters : d # c => counters'[d] = counters[d]
      /\ \A h \in Recorders : h # g => recording'[h] = recording[h]
      /\ ~(n = Len(Adds[e]) /\ ~HasLatency(e)) =>
           recording'[g].event = e /\ recording'[g].adds = n
      /\ n = Len(Adds[e]) /\ ~HasLatency(e) => recording'[g] = Idle
  BY AddEffect
<1>3. recording[g].event = e /\ recording[g].adds = n - 1
  <2>1. recording[g] \in Recordings
    BY DEF TypeOK, Add, Busy
  <2>2. recording[g].adds \in 0..2
    BY <2>1, RecordingFields
  <2> QED
    BY <2>2
<1> HIDE DEF e, n, k
<1>4. /\ ba \in Nat /\ bl \in Nat /\ ba' \in Nat /\ bl' \in Nat
      /\ (IsBetween(recording[g]) <=> IsBetween(recording'[g])) => ba' = ba
      /\ ~IsBetween(recording[g]) /\ IsBetween(recording'[g]) => ba' = ba + 1
      /\ IsBetween(recording[g]) /\ ~IsBetween(recording'[g]) => ba' = ba - 1
      /\ (IsBefore(recording[g]) <=> IsBefore(recording'[g])) => bl' = bl
      /\ ~IsBefore(recording[g]) /\ IsBefore(recording'[g]) => bl' = bl + 1
      /\ IsBefore(recording[g]) /\ ~IsBefore(recording'[g]) => bl' = bl - 1
  BY <1>2, RecordingMoves
<1> HIDE DEF c
<1>5. /\ LayerCounts(counters) \in Nat /\ LayerCounts(counters') \in Nat
      /\ c \in LayerCounters => LayerCounts(counters') = LayerCounts(counters) + 1
      /\ c \notin LayerCounters => LayerCounts(counters') = LayerCounts(counters)
  BY <1>1, <1>2, LayerSum
<1> DEFINE get == counters["getCount"]
           set == counters["setCount"]
           del == counters["deleteCount"]
           sum == LayerCounts(counters)
<1>6. /\ get \in Nat /\ set \in Nat /\ del \in Nat
      /\ get' = IF c = "getCount" THEN get + 1 ELSE get
      /\ set' = IF c = "setCount" THEN set + 1 ELSE set
      /\ del' = IF c = "deleteCount" THEN del + 1 ELSE del
  BY <1>1, <1>2, CounterNames
<1>7. sum = get + ba /\ k + bl = get + set + del
  BY DEF Balance, k
<1>8. SUFFICES sum' = get' + ba' /\ k' + bl' = get' + set' + del'
  BY DEF Balance, k, LayerCounts, BetweenAdds, BeforeLatency
<1> HIDE DEF ba, bl, get, set, del, sum
<1>9. CASE e \in Gets
  <2>1. /\ recording'[g].event = e /\ recording'[g].adds = n
        /\ n = 1 => c \in LayerCounters
        /\ n = 2 => c = "getCount"
    BY <1>2, <1>9, ReadCounters DEF c
  <2>2. CASE n = 1
    <3>1. /\ ~IsBetween(recording[g]) /\ IsBetween(recording'[g])
          /\ ~IsBefore(recording[g]) /\ ~IsBefore(recording'[g])
      BY <1>3, <1>9, <2>1, <2>2 DEF IsBetween, IsBefore, Gets
    <3>2. /\ ba' = ba + 1 /\ bl' = bl /\ sum' = sum + 1
          /\ get' = get /\ set' = set /\ del' = del
      BY <1>4, <1>5, <1>6, <2>1, <2>2, <3>1 DEF LayerCounters, sum
    <3> QED
      BY <1>1, <1>4, <1>5, <1>6, <1>7, <3>2 DEF sum
  <2>3. CASE n = 2
    <3>1. /\ IsBetween(recording[g]) /\ ~IsBetween(recording'[g])
          /\ ~IsBefore(recording[g]) /\ IsBefore(recording'[g])
      BY <1>3, <1>9, <2>1, <2>3 DEF IsBetween, IsBefore, Gets
    <3>2. /\ ba' = ba - 1 /\ bl' = bl + 1 /\ sum' = sum
          /\ get' = get + 1 /\ set' = set /\ del' = del
      BY <1>4, <1>5, <1>6, <2>1, <2>3, <3>1 DEF LayerCounters, sum
    <3> QED
      BY <1>1, <1>4, <1>5, <1>6, <1>7, <3>2 DEF sum
  <2> QED
    BY <1>2, <2>2, <2>3
<1>10. CASE e \in {"set", "delete"} /\ n = 1
  <2>1. /\ recording'[g].event = e /\ recording'[g].adds = n
        /\ e = "set" => c = "setCount"
        /\ e = "delete" => c = "deleteCount"
    BY <1>2, <1>10, OtherCounters DEF c
  <2>2. /\ ~IsBetween(recording[g]) /\ ~IsBetween(recording'[g])
        /\ ~IsBefore(recording[g]) /\ IsBefore(recording'[g])
    BY <1>3, <1>10, <2>1 DEF IsBetween, IsBefore, Gets
  <2>3. /\ ba' = ba /\ bl' = bl + 1 /\ sum' = sum /\ get' = get
        /\ set' + del' = set + del + 1
    BY <1>4, <1>5, <1>6, <1>10, <2>1, <2>2 DEF LayerCounters, sum
  <2> QED
    BY <1>1, <1>4, <1>5, <1>6, <1>7, <2>3 DEF sum
<1>11. CASE e = "set" /\ n = 2
  <2>1. recording'[g].event = e /\ recording'[g].adds = n /\ c = "totalBytesWritten"
    BY <1>2, <1>11, OtherCounters DEF c
  <2>2. /\ ~IsBetween(recording[g]) /\ ~IsBetween(recording'[g])
        /\ IsBefore(recording[g]) /\ IsBefore(recording'[g])
    BY <1>3, <1>11, <2>1 DEF IsBetween, IsBefore, Gets
  <2>3. ba' = ba /\ bl' = bl /\ sum' = sum /\ get' = get /\ set' = set /\ del' = del
    BY <1>4, <1>5, <1>6, <2>1, <2>2 DEF LayerCounters, sum
  <2> QED
    BY <1>1, <1>4, <1>5, <1>6, <1>7, <2>3 DEF sum
<1>12. CASE e \in {"error", "stateChange"}
  <2>0. Len(Adds[e]) = 1 /\ ~HasLatency(e) /\ Adds[e][1] \in {"errorCount", "cbStateChanges"}
    <3>1. CASE e = "error"
      BY <3>1, OtherCounters
    <3>2. CASE e = "stateChange"
      BY <3>2, OtherCounters
    <3> QED
      BY <1>12, <3>1, <3>2
  <2>1. /\ recording'[g] = Idle /\ c \in {"errorCount", "cbStateChanges"} /\ n = 1
    <3>1. n = 1
      BY <1>2, <2>0, OnlyAdd
    <3>2. recording'[g] = Idle
      BY <1>2, <2>0, <3>1, Zenon
    <3>3. c \in {"errorCount", "cbStateChanges"}
      BY <2>0, <3>1, Zenon DEF c
    <3> QED
      BY <3>1, <3>2, <3>3
  <2>2. /\ ~IsBetween(recording[g]) /\ ~IsBetween(recording'[g])
        /\ ~IsBefore(recording[g]) /\ ~IsBefore(recording'[g])
    BY <1>3, <1>12, <2>1 DEF IsBetween, IsBefore, Gets, Idle
  <2>3. ba' = ba /\ bl' = bl /\ sum' = sum /\ get' = get /\ set' = set /\ del' = del
    BY <1>4, <1>5, <1>6, <2>1, <2>2 DEF LayerCounters, sum
  <2> QED
    BY <1>1, <1>4, <1>5, <1>6, <1>7, <2>3 DEF sum
<1>13. ASSUME e = "delete" PROVE n = 1
  <2>1. Len(Adds[e]) = 1
    BY <1>13, OtherCounters
  <2> QED
    BY <1>2, <2>1, OnlyAdd
<1> QED
  BY <1>2, <1>9, <1>10, <1>11, <1>12, <1>13, AllEvents
\* If nobody records anything the two sets are empty.
LEMMA QuietCardinalities ==
  ASSUME \A g \in Recorders : recording[g] = Idle
  PROVE  Cardinality(BetweenAdds) = 0 /\ Cardinality(BeforeLatency) = 0
<1>1. \A g \in Recorders : recording[g].adds = 0
  BY DEF Idle
<1>2. BetweenAdds = {} /\ BeforeLatency = {}
  BY <1>1 DEF BetweenAdds, BeforeLatency
<1> QED
  BY <1>2, FS_EmptySet

\* Beginning to record an event keeps the balance.
LEMMA RecordBalance ==
  ASSUME TypeOK, NEW g \in Recorders, NEW e \in Events, Record(g, e), Balance(Len(log))
  PROVE  Balance(Len(log))'
<1>1. /\ recording[g] = Idle
      /\ recording' = [recording EXCEPT ![g] = [event |-> e, adds |-> 0]]
      /\ counters' = counters /\ log' = log
  BY DEF Record, Busy
<1>2. /\ recording'[g].adds = 0 /\ recording[g].adds = 0
      /\ \A h \in Recorders : h # g => recording'[h] = recording[h]
  BY <1>1 DEF TypeOK, Idle
<1>3. /\ ~IsBetween(recording[g]) /\ ~IsBetween(recording'[g])
      /\ ~IsBefore(recording[g]) /\ ~IsBefore(recording'[g])
  BY <1>2 DEF IsBetween, IsBefore
<1>4. /\ Cardinality(BetweenAdds') = Cardinality(BetweenAdds)
      /\ Cardinality(BeforeLatency') = Cardinality(BeforeLatency)
  BY <1>2, <1>3, RecordingMoves
<1> QED
  BY <1>1, <1>4, Zenon DEF Balance, LayerCounts

\* A latency moves its event from the goroutines that owe one into the log
\* (recordLatency).
LEMMA LatencyBalance ==
  ASSUME TypeOK, NEW g \in Recorders, recordLatency(g), Balance(Len(log))
  PROVE  Balance(Len(log))'
<1> DEFINE e == recording[g].event
           a == recording[g].adds
           k == Len(log)
           l == resets * MaxRecords + Len(log) + 1
<1>1. recording[g] \in Recordings /\ a = Len(Adds[e]) /\ counters' = counters
  BY DEF recordLatency, Busy, TypeOK
<1>2. /\ recording'[g] = Idle
      /\ \A h \in Recorders : h # g => recording'[h] = recording[h]
  BY DEF recordLatency, TypeOK
<1>3. e \in Gets \cup {"set", "delete"} /\ (e \in Gets => a = 2) /\ a >= 1
  <2>1. e \in DOMAIN Adds /\ HasLatency(e)
    <3>1. e \in DOMAIN Adds
      BY <1>1, RecordingFields
    <3>2. HasLatency(e) \/ a < Len(Adds[e])
      BY <1>1 DEF Recordings
    <3>3. Len(Adds[e]) \in {1, 2}
      BY <3>1, LengthOfAdds
    <3>4. ~(a < Len(Adds[e]))
      <4> DEFINE m == Len(Adds[e])
      <4>1. m \in {1, 2} /\ a = m
        BY <1>1, <3>3
      <4> HIDE DEF m, a
      <4>2. ~(a < m)
        BY <4>1
      <4> QED
        BY <4>2 DEF m
    <3> QED
      BY <3>1, <3>2, <3>4
  <2> HIDE DEF e, a
  <2>2. CASE e \in Gets
    BY <1>1, <2>2, ReadCounters
  <2>3. CASE e = "set"
    BY <1>1, <2>3, OtherCounters DEF Gets
  <2>4. CASE e = "delete"
    BY <1>1, <2>4, OtherCounters DEF Gets
  <2>5. e # "error" /\ e # "stateChange"
    BY <2>1 DEF HasLatency
  <2> QED
    BY <2>1, <2>2, <2>3, <2>4, <2>5, AllEvents
<1>4. k' = k + 1 /\ k \in Nat
  <2>1. l \in Nat
    <3>1. resets * MaxRecords \in Nat
      BY TrackerAssumption DEF TypeOK
    <3>2. Len(log) \in Nat
      BY LenProperties DEF TypeOK
    <3> QED
      BY <3>1, <3>2
  <2>2. log' = Append(log, l)
    BY DEF recordLatency
  <2> HIDE DEF l
  <2> QED
    BY <2>1, <2>2, AppendProperties, LenProperties DEF TypeOK
<1>5. /\ ~IsBetween(recording[g]) /\ ~IsBetween(recording'[g])
      /\ IsBefore(recording[g]) /\ ~IsBefore(recording'[g])
  BY <1>2, <1>3 DEF IsBetween, IsBefore, Idle, Gets
<1> DEFINE ba == Cardinality(BetweenAdds)
           bl == Cardinality(BeforeLatency)
<1>6. ba' = ba /\ bl' = bl - 1 /\ bl \in Nat
  BY <1>2, <1>5, RecordingMoves
<1> DEFINE sum == counters["getCount"] + counters["setCount"] + counters["deleteCount"]
           get == counters["getCount"]
           layers == LayerCounts(counters)
<1>7. /\ sum' = sum /\ get' = get /\ layers' = layers /\ layers = get + ba /\ k + bl = sum
  BY <1>1 DEF Balance, LayerCounts
<1> SUFFICES layers' = get' + ba' /\ k' + bl' = sum'
  BY DEF Balance, LayerCounts, BetweenAdds, BeforeLatency
<1> HIDE DEF ba, bl, k, sum, get, layers
<1> QED
  BY <1>4, <1>6, <1>7

\* Initially everything is zero.
LEMMA BalanceInit == TrackerInit => BalanceInv
<1> SUFFICES ASSUME TrackerInit PROVE Balance(Len(log))
  BY DEF Balance, BalanceInv
<1>1. \A c \in Counters : counters[c] = 0
  BY DEF TrackerInit
<1>2. \A g \in Recorders : recording[g] = Idle
  BY DEF TrackerInit
<1>3. Cardinality(BetweenAdds) = 0 /\ Cardinality(BeforeLatency) = 0
  BY <1>2, QuietCardinalities
<1>4. Len(log) = 0
  <2>1. log = <<>>
    BY Zenon DEF TrackerInit
  <2> QED
    BY <2>1
<1> QED
  BY <1>1, <1>3, <1>4, CounterNames DEF Balance, LayerCounts

\* After a Reset that has met nobody everything is zero.
LEMMA EmptiedBalance ==
  ASSUME TypeOK, ResetInv, EmptyRing, ~raced
  PROVE  Balance(Len(log))'
<1>1. clearing = 10 /\ clearing # Nobody
  BY StoresAre DEF EmptyRing, Nobody
<1>2. /\ \A g \in Recorders : recording[g] = Idle
      /\ \A i \in 1..10 : counters[Stores[i]] = 0
  BY <1>1 DEF ResetInv
<1>3. /\ counters' = counters /\ recording' = recording
  BY DEF EmptyRing
<1>4. \A c \in Counters : counters'[c] = 0
  BY <1>2, <1>3, StoresAre
<1>5. Cardinality(BetweenAdds') = 0 /\ Cardinality(BeforeLatency') = 0
  BY <1>2, <1>3, QuietCardinalities DEF BetweenAdds, BeforeLatency
<1>6. Len(log') = 0
  <2>1. log' = <<>>
    BY DEF EmptyRing
  <2> QED
    BY <2>1
<1> QED
  BY <1>4, <1>5, <1>6, CounterNames DEF Balance, LayerCounts

\* Every step keeps the balance.
LEMMA BalanceStep ==
  TypeOK /\ TypeOK' /\ ResetInv /\ BalanceInv /\ [TrackerNext]_trackerVars => BalanceInv'
<1> SUFFICES ASSUME TypeOK, TypeOK', ResetInv, BalanceInv, [TrackerNext]_trackerVars,
                    ~raced', clearing' = Nobody
             PROVE  Balance(Len(log))'
  BY DEF Balance, BalanceInv
<1>1. ASSUME ~raced, clearing = Nobody PROVE Balance(Len(log))
  BY <1>1 DEF BalanceInv, Balance
<1>2. ASSUME NEW g \in Recorders, NEW e \in Events, Record(g, e) PROVE Balance(Len(log))'
  BY <1>1, <1>2, RecordBalance DEF Record
<1>3. ASSUME NEW g \in Recorders, Add(g) PROVE Balance(Len(log))'
  BY <1>1, <1>3, AddBalance DEF Add
<1>4. ASSUME NEW g \in Recorders, recordLatency(g) PROVE Balance(Len(log))'
  BY <1>1, <1>4, LatencyBalance DEF recordLatency
<1>5. CASE (\E r \in Readers : CopyLatencies(r) \/ Load(r)) \/ UNCHANGED trackerVars
  <2>1. UNCHANGED <<raced, clearing, recording, counters, log>>
    BY <1>5 DEF CopyLatencies, Load, trackerVars
  <2> QED
    BY <1>1, <2>1 DEF Balance, LayerCounts, BetweenAdds, BeforeLatency
<1>6. CASE StartReset \/ StoreZero
  <2>1. clearing' # Nobody
    BY <1>6, StoresAre DEF StartReset, StoreZero, Nobody
  <2> QED
    BY <2>1
<1>7. CASE EmptyRing
  BY <1>7, EmptiedBalance DEF EmptyRing
<1> QED
  BY <1>2, <1>3, <1>4, <1>5, <1>6, <1>7 DEF TrackerNext

\* Initially no Reset is running.
LEMMA ResetInit == TrackerInit => ResetInv
BY DEF TrackerInit, ResetInv, Nobody

\* For any number of goroutines: the counters of the layers add up to getCount, apart
\* from the reads between their two Adds, if no Reset has overlapped a recording
\* (RecordMemoryHit .. RecordRedisMiss, Reset).
THEOREM CountersAgree == TrackerSpec => []CountsAddUp
<1>1. TrackerInit => ResetInv /\ BalanceInv
  BY ResetInit, BalanceInit
<1>2. BalanceInv => CountsAddUp
  BY DEF BalanceInv, CountsAddUp
<1> QED
  BY <1>1, <1>2, TrackerTypes, ResetStep, BalanceStep, PTL DEF TrackerSpec
-----------------------------------------------------------------------------
\* SnapshotInv for one reader.
Fits(r) ==
  LET s == snapshot[r] IN
  /\ clearing = Nobody
  /\ \A i \in 1..Len(s.loaded) : s.loaded[i] <= counters[Loads[i]]
  /\ Len(s.loaded) >= 5 =>
       s.loaded[1] + s.loaded[2] + s.loaded[3] + s.loaded[4]
         <= s.loaded[5] + Cardinality(Recorders)
  /\ Len(s.latencies) <= ValueOf(s, 5) + ValueOf(s, 6) + ValueOf(s, 7)

\* The order in which Snapshot loads the counters.
LEMMA LoadsAre ==
  /\ Len(Loads) = 8
  /\ Loads[1] = "memoryHits" /\ Loads[2] = "memoryMisses" /\ Loads[3] = "redisHits"
  /\ Loads[4] = "redisMisses" /\ Loads[5] = "getCount" /\ Loads[6] = "setCount"
  /\ Loads[7] = "deleteCount" /\ Loads[8] = "errorCount"
BY DEF Loads

\* What a snapshot has read is numbers, for at most eight counters.
LEMMA SnapshotTypes ==
  ASSUME TypeOK, NEW r \in Readers
  PROVE  /\ snapshot[r].latencies \in Seq(Nat) /\ Len(snapshot[r].latencies) \in Nat
         /\ snapshot[r].loaded \in Seq(Nat) /\ Len(snapshot[r].loaded) \in 0..8
         /\ snapshot[r].loaded \in [1..Len(snapshot[r].loaded) -> Nat]
         /\ \A i \in 1..8 : counters[Loads[i]] \in Nat /\ ValueOf(snapshot[r], i) \in Nat
<1> DEFINE s == snapshot[r]
           m == Len(s.loaded)
<1>1. /\ s.latencies \in Seq(Nat) /\ s.loaded \in Seq(Nat) /\ m <= 8
  BY LoadsAre DEF TypeOK
<1>2. /\ Len(s.latencies) \in Nat /\ m \in Nat /\ s.loaded \in [1..m -> Nat]
  BY <1>1, LenProperties
<1>3. \A i \in 1..8 : counters[Loads[i]] \in Nat
  BY StoresAre DEF TypeOK
<1> HIDE DEF m, s
<1>4. m \in 0..8
  BY <1>1, <1>2
<1>5. ASSUME NEW i \in 1..8 PROVE ValueOf(s, i) \in Nat
  <2>1. CASE i <= m
    <3>1. i \in 1..m
      BY <1>4, <2>1
    <3> QED
      BY <1>2, <2>1, <3>1 DEF ValueOf, m
  <2>2. CASE ~(i <= m)
    BY <1>3, <2>2 DEF ValueOf, m
  <2> QED
    BY <2>1, <2>2
<1> QED
  BY <1>1, <1>2, <1>3, <1>4, <1>5 DEF m, s

\* A snapshot still fits when the counters have grown.
LEMMA GrowingFits ==
  ASSUME TypeOK, TypeOK', NEW r \in Readers, Fits(r), snapshot'[r] = snapshot[r],
         clearing' = clearing, \A d \in Counters : counters[d] <= counters'[d]
  PROVE  Fits(r)'
<1> DEFINE s == snapshot[r]
           m == Len(s.loaded)
<1>1. /\ s.loaded \in [1..m -> Nat] /\ m \in 0..8 /\ Len(s.latencies) \in Nat
      /\ \A i \in 1..8 : counters[Loads[i]] \in Nat /\ ValueOf(s, i) \in Nat
  BY SnapshotTypes
<1>2. \A i \in 1..8 : /\ counters'[Loads[i]] \in Nat
                      /\ counters[Loads[i]] <= counters'[Loads[i]]
  BY StoresAre DEF TypeOK
<1> DEFINE after(i) == IF i <= m THEN s.loaded[i] ELSE counters'[Loads[i]]
<1>3. ASSUME NEW i \in 1..8 PROVE after(i) \in Nat /\ ValueOf(s, i) <= after(i)
  <2>1. CASE i <= m
    <3>1. ValueOf(s, i) = s.loaded[i] /\ after(i) = s.loaded[i] /\ ValueOf(s, i) \in Nat
      BY <1>1, <2>1 DEF ValueOf
    <3> HIDE DEF after
    <3> QED
      BY <3>1
  <2>2. CASE ~(i <= m)
    <3>1. ValueOf(s, i) = counters[Loads[i]] /\ after(i) = counters'[Loads[i]]
      BY <2>2 DEF ValueOf
    <3> HIDE DEF after
    <3> QED
      BY <1>1, <1>2, <3>1
  <2> QED
    BY <2>1, <2>2
<1> DEFINE v(i) == ValueOf(s, i)
<1>4. Len(s.latencies) <= v(5) + v(6) + v(7)
  BY DEF Fits
<1>5. Len(s.latencies) <= after(5) + after(6) + after(7)
  <2>1. /\ v(5) \in Nat /\ v(6) \in Nat /\ v(7) \in Nat
        /\ v(5) <= after(5) /\ v(6) <= after(6) /\ v(7) <= after(7)
        /\ after(5) \in Nat /\ after(6) \in Nat /\ after(7) \in Nat
    BY <1>1, <1>3
  <2> DEFINE z == Len(s.latencies)
  <2>2. z \in Nat /\ z <= v(5) + v(6) + v(7)
    BY <1>1, <1>4
  <2> HIDE DEF v, after, z
  <2>3. z <= after(5) + after(6) + after(7)
    BY <2>1, <2>2
  <2> QED
    BY <2>3 DEF z
<1>6. \A i \in 1..m : s.loaded[i] <= counters'[Loads[i]]
  <2> SUFFICES ASSUME NEW i \in 1..m PROVE s.loaded[i] <= counters'[Loads[i]]
    OBVIOUS
  <2>1. s.loaded[i] <= counters[Loads[i]]
    BY DEF Fits
  <2>2. i \in 1..8 /\ s.loaded[i] \in Nat
    <3>1. m \in 0..8 /\ i \in 1..m /\ s.loaded[i] \in Nat
      BY <1>1
    <3> HIDE DEF m
    <3> QED
      BY <3>1
  <2>3. counters[Loads[i]] \in Nat /\ counters'[Loads[i]] \in Nat
        /\ counters[Loads[i]] <= counters'[Loads[i]]
    BY <1>1, <1>2, <2>2
  <2> QED
    BY <2>1, <2>2, <2>3
<1>7. /\ Len(s.latencies) <= (ValueOf(snapshot[r], 5) + ValueOf(snapshot[r], 6)
                               + ValueOf(snapshot[r], 7))'
  BY <1>5, Zenon DEF ValueOf
<1> QED
  BY <1>6, <1>7, Zenon DEF Fits

\* When Snapshot copies the ring, every latency in it belongs to an event that is
\* already counted: the latency is recorded last.
LEMMA CopyFits ==
  ASSUME TypeOK, RingInv, BalanceInv, NEW r \in Readers, CopyLatencies(r), ~raced,
         ~snapshot'[r].torn
  PROVE  Fits(r)'
<1> DEFINE copy == [latencies |-> Contents(ring), loaded |-> <<>>, torn |-> clearing # Nobody]
<1>1. snapshot' = [snapshot EXCEPT ![r] = copy] /\ counters' = counters /\ clearing' = clearing
  BY DEF CopyLatencies
<1>2. /\ copy.latencies = Contents(ring) /\ copy.loaded = <<>>
      /\ copy.torn <=> clearing # Nobody
  OBVIOUS
<1> HIDE DEF copy
<1>3. snapshot'[r] = copy
  BY <1>1 DEF TypeOK
<1>4. clearing = Nobody
  BY <1>2, <1>3
<1>5. Balance(Len(log))
  BY <1>4 DEF BalanceInv, Balance
<1> DEFINE m == Len(Contents(ring))
           k == Len(log)
           bl == Cardinality(BeforeLatency)
<1>6. m = ring.count /\ k \in Nat /\ ring.count \in 0..BufferSize
  BY ContentsType, LenProperties DEF TypeOK
<1>7. ring.count = IF k < BufferSize THEN k ELSE BufferSize
  BY DEF RingInv, RingOf
<1>8. bl \in Nat
  <2>1. BeforeLatency \subseteq Recorders
    BY DEF BeforeLatency
  <2> QED
    BY <2>1, FS_Subset, FS_CardinalityType, TrackerAssumption
<1>9. k + bl = counters["getCount"] + counters["setCount"] + counters["deleteCount"]
  BY <1>5 DEF Balance
<1>10. m <= counters["getCount"] + counters["setCount"] + counters["deleteCount"]
  <2> DEFINE sum == counters["getCount"] + counters["setCount"] + counters["deleteCount"]
  <2>1. k + bl = sum
    BY <1>9
  <2> HIDE DEF m, k, bl, sum
  <2>2. m <= sum
    BY <1>6, <1>7, <1>8, <2>1, TrackerAssumption
  <2> QED
    BY <2>2 DEF sum
<1>11. Len(copy.loaded) = 0
  BY <1>2
<1>12. /\ ValueOf(copy, 5) = counters["getCount"] /\ ValueOf(copy, 6) = counters["setCount"]
       /\ ValueOf(copy, 7) = counters["deleteCount"]
  BY <1>11, LoadsAre DEF ValueOf
<1>13. /\ ValueOf(snapshot[r], 5)' = counters["getCount"]
       /\ ValueOf(snapshot[r], 6)' = counters["setCount"]
       /\ ValueOf(snapshot[r], 7)' = counters["deleteCount"]
  BY <1>1, <1>3, <1>12 DEF ValueOf
<1>14. Len(snapshot'[r].loaded) = 0 /\ Len(snapshot'[r].latencies) = m
  BY <1>2, <1>3, <1>11
<1> HIDE DEF m
<1> QED
  BY <1>1, <1>4, <1>10, <1>13, <1>14 DEF Fits

\* A load keeps the parts of a snapshot together.  With getCount, the fifth, come
\* the hits and misses loaded before it: these had grown no further than getCount and the
\* goroutines between the two Adds.
LEMMA LoadFits ==
  ASSUME TypeOK, TypeOK', BalanceInv, NEW r \in Readers, Load(r), ~raced, Fits(r)
  PROVE  Fits(r)'
<1> DEFINE s == snapshot[r]
           t == snapshot'[r]
           m == Len(s.loaded)
           i == m + 1
<1>1. /\ i \in 1..8 /\ t.latencies = s.latencies /\ Len(t.loaded) = i
      /\ \A j \in 1..(i - 1) : t.loaded[j] = s.loaded[j]
      /\ t.loaded[i] = counters[Loads[i]]
  BY LoadEffect
<1>2. counters' = counters /\ clearing' = clearing /\ clearing = Nobody
  BY DEF Load, Fits
<1>3. /\ m \in 0..8 /\ Len(s.latencies) \in Nat /\ s.loaded \in [1..m -> Nat]
      /\ \A j \in 1..8 : counters[Loads[j]] \in Nat /\ ValueOf(s, j) \in Nat
  BY SnapshotTypes
<1>4. \A j \in 1..8 : j \in 1..m \/ j = i \/ j > i
  <2> HIDE DEF m
  <2> QED
    BY <1>3
<1>5. /\ \A j \in 1..m : s.loaded[j] <= counters[Loads[j]]
      /\ m >= 5 => s.loaded[1] + s.loaded[2] + s.loaded[3] + s.loaded[4]
                     <= s.loaded[5] + Cardinality(Recorders)
      /\ Len(s.latencies) <= ValueOf(s, 5) + ValueOf(s, 6) + ValueOf(s, 7)
  BY DEF Fits
<1> HIDE DEF m
<1>6. i - 1 = m /\ i \in 1..8 /\ m \in 0..7
  BY <1>1, <1>3
<1>7. \A j \in 1..m : t.loaded[j] = s.loaded[j]
  BY <1>1, <1>6
<1> HIDE DEF i
<1>8. \A j \in 1..i : t.loaded[j] <= counters[Loads[j]]
  <2> SUFFICES ASSUME NEW j \in 1..i PROVE t.loaded[j] <= counters[Loads[j]]
    OBVIOUS
  <2>1. CASE j = i
    <3>1. t.loaded[i] = counters[Loads[i]] /\ counters[Loads[i]] \in Nat
      BY <1>1, <1>3
    <3>2. \A x \in Nat : x <= x
      OBVIOUS
    <3> QED
      BY <2>1, <3>1, <3>2, Zenon
  <2>2. CASE j # i
    <3>1. j \in 1..m
      BY <1>6, <2>2 DEF i
    <3> QED
      BY <1>5, <1>7, <3>1
  <2> QED
    BY <2>1, <2>2
<1>9. \A j \in 1..8 : ValueOf(t, j) = ValueOf(s, j)
  <2> SUFFICES ASSUME NEW j \in 1..8 PROVE ValueOf(t, j) = ValueOf(s, j)
    OBVIOUS
  <2>1. CASE j \in 1..m
    <3>1. j <= m /\ j <= i
      BY <1>6, <2>1 DEF i
    <3> QED
      BY <1>1, <1>7, <2>1, <3>1 DEF ValueOf, m
  <2>2. CASE j = i
    <3>1. ~(i <= m) /\ i <= i
      BY <1>6 DEF i
    <3> QED
      BY <1>1, <2>2, <3>1 DEF ValueOf, m
  <2>3. CASE j > i
    <3>1. ~(j <= m) /\ ~(j <= i)
      BY <1>6, <2>3 DEF i
    <3> QED
      BY <1>1, <2>3, <3>1 DEF ValueOf, m
  <2> QED
    BY <1>4, <2>1, <2>2, <2>3
<1>10. ASSUME i >= 5
       PROVE  t.loaded[1] + t.loaded[2] + t.loaded[3] + t.loaded[4]
                <= t.loaded[5] + Cardinality(Recorders)
  <2>1. CASE m >= 5
    <3>1. t.loaded[1] = s.loaded[1] /\ t.loaded[2] = s.loaded[2] /\ t.loaded[3] = s.loaded[3]
          /\ t.loaded[4] = s.loaded[4] /\ t.loaded[5] = s.loaded[5]
      BY <1>6, <1>7, <2>1
    <3> QED
      BY <1>5, <2>1, <3>1
  <2>2. CASE i = 5
    <3>1. t.loaded[1] <= counters["memoryHits"] /\ t.loaded[2] <= counters["memoryMisses"]
          /\ t.loaded[3] <= counters["redisHits"] /\ t.loaded[4] <= counters["redisMisses"]
          /\ t.loaded[5] = counters["getCount"]
      BY <1>1, <1>8, <2>2, LoadsAre
    <3>2. /\ t.loaded[1] \in Nat /\ t.loaded[2] \in Nat /\ t.loaded[3] \in Nat
          /\ t.loaded[4] \in Nat
      <4>1. m = 4
        BY <1>6, <2>2 DEF i
      <4>2. \A j \in 1..4 : t.loaded[j] \in Nat
        BY <1>3, <1>7, <4>1
      <4> QED
        BY <4>2
    <3>3. /\ counters["memoryHits"] \in Nat /\ counters["memoryMisses"] \in Nat
          /\ counters["redisHits"] \in Nat /\ counters["redisMisses"] \in Nat
          /\ counters["getCount"] \in Nat
      BY CounterNames DEF TypeOK
    <3> DEFINE ba == Cardinality(BetweenAdds)
               all == Cardinality(Recorders)
    <3>4. counters["memoryHits"] + counters["memoryMisses"] + counters["redisHits"]
            + counters["redisMisses"] = counters["getCount"] + ba
      BY <1>2 DEF BalanceInv, LayerCounts
    <3>5. ba \in Nat /\ all \in Nat /\ ba <= all
      <4>1. BetweenAdds \subseteq Recorders
        BY DEF BetweenAdds
      <4> QED
        BY <4>1, FS_Subset, FS_CardinalityType, TrackerAssumption
    <3> HIDE DEF ba, all
    <3>6. t.loaded[1] + t.loaded[2] + t.loaded[3] + t.loaded[4] <= t.loaded[5] + all
      BY <3>1, <3>2, <3>3, <3>4, <3>5
    <3> QED
      BY <3>6 DEF all
  <2> QED
    BY <1>6, <1>10, <2>1, <2>2 DEF i
<1>11. Len(t.latencies) <= ValueOf(t, 5) + ValueOf(t, 6) + ValueOf(t, 7)
  BY <1>1, <1>5, <1>9
<1>12. /\ ValueOf(snapshot[r], 5)' = ValueOf(t, 5) /\ ValueOf(snapshot[r], 6)' = ValueOf(t, 6)
       /\ ValueOf(snapshot[r], 7)' = ValueOf(t, 7)
  BY <1>2, Zenon DEF ValueOf
<1> QED
  BY <1>1, <1>2, <1>8, <1>10, <1>11, <1>12 DEF Fits

\* An Add makes no counter smaller.
LEMMA CountersGrow ==
  ASSUME TypeOK, NEW g \in Recorders, Add(g)
  PROVE  \A d \in Counters : counters[d] <= counters'[d]
<1> DEFINE c == Adds[recording[g].event][recording[g].adds + 1]
<1>1. /\ c \in Counters /\ counters'[c] = counters[c] + 1
      /\ \A d \in Counters : d # c => counters'[d] = counters[d]
  BY AddEffect
<1>2. \A d \in Counters : counters[d] \in Nat
  BY DEF TypeOK
<1> HIDE DEF c
<1> QED
  BY <1>1, <1>2

\* Initially every snapshot is of nothing.
LEMMA SnapshotInit == TrackerInit => SnapshotInv
<1> SUFFICES ASSUME TrackerInit, NEW r \in Readers PROVE Fits(r)
  BY DEF SnapshotInv, Fits
<1>1. TypeOK
  BY TypeInit
<1> DEFINE zeros == [i \in 1..Len(Loads) |-> 0]
<1>2. /\ snapshot[r].latencies = <<>> /\ snapshot[r].loaded = zeros /\ clearing = Nobody
      /\ \A c \in Counters : counters[c] = 0
  BY DEF TrackerInit
<1>3. \A i \in 1..8 : snapshot[r].loaded[i] = 0 /\ counters[Loads[i]] = 0
  BY <1>2, StoresAre
<1>4. Len(snapshot[r].loaded) \in 0..8
  BY <1>1, SnapshotTypes
<1>5. \A i \in 1..8 : ValueOf(snapshot[r], i) = 0
  BY <1>3 DEF ValueOf
<1>6. Len(snapshot[r].latencies) = 0
  BY <1>2
<1>7. Cardinality(Recorders) \in Nat
  BY FS_CardinalityType, TrackerAssumption
<1>8. /\ snapshot[r].loaded[1] + snapshot[r].loaded[2] + snapshot[r].loaded[3]
           + snapshot[r].loaded[4] <= snapshot[r].loaded[5] + Cardinality(Recorders)
      /\ Len(snapshot[r].latencies) <= ValueOf(snapshot[r], 5) + ValueOf(snapshot[r], 6)
                                         + ValueOf(snapshot[r], 7)
  <2>1. /\ snapshot[r].loaded[1] = 0 /\ snapshot[r].loaded[2] = 0 /\ snapshot[r].loaded[3] = 0
        /\ snapshot[r].loaded[4] = 0 /\ snapshot[r].loaded[5] = 0
    BY <1>3
  <2>2. /\ ValueOf(snapshot[r], 5) = 0 /\ ValueOf(snapshot[r], 6) = 0
        /\ ValueOf(snapshot[r], 7) = 0
    BY <1>5
  <2> QED
    BY <1>6, <1>7, <2>1, <2>2
<1>9. \A i \in 1..Len(snapshot[r].loaded) : snapshot[r].loaded[i] <= counters[Loads[i]]
  <2> DEFINE m == Len(snapshot[r].loaded)
  <2>1. m \in 0..8
    BY <1>4
  <2> HIDE DEF m
  <2>2. \A i \in 1..m : i \in 1..8
    BY <2>1
  <2>3. \A i \in 1..m : snapshot[r].loaded[i] <= counters[Loads[i]]
    BY <1>3, <2>2
  <2> QED
    BY <2>3 DEF m
<1> QED
  BY <1>2, <1>8, <1>9, Zenon DEF Fits

\* Every step keeps the snapshots under way together.
LEMMA SnapshotStep ==
  /\ TypeOK /\ TypeOK' /\ RingInv /\ BalanceInv /\ SnapshotInv /\ [TrackerNext]_trackerVars
  => SnapshotInv'
<1> SUFFICES ASSUME TypeOK, TypeOK', RingInv, BalanceInv, SnapshotInv,
                    [TrackerNext]_trackerVars, ~raced', NEW r \in Readers, ~snapshot'[r].torn
             PROVE  Fits(r)'
  BY DEF SnapshotInv, Fits, ValueOf
<1>1. ASSUME ~raced, ~snapshot[r].torn PROVE Fits(r)
  BY <1>1 DEF SnapshotInv, Fits
<1>2. ASSUME snapshot'[r] = snapshot[r], UNCHANGED <<clearing, counters>>, ~raced
      PROVE  Fits(r)'
  <2>1. \A d \in Counters : counters[d] <= counters'[d]
    BY <1>2 DEF TypeOK
  <2> QED
    BY <1>1, <1>2, <2>1, GrowingFits
<1>3. ASSUME NEW g \in Recorders, (\E e \in Events : Record(g, e)) \/ recordLatency(g)
      PROVE  Fits(r)'
  BY <1>2, <1>3 DEF Record, recordLatency
<1>4. ASSUME NEW g \in Recorders, Add(g) PROVE Fits(r)'
  <2>1. UNCHANGED <<snapshot, clearing, raced>>
    BY <1>4 DEF Add
  <2> QED
    BY <1>1, <1>4, <2>1, CountersGrow, GrowingFits
<1>5. ASSUME NEW q \in Readers, CopyLatencies(q) PROVE Fits(r)'
  <2>1. UNCHANGED <<clearing, counters, raced>> /\ (q # r => snapshot'[r] = snapshot[r])
    BY <1>5 DEF CopyLatencies, TypeOK
  <2> QED
    BY <1>2, <1>5, <2>1, CopyFits
<1>6. ASSUME NEW q \in Readers, Load(q) PROVE Fits(r)'
  <2>1. UNCHANGED <<clearing, counters, raced>>
    BY <1>6 DEF Load
  <2>2. q # r => snapshot'[r] = snapshot[r]
    BY <1>6, LoadEffect
  <2>3. CASE q = r
    <3>1. snapshot'[r].torn = snapshot[r].torn
      BY <1>6, <2>3, LoadEffect
    <3> QED
      BY <1>1, <1>6, <2>1, <2>3, <3>1, LoadFits
  <2> QED
    BY <1>2, <2>1, <2>2, <2>3
<1>7. CASE StartReset \/ StoreZero
  <2>1. snapshot' = [q \in Readers |-> [snapshot[q] EXCEPT !.torn = TRUE]]
    BY <1>7 DEF StartReset, StoreZero, Clear
  <2>2. snapshot'[r].torn
    BY <2>1 DEF TypeOK
  <2> QED
    BY <2>2
<1>8. CASE EmptyRing
  <2>1. UNCHANGED <<snapshot, raced>> /\ clearing # Nobody
    BY <1>8, StoresAre DEF EmptyRing, Nobody
  <2> QED
    BY <1>1, <2>1 DEF Fits
<1>9. CASE UNCHANGED trackerVars
  BY <1>2, <1>9 DEF trackerVars
<1> QED
  BY <1>3, <1>4, <1>5, <1>6, <1>7, <1>8, <1>9 DEF TrackerNext

\* What a complete snapshot says of a counter is what it loaded for it.
LEMMA SaysLoaded ==
  ASSUME NEW s, NEW n \in 1..8
  PROVE  Says(s)[Loads[n]] = s.loaded[n]
<1> DEFINE c == Loads[n]
<1>1. c \in Counters /\ n \in 1..Len(Loads)
  BY StoresAre
<1>2. \A k \in 1..Len(Loads) : Loads[k] = c => k = n
  BY LoadsAre
<1>3. (CHOOSE k \in 1..Len(Loads) : Loads[k] = c) = n
  <2> HIDE DEF c
  <2>1. Loads[n] = c
    BY DEF c
  <2> QED
    BY <1>1, <1>2, <2>1
<1>4. \E k \in 1..Len(Loads) : Loads[k] = c
  BY <1>1
<1> HIDE DEF c
<1> QED
  BY <1>1, <1>3, <1>4, Zenon DEF Says, c

\* A complete snapshot fits together.
LEMMA WholeSnapshot ==
  ASSUME TypeOK, SnapshotInv
  PROVE  SnapshotFitsTogether
<1> SUFFICES ASSUME ~raced, NEW r \in Readers, Complete(r), ~snapshot[r].torn
             PROVE  LET s == snapshot[r]  v == Says(s)
                    IN  /\ Len(s.latencies) <= v["getCount"] + v["setCount"] + v["deleteCount"]
                        /\ LayerCounts(v) <= v["getCount"] + Cardinality(Recorders)
  BY DEF SnapshotFitsTogether
<1> DEFINE s == snapshot[r]
           v == Says(s)
<1>1. Len(s.loaded) = 8
  BY LoadsAre DEF Complete
<1>2. /\ v["memoryHits"] = s.loaded[1] /\ v["memoryMisses"] = s.loaded[2]
      /\ v["redisHits"] = s.loaded[3] /\ v["redisMisses"] = s.loaded[4]
      /\ v["getCount"] = s.loaded[5] /\ v["setCount"] = s.loaded[6]
      /\ v["deleteCount"] = s.loaded[7]
  <2> HIDE DEF s
  <2>1. \A n \in 1..8 : v[Loads[n]] = s.loaded[n]
    BY SaysLoaded
  <2> HIDE DEF v
  <2> QED
    BY <2>1, LoadsAre
<1>3. Fits(r)
  BY DEF SnapshotInv, Fits
<1>4. /\ s.loaded[1] + s.loaded[2] + s.loaded[3] + s.loaded[4]
           <= s.loaded[5] + Cardinality(Recorders)
      /\ Len(s.latencies) <= s.loaded[5] + s.loaded[6] + s.loaded[7]
  BY <1>1, <1>3 DEF Fits, ValueOf
<1> HIDE DEF v
<1>5. LayerCounts(v) <= v["getCount"] + Cardinality(Recorders)
  BY <1>2, <1>4 DEF LayerCounts
<1> QED
  BY <1>2, <1>4, <1>5 DEF v

\* For any number of goroutines: a snapshot that no Reset has touched has at most as
\* many latencies as events, and at most as many hits and misses as gets and goroutines
\* (Snapshot).
THEOREM SnapshotsFit == TrackerSpec => []SnapshotFitsTogether
<1>1. TrackerInit => ResetInv /\ BalanceInv /\ RingInv /\ SnapshotInv
  BY ResetInit, BalanceInit, RingInit, SnapshotInit
<1>2. TypeOK /\ SnapshotInv => SnapshotFitsTogether
  BY WholeSnapshot
<1> QED
  BY <1>1, <1>2, TrackerTypes, ResetStep, BalanceStep, RingStep, SnapshotStep, PTL
     DEF TrackerSpec

-----------------------------------------------------------------------------
(* The background publisher                                                *)

Places == {"none", "top", "select", "publish", "send", "finalPublish", "finalSend", "done"}

TypeInv ==
  /\ recorded \in 0..MaxRecorded
  /\ started \in 0..MaxStarts
  /\ ended \subseteq Loops
  /\ at \in [Publishers -> Places]
  /\ on \in [Loops -> Loops]
  /\ report \in [Publishers -> Nat]
  /\ due \in [Loops -> Nat]

\* A loop that is anywhere belongs to a Start.
LoopsAreStarted == \A n \in Loops : at[n] # "none" => n <= started

\* Nothing is due that was not recorded.
DueWasRecorded == \A c \in Loops : due[c] <= recorded

InLastPublish(n) == at[n] \in {"finalPublish", "finalSend", "done"}

ContextIsOver == \A n \in Loops : InLastPublish(n) => on[n] \in ended

ReportsWhatIsDue ==
  \A n \in Loops : at[n] \in {"finalSend", "done"} => report[n] >= due[on[n]]

PublisherInv == TypeInv /\ LoopsAreStarted /\ DueWasRecorded /\ ContextIsOver /\ ReportsWhatIsDue

-----------------------------------------------------------------------------

\* Ending a context makes due what has been recorded, and leaves what is due
\* of a context that has ended before.
LEMMA EndDue ==
  ASSUME PublisherInv, NEW c \in 1..started, End(c)
  PROVE  /\ ended' \subseteq Loops /\ ended \subseteq ended'
         /\ due' \in [Loops -> Nat]
         /\ \A d \in Loops : due'[d] <= recorded
         /\ \A d \in ended : due'[d] = due[d]
<1>1. c \in Loops
  BY PublisherAssumption DEF PublisherInv, TypeInv, Loops
<1>2. recorded \in Nat
  BY PublisherAssumption DEF PublisherInv, TypeInv
<1>3. CASE c \in ended
  BY <1>1, <1>2, <1>3 DEF PublisherInv, TypeInv, DueWasRecorded, End
<1>4. CASE c \notin ended
  BY <1>1, <1>2, <1>4 DEF PublisherInv, TypeInv, DueWasRecorded, End
<1>5. QED
  BY <1>3, <1>4

\* Initially no loop has been started and nothing is due.
LEMMA PublisherInit == Init => PublisherInv
  BY PublisherAssumption
  DEF Init, PublisherInv, TypeInv, LoopsAreStarted, DueWasRecorded, ContextIsOver,
      InLastPublish, ReportsWhatIsDue, Publishers, Loops, Caller, Places, Nothing

\* Ending a context keeps the invariant if nothing else changes but the owner.
LEMMA EndKeeps ==
  ASSUME PublisherInv, NEW c \in 1..started, End(c),
         UNCHANGED <<recorded, started, at, on, report>>
  PROVE  PublisherInv'
<1>1. TypeInv' /\ LoopsAreStarted' /\ DueWasRecorded'
  BY EndDue DEF PublisherInv, TypeInv, LoopsAreStarted, DueWasRecorded
<1>2. ContextIsOver' /\ ReportsWhatIsDue'
  BY EndDue DEF PublisherInv, ContextIsOver, ReportsWhatIsDue, InLastPublish
<1>3. QED
  BY <1>1, <1>2 DEF PublisherInv

\* Every step keeps the invariant.
LEMMA PublisherNext == PublisherInv /\ [Next]_vars => PublisherInv'
<1> SUFFICES ASSUME PublisherInv, [Next]_vars PROVE PublisherInv'
  OBVIOUS
<1> USE PublisherAssumption
<1>1. CASE RecordEvent
  <2>1. TypeInv'
    BY <1>1 DEF RecordEvent, PublisherInv, TypeInv
  <2>2. DueWasRecorded'
    BY <1>1 DEF RecordEvent, PublisherInv, TypeInv, DueWasRecorded
  <2>3. LoopsAreStarted' /\ ContextIsOver' /\ ReportsWhatIsDue'
    BY <1>1 DEF RecordEvent, PublisherInv, LoopsAreStarted, ContextIsOver, InLastPublish,
                ReportsWhatIsDue
  <2>4. QED
    BY <2>1, <2>2, <2>3 DEF PublisherInv
<1>2. CASE Start
  <2>1. started + 1 \in Loops /\ at' = [at EXCEPT ![started + 1] = "top"]
    BY <1>2 DEF Start, PublisherInv, TypeInv, Loops
  <2>2. TypeInv'
    BY <1>2, <2>1 DEF Start, PublisherInv, TypeInv, Publishers, Places
  <2>3. LoopsAreStarted'
    BY <1>2, <2>1 DEF Start, PublisherInv, TypeInv, LoopsAreStarted, Loops, Publishers
  <2>4. \A n \in Loops : InLastPublish(n)' => InLastPublish(n) /\ at'[n] = at[n]
    BY <2>1 DEF PublisherInv, TypeInv, InLastPublish, Publishers
  <2>5. ContextIsOver' /\ ReportsWhatIsDue' /\ DueWasRecorded'
    BY <1>2, <2>4 DEF Start, PublisherInv, ContextIsOver, InLastPublish, ReportsWhatIsDue,
                      DueWasRecorded
  <2>6. QED
    BY <2>2, <2>3, <2>5 DEF PublisherInv
<1>3. CASE Stop
  <2>1. CASE started > 0
    <3>1. started \in 1..started
      BY <2>1 DEF PublisherInv, TypeInv
    <3>2. QED
      BY <1>3, <2>1, <3>1, EndKeeps DEF Stop
  <2>2. CASE ~(started > 0)
    BY <1>3, <2>2 DEF Stop, PublisherInv, TypeInv, LoopsAreStarted, DueWasRecorded, ContextIsOver,
                      InLastPublish, ReportsWhatIsDue
  <2>3. QED
    BY <2>1, <2>2
<1>4. CASE StopReturns
  BY <1>4 DEF StopReturns, PublisherInv, TypeInv, LoopsAreStarted, DueWasRecorded, ContextIsOver,
              InLastPublish, ReportsWhatIsDue
<1>5. CASE PublishNow
  <2>1. at' = [at EXCEPT ![Caller] = "publish"]
    BY <1>5 DEF PublishNow, Move
  <2>2. TypeInv'
    BY <1>5, <2>1 DEF PublishNow, PublisherInv, TypeInv, Publishers, Places
  <2>3. \A n \in Loops : at'[n] = at[n]
    BY <2>1 DEF PublisherInv, TypeInv, Publishers, Loops, Caller
  <2>4. LoopsAreStarted' /\ DueWasRecorded' /\ ContextIsOver' /\ ReportsWhatIsDue'
    BY <1>5, <2>3 DEF PublishNow, PublisherInv, LoopsAreStarted, DueWasRecorded, ContextIsOver,
                      InLastPublish, ReportsWhatIsDue
  <2>5. QED
    BY <2>2, <2>4 DEF PublisherInv
<1>6. ASSUME NEW n \in Loops, ParentEnds(n) PROVE PublisherInv'
  <2>1. n \in 1..started
    BY <1>6 DEF ParentEnds
  <2>2. QED
    BY <1>6, <2>1, EndKeeps DEF ParentEnds
<1>7. ASSUME NEW n \in Loops, Select(n) PROVE PublisherInv'
  <2>1. started \in Loops
    <3>1. n <= started
      BY <1>7 DEF Select, Move, PublisherInv, LoopsAreStarted
    <3>2. QED
      BY <3>1 DEF PublisherInv, TypeInv, Loops
  <2>2. TypeInv'
    BY <1>7, <2>1 DEF Select, Move, PublisherInv, TypeInv, Publishers, Places
  <2>3. LoopsAreStarted' /\ DueWasRecorded' /\ ContextIsOver' /\ ReportsWhatIsDue'
    BY <1>7 DEF Select, Move, PublisherInv, TypeInv, LoopsAreStarted, DueWasRecorded, ContextIsOver,
                InLastPublish, ReportsWhatIsDue, Publishers
  <2>4. QED
    BY <2>2, <2>3 DEF PublisherInv
<1>8. ASSUME NEW n \in Loops, Tick(n) PROVE PublisherInv'
  BY <1>8 DEF Tick, Move, PublisherInv, TypeInv, LoopsAreStarted, DueWasRecorded, ContextIsOver,
              InLastPublish, ReportsWhatIsDue, Publishers, Places
<1>9. ASSUME NEW n \in Loops, SeeDone(n) PROVE PublisherInv'
  BY <1>9 DEF SeeDone, Move, PublisherInv, TypeInv, LoopsAreStarted, DueWasRecorded, ContextIsOver,
              InLastPublish, ReportsWhatIsDue, Publishers, Places
<1>10. ASSUME NEW n \in Publishers, GetHealth(n) PROVE PublisherInv'
  <2>1. TypeInv' /\ LoopsAreStarted' /\ DueWasRecorded' /\ ContextIsOver'
    BY <1>10 DEF GetHealth, Move, PublisherInv, TypeInv, LoopsAreStarted, DueWasRecorded,
                 ContextIsOver, InLastPublish, Publishers, Places
  <2>2. ReportsWhatIsDue'
    BY <1>10 DEF GetHealth, Move, PublisherInv, TypeInv, DueWasRecorded, ReportsWhatIsDue,
                 Publishers
  <2>3. QED
    BY <2>1, <2>2 DEF PublisherInv
<1>11. ASSUME NEW n \in Publishers, PublishHealthMetrics(n) PROVE PublisherInv'
  <2>1. UNCHANGED <<recorded, started, ended, on, owner, due>>
    BY <1>11 DEF PublishHealthMetrics
  <2>2. CASE at[n] = "send"
    <3>1. at' = [at EXCEPT ![n] = IF n = Caller THEN "none" ELSE "top"]
          /\ report' = [report EXCEPT ![n] = Nothing]
      BY <1>11, <2>2 DEF PublishHealthMetrics, Move
    <3>2. TypeInv'
      BY <2>1, <3>1 DEF PublisherInv, TypeInv, Places, Nothing
    <3>3. LoopsAreStarted' /\ DueWasRecorded' /\ ContextIsOver' /\ ReportsWhatIsDue'
      BY <2>1, <2>2, <3>1 DEF PublisherInv, TypeInv, LoopsAreStarted, DueWasRecorded, ContextIsOver,
                              InLastPublish, ReportsWhatIsDue, Publishers
    <3>4. QED
      BY <3>2, <3>3 DEF PublisherInv
  <2>3. CASE at[n] = "finalSend"
    <3>1. at' = [at EXCEPT ![n] = "done"]
          /\ report' \in {report, [report EXCEPT ![n] = Panicked]}
      BY <1>11, <2>3 DEF PublishHealthMetrics, Move
    <3>2. Panicked \in Nat /\ Panicked >= recorded
      BY DEF Panicked, PublisherInv, TypeInv
    <3>3. TypeInv'
      BY <2>1, <3>1, <3>2 DEF PublisherInv, TypeInv, Places
    <3>4. LoopsAreStarted' /\ DueWasRecorded' /\ ContextIsOver'
      BY <2>1, <2>3, <3>1 DEF PublisherInv, TypeInv, LoopsAreStarted, DueWasRecorded, ContextIsOver,
                              InLastPublish, Publishers
    <3>5. ReportsWhatIsDue'
      <4>1. \A m \in Loops : Panicked >= due[on[m]]
        BY <3>2 DEF PublisherInv, TypeInv, DueWasRecorded
      <4>2. QED
        BY <2>1, <2>3, <3>1, <4>1 DEF PublisherInv, TypeInv, ReportsWhatIsDue, Publishers
    <3>6. QED
      BY <3>3, <3>4, <3>5 DEF PublisherInv
  <2>4. QED
    BY <1>11, <2>2, <2>3 DEF PublishHealthMetrics, Move
<1>12. CASE UNCHANGED vars
  BY <1>12 DEF vars, PublisherInv, TypeInv, LoopsAreStarted, DueWasRecorded, ContextIsOver,
               InLastPublish, ReportsWhatIsDue
<1>13. QED
  BY <1>1, <1>2, <1>3, <1>4, <1>5, <1>6, <1>7, <1>8, <1>9, <1>10, <1>11, <1>12 DEF Next

\* A loop that is done has published whatever was recorded when the context
\* it waited for ended, unless its last publish panicked.
THEOREM FinalPublish == Spec => []FinalPublishTellsAll
<1>1. PublisherInv => FinalPublishTellsAll
  BY DEF PublisherInv, ReportsWhatIsDue, FinalPublishTellsAll
<1>2. QED
  BY PublisherInit, PublisherNext, <1>1, PTL DEF Spec
=============================================================================
