--------------------------- MODULE BulkheadProofs ---------------------------
(***************************************************************************)
(* Theorems of Bulkhead, for every set of callers and every configuration. *)
(***************************************************************************)
EXTENDS Bulkhead, FiniteSetTheorems, TLAPS

LEMMA SlotsType == totalSlots \in Nat /\ maxQueue \in Nat
BY BulkheadAssumption DEF totalSlots, maxConcurrent, maxQueue

LEMMA AtFinite ==
  ASSUME NEW places
  PROVE  IsFiniteSet(At(places)) /\ Cardinality(At(places)) \in Nat
<1>1. At(places) \in SUBSET Callers
  BY DEF At
<1>2. IsFiniteSet(At(places))
  BY <1>1, FS_Subset, BulkheadAssumption
<1> QED
  BY <1>2, FS_CardinalityType

(***************************************************************************)
(* How the number of goroutines at some places changes when one of them    *)
(* moves from one place to another.                                        *)
(***************************************************************************)
LEMMA Move ==
  ASSUME at \in [Callers -> Places], NEW c \in Callers, NEW place \in Places,
         GoTo(c, place), NEW places
  PROVE  /\ at'[c] = place
         /\ at[c] \in places /\ place \in places =>
              At(places)' = At(places)
         /\ at[c] \notin places /\ place \notin places =>
              At(places)' = At(places)
         /\ at[c] \notin places /\ place \in places =>
              /\ At(places)' = At(places) \cup {c}
              /\ c \notin At(places)
              /\ Cardinality(At(places)') = Cardinality(At(places)) + 1
         /\ at[c] \in places /\ place \notin places =>
              /\ At(places)' = At(places) \ {c}
              /\ c \in At(places)
              /\ Cardinality(At(places)') = Cardinality(At(places)) - 1
<1>1. at'[c] = place /\ \A d \in Callers : d # c => at'[d] = at[d]
  BY DEF GoTo
<1>2. At(places) \subseteq Callers /\ At(places)' \subseteq Callers
  BY DEF At
<1>3. \A d \in Callers : /\ d \in At(places) <=> at[d] \in places
                         /\ d \in At(places)' <=> at'[d] \in places
  BY DEF At
<1>4. CASE at[c] \in places <=> place \in places
  <2>1. At(places)' = At(places)
    BY <1>1, <1>2, <1>3, <1>4
  <2> QED
    BY <1>1, <1>4, <2>1
<1>5. CASE at[c] \notin places /\ place \in places
  <2>1. At(places)' = At(places) \cup {c} /\ c \notin At(places)
    BY <1>1, <1>2, <1>3, <1>5
  <2>2. Cardinality(At(places)') = Cardinality(At(places)) + 1
    BY <2>1, AtFinite, FS_AddElement
  <2> QED
    BY <1>1, <1>5, <2>1, <2>2
<1>6. CASE at[c] \in places /\ place \notin places
  <2>1. At(places)' = At(places) \ {c} /\ c \in At(places)
    BY <1>1, <1>2, <1>3, <1>6
  <2>2. Cardinality(At(places)') = Cardinality(At(places)) - 1
    BY <2>1, AtFinite, FS_RemoveElement
  <2> QED
    BY <1>1, <1>6, <2>1, <2>2
<1> QED
  BY <1>4, <1>5, <1>6

LEMMA BumpedType ==
  ASSUME NEW n \in Nat
  PROVE  Bumped(n) \in 0..(CounterSpan - 1)
BY BulkheadAssumption DEF Bumped

-----------------------------------------------------------------------------
(***************************************************************************)
(* The inductive invariant.                                                *)
(***************************************************************************)
IInv == TypeOK /\ NothingLeaks

LEMMA InitInv == Init => IInv
<1> SUFFICES ASSUME Init PROVE IInv
  OBVIOUS
<1>1. Holding = {} /\ Queued = {} /\ Active = {}
  BY DEF Init, Holding, Queued, Active, At
<1>2. NothingLeaks
  BY <1>1, FS_EmptySet DEF Init, NothingLeaks
<1>3. TypeOK
  BY SlotsType, BulkheadAssumption DEF Init, TypeOK, Places
<1> QED
  BY <1>2, <1>3 DEF IInv

(***************************************************************************)
(* The three gauges follow the goroutine that moves; the counters that     *)
(* wrap are in no conjunct but the type's.                                 *)
(***************************************************************************)
LEMMA StepInv ==
  ASSUME IInv, NEW c \in Callers, TryAcquire(c) \/ Proceed(c)
  PROVE  IInv'
<1> DEFINE H == {"dequeued", "acquired", "running", "finished", "leaving"}
           Q == {"waiting", "dequeued", "refused"}
           A == {"running", "finished"}
<1>0. /\ at \in [Callers -> Places]
      /\ semaphore \in 0..totalSlots /\ queued \in Nat /\ active \in Nat
      /\ executed \in Nat /\ rejected \in Nat /\ started \in Nat
      /\ {executed, rejected, started} \subseteq 0..(CounterSpan - 1)
      /\ semaphore = Cardinality(At(H))
      /\ queued = Cardinality(At(Q))
      /\ active = Cardinality(At(A))
      /\ totalSlots \in Nat
  BY SlotsType, BulkheadAssumption
     DEF IInv, TypeOK, NothingLeaks, Holding, Queued, Active
<1>1. SUFFICES /\ at' \in [Callers -> Places]
               /\ semaphore' \in 0..totalSlots
               /\ {executed', rejected', started'} \subseteq 0..(CounterSpan - 1)
               /\ semaphore' = Cardinality(At(H)')
               /\ queued' = Cardinality(At(Q)')
               /\ active' = Cardinality(At(A)')
  <2>1. Cardinality(At(Q)') \in Nat /\ Cardinality(At(A)') \in Nat
    <3>1. At(Q)' \in SUBSET Callers /\ At(A)' \in SUBSET Callers
      BY DEF At
    <3> QED
      BY <3>1, FS_Subset, FS_CardinalityType, BulkheadAssumption
  <2> QED
    BY <2>1 DEF IInv, TypeOK, NothingLeaks, Holding, Queued, Active,
                totalSlots, maxConcurrent, maxQueue
<1>2. ASSUME NEW place \in Places, GoTo(c, place)
      PROVE  at' \in [Callers -> Places]
  BY <1>0, <1>2 DEF GoTo
<1>3. /\ Bumped(executed) \in 0..(CounterSpan - 1)
      /\ Bumped(rejected) \in 0..(CounterSpan - 1)
      /\ Bumped(started) \in 0..(CounterSpan - 1)
  BY <1>0, BumpedType
<1>4. CASE TryAcquire(c)
  <2>1. CASE semaphore < totalSlots
    <3>1. GoTo(c, "acquired") /\ at[c] = "outside" /\ semaphore' = semaphore + 1
      BY <1>4, <2>1 DEF TryAcquire
    <3>2. /\ Cardinality(At(H)') = Cardinality(At(H)) + 1
          /\ At(Q)' = At(Q) /\ At(A)' = At(A)
      BY <1>0, <3>1, Move DEF Places
    <3> QED
      BY <1>0, <1>2, <1>3, <1>4, <2>1, <3>1, <3>2 DEF TryAcquire, Places
  <2>2. CASE ~(semaphore < totalSlots)
    <3>1. GoTo(c, "full") /\ at[c] = "outside"
      BY <1>4, <2>2 DEF TryAcquire
    <3>2. At(H)' = At(H) /\ At(Q)' = At(Q) /\ At(A)' = At(A)
      BY <1>0, <3>1, Move DEF Places
    <3> QED
      BY <1>0, <1>2, <1>3, <1>4, <2>2, <3>1, <3>2 DEF TryAcquire, Places
  <2> QED
    BY <2>1, <2>2
<1>5. CASE CheckQueue(c)
  <2>1. PICK place \in {"outside", "admitted"} : GoTo(c, place) /\ at[c] = "full"
    BY <1>5 DEF CheckQueue
  <2>2. At(H)' = At(H) /\ At(Q)' = At(Q) /\ At(A)' = At(A)
    BY <1>0, <2>1, Move DEF Places
  <2>3. rejected' \in {rejected, Bumped(rejected)}
    BY <1>5 DEF CheckQueue
  <2> QED
    BY <1>0, <1>2, <1>3, <1>5, <2>1, <2>2, <2>3 DEF CheckQueue, Places
<1>6. CASE JoinQueue(c)
  <2>1. GoTo(c, "waiting") /\ at[c] = "admitted"
    BY <1>6 DEF JoinQueue
  <2>2. /\ Cardinality(At(Q)') = Cardinality(At(Q)) + 1
        /\ At(H)' = At(H) /\ At(A)' = At(A)
    BY <1>0, <2>1, Move DEF Places
  <2> QED
    BY <1>0, <1>2, <1>6, <2>1, <2>2 DEF JoinQueue, Places
<1>7. CASE TakeSlot(c)
  <2>1. GoTo(c, "dequeued") /\ at[c] = "waiting"
    BY <1>7 DEF TakeSlot
  <2>2. /\ Cardinality(At(H)') = Cardinality(At(H)) + 1
        /\ At(Q)' = At(Q) /\ At(A)' = At(A)
    BY <1>0, <2>1, Move DEF Places
  <2> QED
    BY <1>0, <1>2, <1>7, <2>1, <2>2 DEF TakeSlot, Places
<1>8. CASE GiveUp(c)
  <2>1. GoTo(c, "refused") /\ at[c] = "waiting"
    BY <1>8 DEF GiveUp
  <2>2. At(H)' = At(H) /\ At(Q)' = At(Q) /\ At(A)' = At(A)
    BY <1>0, <2>1, Move DEF Places
  <2> QED
    BY <1>0, <1>2, <1>3, <1>8, <2>1, <2>2 DEF GiveUp, Places
<1>9. CASE LeaveQueue(c)
  <2>1. CASE at[c] = "dequeued" /\ GoTo(c, "acquired")
    <3>1. /\ Cardinality(At(Q)') = Cardinality(At(Q)) - 1
          /\ At(H)' = At(H) /\ At(A)' = At(A)
      BY <1>0, <2>1, Move DEF Places
    <3> QED
      BY <1>0, <1>2, <1>9, <2>1, <3>1 DEF LeaveQueue, Places
  <2>2. CASE at[c] = "refused" /\ GoTo(c, "outside")
    <3>1. /\ Cardinality(At(Q)') = Cardinality(At(Q)) - 1
          /\ At(H)' = At(H) /\ At(A)' = At(A)
      BY <1>0, <2>2, Move DEF Places
    <3> QED
      BY <1>0, <1>2, <1>9, <2>2, <3>1 DEF LeaveQueue, Places
  <2> QED
    BY <1>9, <2>1, <2>2 DEF LeaveQueue
<1>10. CASE Begin(c)
  <2>1. GoTo(c, "running") /\ at[c] = "acquired"
    BY <1>10 DEF Begin
  <2>2. /\ Cardinality(At(A)') = Cardinality(At(A)) + 1
        /\ At(H)' = At(H) /\ At(Q)' = At(Q)
    BY <1>0, <2>1, Move DEF Places
  <2> QED
    BY <1>0, <1>2, <1>10, <2>1, <2>2 DEF Begin, Places
<1>11. CASE Finish(c)
  <2>1. GoTo(c, "finished") /\ at[c] = "running"
    BY <1>11 DEF Finish
  <2>2. At(H)' = At(H) /\ At(Q)' = At(Q) /\ At(A)' = At(A)
    BY <1>0, <2>1, Move DEF Places
  <2> QED
    BY <1>0, <1>2, <1>3, <1>11, <2>1, <2>2 DEF Finish, Places
<1>12. CASE End(c)
  <2>1. GoTo(c, "leaving") /\ at[c] = "finished"
    BY <1>12 DEF End
  <2>2. /\ Cardinality(At(A)') = Cardinality(At(A)) - 1
        /\ At(H)' = At(H) /\ At(Q)' = At(Q)
    BY <1>0, <2>1, Move DEF Places
  <2> QED
    BY <1>0, <1>2, <1>12, <2>1, <2>2 DEF End, Places
<1>13. CASE release(c)
  <2>1. GoTo(c, "outside") /\ at[c] = "leaving"
    BY <1>13 DEF release
  <2>2. /\ Cardinality(At(H)') = Cardinality(At(H)) - 1
        /\ At(Q)' = At(Q) /\ At(A)' = At(A)
    BY <1>0, <2>1, Move DEF Places
  <2>3. Cardinality(At(H)') \in Nat
    <3>1. At(H)' \in SUBSET Callers
      BY DEF At
    <3> QED
      BY <3>1, FS_Subset, FS_CardinalityType, BulkheadAssumption
  <2> QED
    BY <1>0, <1>2, <1>13, <2>1, <2>2, <2>3 DEF release, Places
<1> QED
  BY <1>4, <1>5, <1>6, <1>7, <1>8, <1>9, <1>10, <1>11, <1>12, <1>13 DEF Proceed

LEMMA NextInv == IInv /\ [Next]_bulkheadVars => IInv'
<1> SUFFICES ASSUME IInv, [Next]_bulkheadVars PROVE IInv'
  OBVIOUS
<1>1. ASSUME NEW c \in Callers, TryAcquire(c) \/ Proceed(c) PROVE IInv'
  BY <1>1, StepInv
<1>2. CASE UNCHANGED bulkheadVars
  BY <1>2 DEF bulkheadVars, IInv, TypeOK, NothingLeaks, Holding, Queued, Active, At,
              totalSlots, maxConcurrent, maxQueue
<1> QED
  BY <1>1, <1>2 DEF Next

LEMMA Invariance == Spec => []IInv
BY InitInv, NextInv, PTL DEF Spec

-----------------------------------------------------------------------------
(***************************************************************************)
(* The fields stay in their ranges; the channel never overflows.           *)
(***************************************************************************)
THEOREM TypeCorrect == Spec => []TypeOK
<1>1. IInv => TypeOK
  BY DEF IInv
<1> QED
  BY <1>1, Invariance, PTL

(***************************************************************************)
(* No slot and no gauge leaks (NothingLeaks).                              *)
(***************************************************************************)
THEOREM SlotsAreReturned == Spec => []NothingLeaks
<1>1. IInv => NothingLeaks
  BY DEF IInv
<1> QED
  BY <1>1, Invariance, PTL

-----------------------------------------------------------------------------
(***************************************************************************)
(* Counters that wrap: dividing by their span, and that it does not matter *)
(* whether a summand has wrapped already.                                  *)
(***************************************************************************)
LEMMA Division ==
  ASSUME NEW K \in Nat \ {0}, NEW a \in Nat
  PROVE  /\ (a \div K) \in Nat /\ (a % K) \in 0..(K - 1)
         /\ a = K * (a \div K) + (a % K)
BY SMT

LEMMA SameRemainder ==
  ASSUME NEW K \in Nat \ {0}, NEW q \in Nat, NEW r \in 0..(K - 1)
  PROVE  (K * q + r) % K = r
<1> DEFINE a == K * q + r
<1>0. a \in Nat
  OBVIOUS
<1>1. PICK p \in Nat, s \in 0..(K - 1) : a = K * p + s /\ s = (a % K)
  BY <1>0, Division
<1>2. K * (p - q) = r - s
  BY <1>1
<1> HIDE DEF a
<1>3. p - q < 1
  BY <1>2, <1>1, SMTT(30)
<1>4. q - p < 1
  BY <1>2, <1>1, SMTT(30)
<1>5. r = s
  BY <1>2, <1>3, <1>4
<1> QED
  BY <1>1, <1>5 DEF a

LEMMA RemainderOfSum ==
  ASSUME NEW K \in Nat \ {0}, NEW a \in Nat, NEW b \in Nat
  PROVE  ((a % K) + b) % K = (a + b) % K
<1>1. PICK p \in Nat, r \in 0..(K - 1) : a = K * p + r /\ r = (a % K)
  BY Division
<1> DEFINE e == r + b
<1>2. e \in Nat
  OBVIOUS
<1> HIDE DEF e
<1>3. PICK q \in Nat, s \in 0..(K - 1) : e = K * q + s /\ s = (e % K)
  BY <1>2, Division
<1>4. a + b = K * p + e
  BY <1>1 DEF e
<1>5. K * p + (K * q + s) = K * (p + q) + s
  BY SMT
<1>6. a + b = K * (p + q) + s
  BY <1>3, <1>4, <1>5
<1>7. p + q \in Nat
  OBVIOUS
<1>8. (K * (p + q) + s) % K = s
  BY <1>7, SameRemainder
<1>9. (e % K) = ((a + b) % K)
  BY <1>3, <1>6, <1>8
<1> QED
  BY <1>1, <1>9 DEF e

(***************************************************************************)
(* Each step that decides a call takes one goroutine out of the undecided  *)
(* and counts it once; a call adds one to both sides.                      *)
(***************************************************************************)
IInvCounts == IInv /\ CallsAreCounted

LEMMA StepCounts ==
  ASSUME IInvCounts, NEW c \in Callers, TryAcquire(c) \/ Proceed(c)
  PROVE  CallsAreCounted'
<1> DEFINE U == {"full", "admitted", "waiting", "dequeued", "acquired", "running"}
           u == Cardinality(At(U))
<1>0. /\ at \in [Callers -> Places]
      /\ executed \in Nat /\ rejected \in Nat /\ started \in Nat /\ u \in Nat
      /\ (executed + rejected + u) % CounterSpan = started
      /\ CounterSpan \in Nat \ {0}
  BY AtFinite, BulkheadAssumption DEF IInvCounts, IInv, TypeOK, CallsAreCounted, Undecided
<1>1. SUFFICES (executed' + rejected' + u') % CounterSpan = started'
  BY DEF CallsAreCounted, Undecided
<1>2. CASE TryAcquire(c)
  <2>1. PICK place \in {"acquired", "full"} : GoTo(c, place) /\ at[c] = "outside"
    BY <1>2 DEF TryAcquire
  <2>2. u' = u + 1
    BY <1>0, <2>1, Move DEF Places
  <2>3. /\ executed' = executed /\ rejected' = rejected
        /\ started' = (started + 1) % CounterSpan
    BY <1>2 DEF TryAcquire, Bumped
  <2>4. (((executed + rejected + u) % CounterSpan) + 1) % CounterSpan
          = ((executed + rejected + u) + 1) % CounterSpan
    <3>1. executed + rejected + u \in Nat
      BY <1>0
    <3> QED
      BY <1>0, <3>1, RemainderOfSum
  <2>5. (executed + rejected + u) + 1 = executed' + rejected' + u'
    BY <1>0, <2>2, <2>3
  <2> QED
    BY <1>0, <2>3, <2>4, <2>5
<1>3. CASE (CheckQueue(c) /\ queued >= maxQueue) \/ GiveUp(c)
  <2>1. PICK place \in {"outside", "refused"} :
          GoTo(c, place) /\ at[c] \in {"full", "waiting"}
    BY <1>3 DEF CheckQueue, GiveUp
  <2>2. u' = u - 1 /\ u' \in Nat
    <3>1. u' = u - 1 /\ c \in At(U)
      BY <1>0, <2>1, Move DEF Places
    <3>2. u # 0
      BY <3>1, AtFinite, FS_EmptySet
    <3> QED
      BY <1>0, <3>1, <3>2
  <2>3. /\ executed' = executed /\ started' = started
        /\ rejected' = (rejected + 1) % CounterSpan
    BY <1>3 DEF CheckQueue, GiveUp, Bumped
  <2>4. (((rejected + 1) % CounterSpan) + (executed + u')) % CounterSpan
          = ((rejected + 1) + (executed + u')) % CounterSpan
    <3>1. rejected + 1 \in Nat /\ executed + u' \in Nat
      BY <1>0, <2>2
    <3> QED
      BY <1>0, <3>1, RemainderOfSum
  <2>5. /\ (rejected + 1) + (executed + u') = executed + rejected + u
        /\ rejected' + (executed + u') = executed' + rejected' + u'
    <3>1. rejected' \in Nat /\ executed' = executed
      BY <1>0, <2>3, BumpedType DEF Bumped
    <3> HIDE DEF u
    <3> QED
      BY <1>0, <2>2, <3>1
  <2> QED
    BY <1>0, <2>3, <2>4, <2>5
<1>4. CASE Finish(c)
  <2>1. GoTo(c, "finished") /\ at[c] = "running"
    BY <1>4 DEF Finish
  <2>2. u' = u - 1 /\ u' \in Nat
    <3>1. u' = u - 1 /\ c \in At(U)
      BY <1>0, <2>1, Move DEF Places
    <3>2. u # 0
      BY <3>1, AtFinite, FS_EmptySet
    <3> QED
      BY <1>0, <3>1, <3>2
  <2>3. /\ rejected' = rejected /\ started' = started
        /\ executed' = (executed + 1) % CounterSpan
    BY <1>4 DEF Finish, Bumped
  <2>4. (((executed + 1) % CounterSpan) + (rejected + u')) % CounterSpan
          = ((executed + 1) + (rejected + u')) % CounterSpan
    <3>1. executed + 1 \in Nat /\ rejected + u' \in Nat
      BY <1>0, <2>2
    <3> QED
      BY <1>0, <3>1, RemainderOfSum
  <2>5. /\ (executed + 1) + (rejected + u') = executed + rejected + u
        /\ executed' + (rejected + u') = executed' + rejected' + u'
    <3>1. executed' \in Nat /\ rejected' = rejected
      BY <1>0, <2>3, BumpedType DEF Bumped
    <3> HIDE DEF u
    <3> QED
      BY <1>0, <2>2, <3>1
  <2> QED
    BY <1>0, <2>3, <2>4, <2>5
<1>5. CASE \/ CheckQueue(c) /\ ~(queued >= maxQueue)
           \/ JoinQueue(c) \/ TakeSlot(c) \/ LeaveQueue(c) \/ Begin(c)
           \/ End(c) \/ release(c)
  <2>1. PICK place \in Places : GoTo(c, place) /\ (at[c] \in U <=> place \in U)
    BY <1>5 DEF CheckQueue, JoinQueue, TakeSlot, LeaveQueue, Begin, End, release, Places
  <2>2. u' = u
    BY <1>0, <2>1, Move
  <2>3. executed' = executed /\ rejected' = rejected /\ started' = started
    BY <1>5 DEF CheckQueue, JoinQueue, TakeSlot, LeaveQueue, Begin, End, release
  <2> QED
    BY <1>0, <2>2, <2>3
<1> QED
  BY <1>2, <1>3, <1>4, <1>5 DEF Proceed

(***************************************************************************)
(* Every call is counted once, however often the totals have wrapped       *)
(* (CallsAreCounted).                                                      *)
(***************************************************************************)
THEOREM EveryCallIsCounted == Spec => []CallsAreCounted
<1>1. Init => IInvCounts
  <2> SUFFICES ASSUME Init PROVE CallsAreCounted
    BY InitInv DEF IInvCounts
  <2>1. Undecided = {}
    BY DEF Init, Undecided, At
  <2>2. Cardinality(Undecided) = 0
    BY <2>1, FS_EmptySet
  <2> QED
    BY <2>2, BulkheadAssumption DEF Init, CallsAreCounted
<1>2. IInvCounts /\ [Next]_bulkheadVars => IInvCounts'
  <2> SUFFICES ASSUME IInvCounts, [Next]_bulkheadVars PROVE CallsAreCounted'
    BY NextInv DEF IInvCounts
  <2>1. ASSUME NEW c \in Callers, TryAcquire(c) \/ Proceed(c) PROVE CallsAreCounted'
    BY <2>1, StepCounts
  <2>2. CASE UNCHANGED bulkheadVars
    BY <2>2 DEF bulkheadVars, IInvCounts, CallsAreCounted, Undecided, At
  <2> QED
    BY <2>1, <2>2 DEF Next
<1>3. IInvCounts => CallsAreCounted
  BY DEF IInvCounts
<1> QED
  BY <1>1, <1>2, <1>3, PTL DEF Spec

-----------------------------------------------------------------------------

(***************************************************************************)
(* Every step of the bulkhead is a step of ConcurrencyLimit or leaves the  *)
(* callers inside alone (LimitsConcurrency).                               *)
(***************************************************************************)
LEMMA StepLimits ==
  ASSUME IInv, NEW c \in Callers, TryAcquire(c) \/ Proceed(c)
  PROVE  [Limit!Next]_Holding
<1> DEFINE H == {"dequeued", "acquired", "running", "finished", "leaving"}
<1>0. /\ at \in [Callers -> Places]
      /\ Holding = At(H) /\ Holding' = At(H)'
      /\ semaphore = Cardinality(Holding)
  BY DEF IInv, TypeOK, NothingLeaks, Holding
<1>1. CASE (TryAcquire(c) /\ semaphore < totalSlots) \/ TakeSlot(c)
  <2>1. PICK place \in {"acquired", "dequeued"} :
          GoTo(c, place) /\ at[c] \in {"outside", "waiting"} /\ semaphore < totalSlots
    BY <1>1 DEF TryAcquire, TakeSlot
  <2>2. Holding' = Holding \cup {c} /\ c \notin Holding
    BY <1>0, <2>1, Move DEF Places
  <2>3. Limit!Cardinality(Holding) = Cardinality(Holding)
    BY DEF Limit!Cardinality, Cardinality
  <2> QED
    BY <1>0, <2>1, <2>2, <2>3 DEF Limit!Next, Limit!Enter
<1>2. CASE release(c)
  <2>1. GoTo(c, "outside") /\ at[c] = "leaving"
    BY <1>2 DEF release
  <2>2. Holding' = Holding \ {c} /\ c \in Holding
    BY <1>0, <2>1, Move DEF Places
  <2> QED
    BY <2>2 DEF Limit!Next, Limit!Leave
<1>3. CASE (TryAcquire(c) /\ ~(semaphore < totalSlots)) \/ CheckQueue(c) \/ JoinQueue(c)
           \/ GiveUp(c) \/ (LeaveQueue(c) /\ at[c] = "refused")
  <2>1. PICK place \in {"outside", "full", "admitted", "waiting", "refused"} :
          GoTo(c, place) /\ at[c] \in {"outside", "full", "admitted", "waiting", "refused"}
    BY <1>3 DEF TryAcquire, CheckQueue, JoinQueue, GiveUp, LeaveQueue
  <2>2. Holding' = Holding
    BY <1>0, <2>1, Move DEF Places
  <2> QED
    BY <2>2
<1>4. CASE Begin(c) \/ Finish(c) \/ End(c) \/ (LeaveQueue(c) /\ at[c] = "dequeued")
  <2>1. PICK place \in H : GoTo(c, place) /\ at[c] \in H
    BY <1>4 DEF Begin, Finish, End, LeaveQueue
  <2>2. Holding' = Holding
    BY <1>0, <2>1, Move DEF Places
  <2> QED
    BY <2>2
<1> QED
  BY <1>1, <1>2, <1>3, <1>4 DEF Proceed, LeaveQueue

THEOREM BulkheadLimits == Spec => LimitsConcurrency
<1>1. Init => Limit!Init
  BY DEF Init, Limit!Init, Holding, At
<1>2. IInv /\ [Next]_bulkheadVars => [Limit!Next]_Holding
  <2> SUFFICES ASSUME IInv, [Next]_bulkheadVars PROVE [Limit!Next]_Holding
    OBVIOUS
  <2>1. ASSUME NEW c \in Callers, TryAcquire(c) \/ Proceed(c)
        PROVE  [Limit!Next]_Holding
    BY <2>1, StepLimits
  <2>2. CASE UNCHANGED bulkheadVars
    BY <2>2 DEF bulkheadVars, Holding, At
  <2> QED
    BY <2>1, <2>2 DEF Next
<1> QED
  BY <1>1, <1>2, Invariance, PTL DEF Spec, LimitsConcurrency, Limit!Spec
=============================================================================
