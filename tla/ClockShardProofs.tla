-------------------------- MODULE ClockShardProofs --------------------------
(***************************************************************************)
(* Safety of one cache shard, for every set of blocks, sizes and capacity. *)
(* The second chance is exact: the hand evicts a block at the visit after  *)
(* it has passed it min(touch, MaxCountdown) times since its last touch;   *)
(* and the eviction loop can always go on, but not for ever.               *)
(***************************************************************************)
EXTENDS ClockHistory, FiniteSetTheorems, TLAPS

(* The types of stats' counters, and that Bump changes one of them. *)
LEMMA BumpType ==
  ASSUME NEW s \in [Counters -> Nat], NEW c \in Counters
  PROVE  /\ Bump(s, c) \in [Counters -> Nat]
         /\ Bump(s, c)[c] = s[c] + 1
         /\ \A d \in Counters \ {c} : Bump(s, c)[d] = s[d]
  BY DEF Bump

LEMMA CounterNames ==
  ASSUME NEW b
  PROVE  HitCounter(b) \in Counters /\ MissCounter(b) \in Counters
  BY DEF HitCounter, MissCounter, Counters

LEMMA AgedType ==
  ASSUME NEW n \in Nat, n # 0
  PROVE  Aged(n) \in Nat
  BY DEF Aged, MaxCountdown, HighCountdown

-----------------------------------------------------------------------------
(* Removing the head of a sequence removes one position. *)
LEMMA TailIsShift ==
  ASSUME NEW S, NEW q \in Seq(S), q # <<>>
  PROVE  /\ Tail(q) \in Seq(S)
         /\ Len(q) \in Nat \ {0}
         /\ Len(Tail(q)) = Len(q) - 1
         /\ Head(q) = q[1]
         /\ \A i \in 1..Len(Tail(q)) : Tail(q)[i] = q[i + 1]
  OBVIOUS

LEMMA AppendIsExtension ==
  ASSUME NEW S, NEW q \in Seq(S), NEW e \in S
  PROVE  /\ Append(q, e) \in Seq(S)
         /\ Len(Append(q, e)) = Len(q) + 1
         /\ Append(q, e)[Len(q) + 1] = e
         /\ \A i \in 1..Len(q) : Append(q, e)[i] = q[i]
  OBVIOUS

(* q holds each member of R once, and nothing else. *)
IsRingOf(q, R) ==
  /\ \A i \in DOMAIN q : q[i] \in R
  /\ \A b \in R : \E i \in DOMAIN q : q[i] = b
  /\ \A i, j \in DOMAIN q : q[i] = q[j] => i = j

LEMMA RingWithoutHead ==
  ASSUME NEW S, NEW q \in Seq(S), q # <<>>, NEW R, IsRingOf(q, R)
  PROVE  IsRingOf(Tail(q), R \ {Head(q)})
<1>1. /\ Len(q) \in Nat \ {0}
      /\ Len(Tail(q)) = Len(q) - 1
      /\ Head(q) = q[1]
      /\ \A i \in 1..Len(Tail(q)) : Tail(q)[i] = q[i + 1]
  BY TailIsShift
<1>2. DOMAIN q = 1..Len(q) /\ DOMAIN Tail(q) = 1..Len(Tail(q))
  BY TailIsShift
<1>3. ASSUME NEW i \in DOMAIN Tail(q)
      PROVE  Tail(q)[i] \in R \ {Head(q)}
  <2>1. i + 1 \in DOMAIN q /\ 1 \in DOMAIN q /\ i + 1 # 1
    BY <1>1, <1>2
  <2> QED
    BY <2>1, <1>1, <1>2 DEF IsRingOf
<1>4. ASSUME NEW b \in R \ {Head(q)}
      PROVE  \E i \in DOMAIN Tail(q) : Tail(q)[i] = b
  <2>1. PICK i \in DOMAIN q : q[i] = b
    BY DEF IsRingOf
  <2>2. i - 1 \in DOMAIN Tail(q) /\ Tail(q)[i - 1] = b
    BY <2>1, <1>1, <1>2
  <2> QED
    BY <2>2
<1>5. ASSUME NEW i \in DOMAIN Tail(q), NEW j \in DOMAIN Tail(q),
             Tail(q)[i] = Tail(q)[j]
      PROVE  i = j
  <2>1. i + 1 \in DOMAIN q /\ j + 1 \in DOMAIN q /\ q[i + 1] = q[j + 1]
    BY <1>1, <1>2, <1>5
  <2>2. i + 1 = j + 1
    BY <2>1 DEF IsRingOf
  <2> QED
    BY <2>2, <1>1, <1>2
<1> QED
  BY <1>3, <1>4, <1>5 DEF IsRingOf

LEMMA RingWithNewLast ==
  ASSUME NEW S, NEW q \in Seq(S), NEW e \in S, NEW R, IsRingOf(q, R), e \notin R
  PROVE  IsRingOf(Append(q, e), R \cup {e})
<1> DEFINE a == Append(q, e)
<1>1. /\ Len(a) = Len(q) + 1 /\ Len(q) \in Nat
      /\ a[Len(q) + 1] = e
      /\ \A i \in 1..Len(q) : a[i] = q[i]
      /\ DOMAIN a = 1..Len(a)
      /\ DOMAIN q = 1..Len(q)
  BY AppendIsExtension
<1> HIDE DEF a
<1>2. ASSUME NEW i \in DOMAIN a
      PROVE  i = Len(q) + 1 \/ i \in DOMAIN q
  BY <1>1
<1>3. \A i \in DOMAIN a : a[i] \in R \cup {e}
  BY <1>1, <1>2 DEF IsRingOf
<1>4. \A b \in R \cup {e} : \E i \in DOMAIN a : a[i] = b
  <2>1. ASSUME NEW b \in R PROVE \E i \in DOMAIN a : a[i] = b
    <3>1. PICK i \in DOMAIN q : q[i] = b
      BY DEF IsRingOf
    <3> QED
      BY <3>1, <1>1
  <2>2. \E i \in DOMAIN a : a[i] = e
    BY <1>1
  <2> QED
    BY <2>1, <2>2
<1>5. \A i, j \in DOMAIN a : a[i] = a[j] => i = j
  BY <1>1, <1>2 DEF IsRingOf
<1> QED
  BY <1>3, <1>4, <1>5 DEF IsRingOf, a

-----------------------------------------------------------------------------
(* What InsertEntry and EvictHead do to the resident set. *)
LEMMA InsertEntryResident ==
  ASSUME TypeOK, InsertEntry
  PROVE  /\ pending \in Blocks /\ pending \notin Resident
         /\ Resident' = Resident \cup {pending}
         /\ Size[pending] <= Capacity
  BY BlocksAssumption DEF TypeOK, InsertEntry, Refused, Resident

LEMMA EvictHeadResident ==
  ASSUME TypeOK, EvictHead
  PROVE  /\ Head(clock_queue) \in Resident
         /\ Resident' = Resident \ {Head(clock_queue)}
  BY DEF TypeOK, EvictHead, Restrict, Resident, SizeWithout

LEMMA AgeHeadResident ==
  ASSUME TypeOK, AgeHead
  PROVE  Resident' = Resident
  BY DEF TypeOK, AgeHead, Resident, Behind

LEMMA LookupHitResident ==
  ASSUME TypeOK, NEW b \in Blocks, LookupHit(b)
  PROVE  Resident' = Resident
  BY DEF TypeOK, LookupHit, Resident

(* The variables keep their types; in particular a countdown is
   never aged below zero. *)
LEMMA TypeInit == Init => TypeOK
  BY DEF Init, TypeOK, Resident, Counters

LEMMA TypeStep == TypeOK /\ [Next]_vars => TypeOK'
<1> SUFFICES ASSUME TypeOK, [Next]_vars PROVE TypeOK'
  OBVIOUS
<1>1. ASSUME NEW b \in Blocks, LookupHit(b) PROVE TypeOK'
  <2>1. stats' \in [Counters -> Nat]
    BY <1>1, BumpType, CounterNames DEF LookupHit, TypeOK, Counters
  <2>2. Resident' = Resident /\ entries' \in [Resident -> Nat]
    BY <1>1 DEF LookupHit, TypeOK, Resident
  <2> QED
    BY <1>1, <2>1, <2>2 DEF LookupHit, TypeOK
<1>2. ASSUME NEW b \in Blocks, LookupMiss(b) PROVE TypeOK'
  <2>1. stats' \in [Counters -> Nat]
    BY <1>2, BumpType DEF LookupMiss, TypeOK, Counters, Missed
  <2> QED
    BY <1>2, <2>1 DEF LookupMiss, TypeOK, Resident, Missed
<1>3. CASE InsertReturnsEarly
  BY <1>3 DEF InsertReturnsEarly, TypeOK, Resident
<1>4. CASE EvictHead
  <2>1. stats' \in [Counters -> Nat]
    BY <1>4, BumpType DEF EvictHead, TypeOK, Counters, SizeWithout
  <2>2. Resident' \subseteq Blocks /\ entries' \in [Resident' -> Nat]
    BY <1>4, EvictHeadResident DEF EvictHead, TypeOK, Restrict, Resident, SizeWithout
  <2>3. clock_queue' \in Seq(Blocks)
    BY <1>4, TailIsShift DEF EvictHead, TypeOK, SizeWithout
  <2>4. current_size' \in Int
    BY <1>4, EvictHeadResident, BlocksAssumption DEF EvictHead, TypeOK, SizeWithout
  <2> QED
    BY <1>4, <2>1, <2>2, <2>3, <2>4 DEF EvictHead, TypeOK, SizeWithout
<1>5. CASE AgeHead
  <2>1. clock_queue' \in Seq(Blocks)
    BY <1>5, TailIsShift, AppendIsExtension DEF AgeHead, TypeOK, Behind
  <2>2. Resident' = Resident /\ entries' \in [Resident' -> Nat]
    BY <1>5, AgeHeadResident, AgedType DEF AgeHead, TypeOK, Resident, Behind
  <2> QED
    BY <1>5, <2>1, <2>2 DEF AgeHead, TypeOK, Behind
<1>6. CASE InsertEntry
  <2>1. stats' \in [Counters -> Nat]
    BY <1>6, BumpType, CounterNames DEF InsertEntry, TypeOK
  <2>2. Resident' \subseteq Blocks /\ entries' \in [Resident' -> Nat]
    BY <1>6, InsertEntryResident
    DEF InsertEntry, TypeOK, Resident, InitialCountdown, LowCountdown,
        HighCountdown
  <2>3. clock_queue' \in Seq(Blocks)
    BY <1>6, InsertEntryResident, AppendIsExtension DEF InsertEntry, TypeOK
  <2>4. current_size' \in Int
    BY <1>6, InsertEntryResident, BlocksAssumption DEF InsertEntry, TypeOK
  <2> QED
    BY <1>6, <2>1, <2>2, <2>3, <2>4 DEF InsertEntry, TypeOK
<1>7. CASE UNCHANGED vars
  BY <1>7 DEF vars, TypeOK, Resident
<1> QED
  BY <1>1, <1>2, <1>3, <1>4, <1>5, <1>6, <1>7 DEF Next, Insert, Stopped

(* The variables keep their types in every behaviour; in particular the
   hand never ages a countdown below zero. *)
THEOREM TypeCorrect == Spec => []TypeOK
<1>1. Init => TypeOK
  BY TypeInit
<1>2. TypeOK /\ [Next]_vars => TypeOK'
  BY TypeStep
<1> QED
  BY <1>1, <1>2, PTL DEF Spec

-----------------------------------------------------------------------------
LEMMA RingStep ==
  TypeOK /\ RingMatchesEntries /\ [Next]_vars => RingMatchesEntries'
<1> SUFFICES ASSUME TypeOK, IsRingOf(clock_queue, Resident), [Next]_vars
             PROVE  IsRingOf(clock_queue', Resident')
  BY DEF RingMatchesEntries, IsRingOf
<1>1. ASSUME NEW b \in Blocks, LookupHit(b) \/ LookupMiss(b)
      PROVE  IsRingOf(clock_queue', Resident')
  BY <1>1, LookupHitResident DEF LookupHit, LookupMiss, Resident, Missed
<1>2. CASE InsertReturnsEarly
  BY <1>2 DEF InsertReturnsEarly, Resident
<1>3. CASE EvictHead
  <2>1. clock_queue \in Seq(Blocks) /\ clock_queue # <<>>
    BY <1>3 DEF EvictHead, TypeOK, SizeWithout
  <2> QED
    BY <1>3, <2>1, EvictHeadResident, RingWithoutHead DEF EvictHead, SizeWithout
<1>4. CASE AgeHead
  <2> DEFINE h == Head(clock_queue)
  <2>1. clock_queue \in Seq(Blocks) /\ clock_queue # <<>>
    BY <1>4 DEF AgeHead, TypeOK, Behind
  <2>2. h \in Resident /\ h \in Blocks
    BY <2>1, TailIsShift DEF IsRingOf, TypeOK
  <2>3. IsRingOf(Tail(clock_queue), Resident \ {h})
    BY <2>1, RingWithoutHead
  <2>4. IsRingOf(Append(Tail(clock_queue), h), (Resident \ {h}) \cup {h})
    BY <2>1, <2>2, <2>3, TailIsShift, RingWithNewLast
  <2>5. (Resident \ {h}) \cup {h} = Resident
    BY <2>2
  <2>6. clock_queue' = Append(Tail(clock_queue), h) /\ Resident' = Resident
    BY <1>4, <2>2, AgeHeadResident DEF AgeHead, Behind
  <2> QED
    BY <2>4, <2>5, <2>6
<1>5. CASE InsertEntry
  <2>1. clock_queue \in Seq(Blocks)
    BY DEF TypeOK
  <2> QED
    BY <1>5, <2>1, InsertEntryResident, RingWithNewLast DEF InsertEntry
<1>6. CASE UNCHANGED vars
  BY <1>6 DEF vars, Resident
<1> QED
  BY <1>1, <1>2, <1>3, <1>4, <1>5, <1>6 DEF Next, Insert, Stopped

(* In every behaviour the clock queue holds each resident block once and
   nothing else. *)
THEOREM RingCorrect == Spec => []RingMatchesEntries
<1>1. Init => RingMatchesEntries
  BY DEF Init, RingMatchesEntries, Resident
<1>2. TypeOK /\ RingMatchesEntries /\ [Next]_vars => RingMatchesEntries'
  BY RingStep
<1> QED
  BY <1>1, <1>2, TypeCorrect, PTL DEF Spec

(* While insert is making room, the hand has a block in front of it that it
   can evict or age: the eviction loop never spins on an empty queue. *)
THEOREM SweepCanProceed ==
  ASSUME TypeOK, RingMatchesEntries, MakingRoom
  PROVE  clock_queue # <<>> /\ Head(clock_queue) \in Resident
<1>1. PICK b \in Resident : TRUE
  BY DEF MakingRoom, TooFull
<1>2. PICK i \in DOMAIN clock_queue : clock_queue[i] = b
  BY DEF RingMatchesEntries
<1>3. clock_queue \in Seq(Blocks) /\ clock_queue # <<>>
  BY <1>2 DEF TypeOK
<1>4. Head(clock_queue) = clock_queue[1] /\ 1 \in DOMAIN clock_queue
  BY <1>3, TailIsShift
<1> QED
  BY <1>3, <1>4 DEF RingMatchesEntries

-----------------------------------------------------------------------------
(* The two facts about bytes that hold together: the counter is exact, and
   what is resident fits. *)
BytesInv == SizeIsExact /\ CapacityRespected

LEMMA TotalSizeWithout ==
  ASSUME NEW S \in SUBSET Blocks, NEW b \in S
  PROVE  /\ TotalSize(S \ {b}) \in Nat
         /\ TotalSize(S \ {b}) = TotalSize(S) - Size[b]
<1>1. S \ {b} \in SUBSET Blocks /\ b \in Blocks \ (S \ {b})
  OBVIOUS
<1>2. (S \ {b}) \cup {b} = S
  OBVIOUS
<1>3. TotalSize(S) = TotalSize(S \ {b}) + Size[b]
  BY <1>1, <1>2, TotalSizeAssumption
<1> QED
  BY <1>1, <1>3, TotalSizeAssumption, BlocksAssumption

LEMMA BytesStep == TypeOK /\ BytesInv /\ [Next]_vars => BytesInv'
<1> SUFFICES ASSUME TypeOK, BytesInv, [Next]_vars PROVE BytesInv'
  OBVIOUS
<1> USE DEF BytesInv, SizeIsExact, CapacityRespected
<1>0. Resident \in SUBSET Blocks /\ TotalSize(Resident) \in Nat
  BY TotalSizeAssumption DEF TypeOK
<1>1. ASSUME NEW b \in Blocks, LookupHit(b) \/ LookupMiss(b)
      PROVE  BytesInv'
  BY <1>1, LookupHitResident DEF LookupHit, LookupMiss, Resident, Missed
<1>2. CASE InsertReturnsEarly
  BY <1>2 DEF InsertReturnsEarly, Resident
<1>3. CASE EvictHead
  <2> DEFINE h == Head(clock_queue)
  <2>1. h \in Resident /\ Resident' = Resident \ {h}
    BY <1>3, EvictHeadResident
  <2>2. current_size' = current_size - Size[h]
    BY <1>3 DEF EvictHead, SizeWithout
  <2>3. Size[h] \in Nat
    BY <2>1, <1>0, BlocksAssumption
  <2>4. TotalSize(Resident \ {h}) = TotalSize(Resident) - Size[h]
    BY <2>1, <1>0, TotalSizeWithout
  <2> QED
    BY <1>0, <2>1, <2>2, <2>3, <2>4, BlocksAssumption
<1>4. CASE AgeHead
  BY <1>4, AgeHeadResident DEF AgeHead, Behind
<1>5. CASE InsertEntry
  <2>1. /\ pending \in Blocks \ Resident
        /\ Resident' = Resident \cup {pending}
        /\ Size[pending] <= Capacity
    BY <1>5, InsertEntryResident
  <2>2. current_size' = current_size + Size[pending]
    BY <1>5 DEF InsertEntry
  <2>3. TotalSize(Resident \cup {pending}) = TotalSize(Resident) + Size[pending]
    BY <1>0, <2>1, TotalSizeAssumption
  <2>4. current_size + Size[pending] <= Capacity \/ Resident = {}
    BY <1>5, <2>1, <1>0, BlocksAssumption DEF InsertEntry, MakingRoom, TooFull
  <2>5. Resident = {} => current_size = 0
    BY TotalSizeAssumption
  <2>6. current_size + Size[pending] <= Capacity
    BY <2>1, <2>4, <2>5, BlocksAssumption
  <2> QED
    BY <2>1, <2>2, <2>3, <2>6
<1>6. CASE UNCHANGED vars
  BY <1>6 DEF vars, Resident
<1> QED
  BY <1>1, <1>2, <1>3, <1>4, <1>5, <1>6 DEF Next, Insert, Stopped

LEMMA BytesCorrect == Spec => []BytesInv
<1>1. Init => BytesInv
  BY TotalSizeAssumption, BlocksAssumption
  DEF Init, BytesInv, SizeIsExact, CapacityRespected, Resident
<1>2. TypeOK /\ BytesInv /\ [Next]_vars => BytesInv'
  BY BytesStep
<1> QED
  BY <1>1, <1>2, TypeCorrect, PTL DEF Spec

(* The running byte count is exact in every behaviour. *)
THEOREM SizeCorrect == Spec => []SizeIsExact
  BY BytesCorrect, PTL DEF BytesInv

(* The shard never holds more bytes than its capacity. *)
THEOREM CapacityCorrect == Spec => []CapacityRespected
  BY BytesCorrect, PTL DEF BytesInv

-----------------------------------------------------------------------------
(* CountersAgree is about a cardinality, so it needs the resident set to be
   finite, which it is because blocks come one at a time. *)
CountersInv == IsFiniteSet(Resident) /\ CountersAgree

LEMMA CountersStep == TypeOK /\ CountersInv /\ [Next]_vars => CountersInv'
<1> SUFFICES ASSUME TypeOK, CountersInv, [Next]_vars PROVE CountersInv'
  OBVIOUS
<1>0. /\ stats \in [Counters -> Nat]
      /\ {"hits", "misses", "evictions", "data_hits", "data_misses",
          "metadata_hits", "metadata_misses"} = Counters
      /\ Cardinality(Resident) \in Nat
  BY FS_CardinalityType DEF TypeOK, CountersInv, Counters
<1>1. ASSUME NEW b \in Blocks, LookupHit(b) PROVE CountersInv'
  <2>1. Resident' = Resident
    BY <1>1, LookupHitResident
  <2>2. CASE b \in DataBlocks
    BY <1>0, <1>1, <2>1, <2>2
    DEF CountersInv, CountersAgree, LookupHit, HitCounter, Bump, Counters
  <2>3. CASE b \notin DataBlocks
    BY <1>0, <1>1, <2>1, <2>3
    DEF CountersInv, CountersAgree, LookupHit, HitCounter, Bump, Counters
  <2> QED
    BY <2>2, <2>3
<1>2. ASSUME NEW b \in Blocks, LookupMiss(b) PROVE CountersInv'
  <2>1. b # None /\ pending = None /\ pending' = b /\ Resident' = Resident
    BY <1>2, BlocksAssumption DEF LookupMiss, Resident
  <2>2. /\ stats'["misses"] = stats["misses"] + 1
        /\ \A d \in Counters \ {"misses"} : stats'[d] = stats[d]
    BY <1>0, <1>2, BumpType DEF LookupMiss, Missed
  <2> QED
    BY <1>0, <2>1, <2>2 DEF CountersInv, CountersAgree
<1>3. CASE InsertReturnsEarly
  BY <1>0, <1>3 DEF CountersInv, CountersAgree, InsertReturnsEarly, Resident
<1>4. CASE EvictHead
  <2> DEFINE h == Head(clock_queue)
  <2>1. h \in Resident /\ Resident' = Resident \ {h}
    BY <1>4, EvictHeadResident
  <2>2. /\ IsFiniteSet(Resident')
        /\ Cardinality(Resident') = Cardinality(Resident) - 1
    BY <2>1, FS_RemoveElement DEF CountersInv
  <2>3. /\ stats'["evictions"] = stats["evictions"] + 1
        /\ \A d \in Counters \ {"evictions"} : stats'[d] = stats[d]
    BY <1>0, <1>4, BumpType DEF EvictHead, SizeWithout
  <2>4. pending' = pending
    BY <1>4 DEF EvictHead
  <2>5. CountersAgree'
    BY <1>0, <2>2, <2>3, <2>4 DEF CountersInv, CountersAgree
  <2> QED
    BY <2>2, <2>5 DEF CountersInv
<1>5. CASE AgeHead
  BY <1>5, AgeHeadResident DEF CountersInv, CountersAgree, AgeHead, Behind
<1>6. CASE InsertEntry
  <2>1. pending \notin Resident /\ Resident' = Resident \cup {pending}
    BY <1>6, InsertEntryResident
  <2>2. /\ IsFiniteSet(Resident')
        /\ Cardinality(Resident') = Cardinality(Resident) + 1
    BY <2>1, FS_AddElement DEF CountersInv
  <2>3. /\ stats' = Bump(stats, MissCounter(pending))
        /\ pending # None /\ pending' = None
    BY <1>6 DEF InsertEntry
  <2>4. /\ stats["data_misses"] + stats["metadata_misses"]
              = stats["evictions"] + Cardinality(Resident)
        /\ stats["data_misses"] + stats["metadata_misses"] + 1 <= stats["misses"]
        /\ stats["hits"] = stats["data_hits"] + stats["metadata_hits"]
    BY <2>3 DEF CountersInv, CountersAgree
  <2>5. /\ stats'[MissCounter(pending)] = stats[MissCounter(pending)] + 1
        /\ \A d \in Counters \ {MissCounter(pending)} : stats'[d] = stats[d]
    BY <1>0, <2>3, BumpType, CounterNames
  <2>6. CASE pending \in DataBlocks
    <3>1. MissCounter(pending) = "data_misses"
      BY <2>6 DEF MissCounter
    <3>2. CountersAgree'
      BY <1>0, <2>2, <2>3, <2>4, <2>5, <3>1 DEF CountersAgree
    <3> QED
      BY <2>2, <3>2 DEF CountersInv
  <2>7. CASE pending \notin DataBlocks
    <3>1. MissCounter(pending) = "metadata_misses"
      BY <2>7 DEF MissCounter
    <3>2. CountersAgree'
      BY <1>0, <2>2, <2>3, <2>4, <2>5, <3>1 DEF CountersAgree
    <3> QED
      BY <2>2, <3>2 DEF CountersInv
  <2> QED
    BY <2>6, <2>7
<1>7. CASE UNCHANGED vars
  BY <1>7 DEF CountersInv, CountersAgree, vars, Resident
<1> QED
  BY <1>1, <1>2, <1>3, <1>4, <1>5, <1>6, <1>7 DEF Next, Insert, Stopped

(* In every behaviour what was inserted is what was evicted plus what is
   resident and was missed before, and hits by block type add up to hits. *)
THEOREM CountersCorrect == Spec => []CountersAgree
<1>1. Init => CountersInv
  <2> SUFFICES ASSUME Init PROVE CountersInv
    OBVIOUS
  <2>1. Resident = {}
    BY DEF Init, Resident
  <2>2. IsFiniteSet(Resident) /\ Cardinality(Resident) = 0
    BY <2>1, FS_EmptySet
  <2>3. /\ pending = None
        /\ \A c \in {"hits", "misses", "evictions", "data_hits", "data_misses",
                     "metadata_hits", "metadata_misses"} : stats[c] = 0
    BY DEF Init, Counters
  <2> QED
    BY <2>2, <2>3 DEF CountersInv, CountersAgree
<1>2. TypeOK /\ CountersInv /\ [Next]_vars => CountersInv'
  BY CountersStep
<1>3. CountersInv => CountersAgree
  BY DEF CountersInv
<1> QED
  BY <1>1, <1>2, <1>3, TypeCorrect, PTL DEF Spec

-----------------------------------------------------------------------------
(* The block being inserted is one that the lookup did not find. *)
PendingAbsent == pending \notin Resident

LEMMA PendingAbsentCorrect == Spec => []PendingAbsent
<1>1. Init => PendingAbsent
  BY BlocksAssumption DEF Init, PendingAbsent, Resident
<1>2. TypeOK /\ PendingAbsent /\ [Next]_vars => PendingAbsent'
  <2> SUFFICES ASSUME TypeOK, PendingAbsent, [Next]_vars PROVE PendingAbsent'
    OBVIOUS
  <2>0. None \notin Resident
    BY BlocksAssumption DEF TypeOK
  <2>1. ASSUME NEW b \in Blocks, LookupHit(b) PROVE PendingAbsent'
    BY <2>1, LookupHitResident DEF PendingAbsent, LookupHit
  <2>2. ASSUME NEW b \in Blocks, LookupMiss(b) PROVE PendingAbsent'
    BY <2>2 DEF PendingAbsent, LookupMiss, Resident, Missed
  <2>3. CASE InsertReturnsEarly
    BY <2>0, <2>3 DEF PendingAbsent, InsertReturnsEarly, Resident
  <2>4. CASE EvictHead
    BY <2>4, EvictHeadResident DEF PendingAbsent, EvictHead, SizeWithout
  <2>5. CASE AgeHead
    BY <2>5, AgeHeadResident DEF PendingAbsent, AgeHead, Behind
  <2>6. CASE InsertEntry
    BY <2>0, <2>6, InsertEntryResident, BlocksAssumption
    DEF PendingAbsent, InsertEntry
  <2>7. CASE UNCHANGED vars
    BY <2>7 DEF PendingAbsent, vars, Resident
  <2> QED
    BY <2>1, <2>2, <2>3, <2>4, <2>5, <2>6, <2>7 DEF Next, Insert, Stopped
<1> QED
  BY <1>1, <1>2, TypeCorrect, PTL DEF Spec

LEMMA StepImplements ==
  ASSUME TypeOK, BytesInv, PendingAbsent, [Next]_vars
  PROVE  [Promised!Next]_(Promised!vars)
<1> USE DEF Promised!vars, Promised!Next
<1>0. /\ Resident \in SUBSET Blocks /\ TotalSize(Resident) \in Nat
      /\ current_size = TotalSize(Resident)
  BY TotalSizeAssumption DEF TypeOK, BytesInv, SizeIsExact
<1>1. ASSUME NEW b \in Blocks, LookupHit(b)
      PROVE  UNCHANGED Promised!vars
  BY <1>1, LookupHitResident DEF LookupHit
<1>2. ASSUME NEW b \in Blocks, LookupMiss(b)
      PROVE  Promised!Miss(b)
  BY <1>2 DEF LookupMiss, Promised!Miss, Resident, Missed
<1>3. CASE InsertReturnsEarly
  <2>1. Promised!Reject
    BY <1>3 DEF InsertReturnsEarly, Refused, PendingAbsent, Promised!Reject,
                Resident
  <2> QED
    BY <2>1
<1>4. CASE EvictHead
  <2> DEFINE h == Head(clock_queue)
  <2>1. h \in Resident /\ Resident' = Resident \ {h} /\ pending' = pending
    BY <1>4, EvictHeadResident DEF EvictHead, SizeWithout
  <2>2. /\ pending # None
        /\ ~Refused
        /\ current_size + Size[pending] > Capacity
    BY <1>4 DEF EvictHead, MakingRoom, TooFull, SizeWithout
  <2>3. pending \in Blocks /\ Size[pending] \in Nat /\ Capacity \in Nat
    BY <2>2, BlocksAssumption DEF TypeOK
  <2>4. Size[pending] <= Capacity
    BY <2>2, <2>3 DEF Refused
  <2>5. ~Promised!Fits(pending)
    BY <1>0, <2>2, <2>3 DEF Promised!Fits
  <2>6. Promised!Drop(h)
    BY <2>1, <2>2, <2>4, <2>5 DEF Promised!Drop
  <2> QED
    BY <2>1, <2>6
<1>5. CASE AgeHead
  BY <1>5, AgeHeadResident DEF AgeHead, Behind
<1>6. CASE InsertEntry
  <2>1. /\ pending \in Blocks /\ Resident' = Resident \cup {pending}
        /\ Size[pending] <= Capacity /\ Size[pending] \in Nat
    BY <1>6, InsertEntryResident, BlocksAssumption
  <2>2. /\ pending # None /\ pending' = None
        /\ current_size + Size[pending] <= Capacity \/ Resident = {}
    BY <1>6, <1>0, <2>1, BlocksAssumption DEF InsertEntry, MakingRoom, TooFull
  <2>3. Promised!Fits(pending)
    <3>1. CASE current_size + Size[pending] <= Capacity
      BY <1>0, <3>1 DEF Promised!Fits
    <3>2. CASE Resident = {}
      <4>1. TotalSize(Resident) = 0
        BY <3>2, TotalSizeAssumption
      <4> QED
        BY <2>1, <4>1 DEF Promised!Fits
    <3> QED
      BY <2>2, <3>1, <3>2
  <2>4. Promised!Admit
    BY <2>1, <2>2, <2>3 DEF Promised!Admit
  <2> QED
    BY <2>4
<1>7. CASE UNCHANGED vars
  BY <1>7 DEF vars, Resident
<1> QED
  BY <1>1, <1>2, <1>3, <1>4, <1>5, <1>6, <1>7 DEF Next, Insert, Stopped

(* Every behaviour of the clock shard is, seen through its resident set and
   the block it is inserting, a behaviour of the bounded cache.  (That an
   admission is carried through is left to TLC: it is liveness.) *)
THEOREM ClockShardImplementsBoundedCache == Spec => Promised!SafetySpec
<1>1. Init => Promised!Init
  BY DEF Init, Promised!Init, Resident
<1>2. TypeOK /\ BytesInv /\ PendingAbsent /\ [Next]_vars
        => [Promised!Next]_(Promised!vars)
  BY StepImplements
<1> QED
  BY <1>1, <1>2, TypeCorrect, BytesCorrect, PendingAbsentCorrect, PTL
  DEF Spec, Promised!SafetySpec
-----------------------------------------------------------------------------
(* What remains of the countdown and what the hand has taken off it since
   the last touch make up what the block is owed. *)
Decayed(b) ==
  IF passes[b] = 0 THEN entries[b] = touch[b]
  ELSE entries[b] + passes[b] = Survives(b)

HistoryInv ==
  /\ touch \in [Resident -> Nat]
  /\ passes \in [Resident -> Nat]
  /\ \A b \in Resident : Decayed(b)

(* The history variables of a block that this step neither touches nor
   passes stay as they are. *)
LEMMA HistoryOf ==
  ASSUME RecordHistory, NEW b \in DOMAIN entries'
  PROVE  /\ Touched(b) => touch'[b] = entries'[b] /\ passes'[b] = 0
         /\ ~Touched(b) => touch'[b] = touch[b]
         /\ ~Touched(b) /\ Passed(b) => passes'[b] = passes[b] + 1
         /\ ~Touched(b) /\ ~Passed(b) => passes'[b] = passes[b]
  BY DEF RecordHistory

(* Whatever the step, a resident block's countdown is left alone, raised by
   a touch, or aged by one pass of the hand. *)
LEMMA CountdownStep ==
  ASSUME TypeOK, Next, NEW b \in Resident, b \in DOMAIN entries'
  PROVE  \/ entries'[b] = entries[b]
         \/ entries'[b] > entries[b]
         \/ entries[b] # 0 /\ entries'[b] = Aged(entries[b])
<1>1. ASSUME NEW c \in Blocks, LookupHit(c)
      PROVE  entries'[b] = entries[b] \/ entries'[b] > entries[b]
  BY <1>1 DEF LookupHit, TypeOK, Resident
<1>2. ASSUME NEW c \in Blocks, LookupMiss(c)
      PROVE  entries'[b] = entries[b]
  BY <1>2 DEF LookupMiss, Missed
<1>3. CASE InsertReturnsEarly
  BY <1>3 DEF InsertReturnsEarly
<1>4. CASE EvictHead
  BY <1>4, EvictHeadResident DEF EvictHead, Restrict, Resident, SizeWithout
<1>5. CASE AgeHead
  BY <1>5 DEF AgeHead, Behind
<1>6. CASE InsertEntry
  BY <1>6, InsertEntryResident DEF InsertEntry
<1>7. CASE Stopped
  BY <1>7 DEF Stopped, vars
<1> QED
  BY <1>1, <1>2, <1>3, <1>4, <1>5, <1>6, <1>7 DEF Next, Insert

LEMMA HistoryStep ==
  ASSUME TypeOK, TypeOK', HistoryInv, HistoryNext
  PROVE  HistoryInv'
<1>0. Next /\ RecordHistory
  BY DEF HistoryNext
<1>1. DOMAIN entries' = Resident'
  BY DEF Resident
<1>2. /\ entries \in [Resident -> Nat]
      /\ \A b \in Resident' : entries'[b] \in Nat
  BY DEF TypeOK
<1>3. ASSUME NEW b \in Resident'
      PROVE  /\ touch'[b] \in Nat
             /\ passes'[b] \in Nat
             /\ Decayed(b)'
  <2>0. b \in DOMAIN entries'
    BY <1>1
  <2>1. CASE Touched(b)
    BY <1>0, <1>2, <2>0, <2>1, HistoryOf DEF Decayed
  <2>2. CASE ~Touched(b)
    <3>1. b \in Resident /\ ~(entries'[b] > entries[b])
      BY <2>0, <2>2 DEF Touched
    <3>2. entries[b] \in Nat /\ touch[b] \in Nat /\ passes[b] \in Nat
      BY <1>2, <3>1 DEF HistoryInv
    <3>3. Decayed(b)
      BY <3>1 DEF HistoryInv
    <3>4. CASE entries'[b] = entries[b]
      <4>1. ~Passed(b)
        BY <3>2, <3>4 DEF Passed
      <4>2. touch'[b] = touch[b] /\ passes'[b] = passes[b]
        BY <1>0, <2>0, <2>2, <4>1, HistoryOf
      <4> QED
        BY <3>2, <3>3, <3>4, <4>2 DEF Decayed, Survives, MaxCountdown
    <3>5. CASE entries[b] # 0 /\ entries'[b] = Aged(entries[b])
      <4>1. Passed(b)
        BY <3>1, <3>2, <3>5 DEF Passed, Aged, MaxCountdown, HighCountdown
      <4>2. touch'[b] = touch[b] /\ passes'[b] = passes[b] + 1
        BY <1>0, <2>0, <2>2, <4>1, HistoryOf
      <4>3. CASE passes[b] = 0
        BY <3>2, <3>3, <3>5, <4>2, <4>3
        DEF Decayed, Survives, Aged, MaxCountdown, HighCountdown
      <4>4. CASE passes[b] # 0
        <5>1. entries[b] + passes[b] = Survives(b) /\ Survives(b) <= 3
          BY <3>2, <3>3, <4>4
          DEF Decayed, Survives, MaxCountdown, HighCountdown
        <5>2. Aged(entries[b]) = entries[b] - 1
          BY <3>2, <4>4, <5>1 DEF Aged, MaxCountdown, HighCountdown
        <5>3. Survives(b)' = Survives(b)
          BY <4>2 DEF Survives, MaxCountdown
        <5> QED
          BY <3>2, <3>5, <4>2, <5>1, <5>2, <5>3 DEF Decayed
      <4> QED
        BY <3>2, <4>2, <4>3, <4>4
    <3> QED
      BY <1>0, <2>0, <3>1, <3>4, <3>5, CountdownStep
  <2> QED
    BY <2>1, <2>2
<1>4. DOMAIN touch' = Resident' /\ DOMAIN passes' = Resident'
  BY <1>0 DEF RecordHistory, Resident
<1>5. /\ touch' = [b \in Resident' |-> touch'[b]]
      /\ passes' = [b \in Resident' |-> passes'[b]]
  BY <1>0 DEF RecordHistory, Resident
<1> QED
  BY <1>3, <1>5 DEF HistoryInv

LEMMA HistoryStutter ==
  ASSUME HistoryInv, UNCHANGED <<vars, historyVars>>
  PROVE  HistoryInv'
  BY DEF HistoryInv, Decayed, Survives, vars, historyVars, Resident

LEMMA HistoryCorrect == HistorySpec => [](TypeOK /\ HistoryInv)
<1>1. HistoryInit => TypeOK /\ HistoryInv
  BY TypeInit DEF HistoryInit, HistoryInv, Init, Resident
<1>2. TypeOK /\ HistoryInv /\ [HistoryNext]_<<vars, historyVars>>
        => (TypeOK /\ HistoryInv)'
  <2> SUFFICES ASSUME TypeOK, HistoryInv, [HistoryNext]_<<vars, historyVars>>
               PROVE  TypeOK' /\ HistoryInv'
    OBVIOUS
  <2>1. [Next]_vars
    BY DEF HistoryNext
  <2>2. TypeOK'
    BY <2>1, TypeStep
  <2> QED
    BY <2>2, HistoryStep, HistoryStutter
<1> QED
  BY <1>1, <1>2, PTL DEF HistorySpec

LEMMA SurvivalStep ==
  ASSUME TypeOK, HistoryInv, Next, NEW b \in Blocks, Evicted(b)
  PROVE  passes[b] = Survives(b)
<1>1. EvictHead
  BY LookupHitResident, AgeHeadResident, InsertEntryResident
  DEF Evicted, Next, Insert, LookupMiss, InsertReturnsEarly, Stopped, vars,
      Resident, Missed
<1>2. b = Head(clock_queue)
  BY <1>1, EvictHeadResident DEF Evicted, Resident
<1>3. b \in Resident /\ entries[b] = 0
  BY <1>1, <1>2 DEF EvictHead, SizeWithout
<1>4. touch[b] \in Nat /\ passes[b] \in Nat /\ Decayed(b)
  BY <1>3 DEF HistoryInv
<1> QED
  BY <1>3, <1>4 DEF Decayed, Survives, MaxCountdown, HighCountdown

(* A block is evicted at the visit after exactly min(touch, MaxCountdown)
   passes since its last touch: two for a cold data block, three for cold
   metadata, and never more than three however often it was hit. *)
THEOREM SurvivalCorrect == HistorySpec => SurvivalIsExact
<1>1. TypeOK /\ HistoryInv /\ [HistoryNext]_<<vars, historyVars>>
        => [\A b \in Blocks : Evicted(b) => passes[b] = Survives(b)]_vars
  BY SurvivalStep DEF HistoryNext
<1> QED
  BY <1>1, HistoryCorrect, PTL DEF HistorySpec, SurvivalIsExact
-----------------------------------------------------------------------------
(* The hand comes to d before it comes to b. *)
Ahead(d, b) ==
  \E i, j \in DOMAIN clock_queue : i < j /\ clock_queue[i] = d /\ clock_queue[j] = b

(* The hand passes b and an elder of b in turn, so that since b's last touch
   it has passed the elder as often as b, or once less if the elder is next. *)
EldersInv ==
  \A b \in Resident : \A d \in elders[b] :
    /\ d \in Resident /\ d # b
    /\ passes[d] < passes[b] => passes[d] + 1 = passes[b] /\ Ahead(d, b)

(* A step leaves the order of two blocks alone, or the hand passes the one
   that is ahead. *)
LEMMA TurnsStep ==
  ASSUME TypeOK, RingMatchesEntries, Next,
         NEW b \in Resident, NEW d \in Resident, b # d,
         b \in DOMAIN entries', d \in DOMAIN entries', ~Touched(b), ~Touched(d)
  PROVE  \/ ~Passed(b) /\ ~Passed(d) /\ (Ahead(d, b) => Ahead(d, b)')
         \/ ~Passed(b) /\ Passed(d)
         \/ Passed(b) /\ ~Passed(d) /\ ~Ahead(d, b) /\ Ahead(d, b)'
<1>1. /\ entries[b] \in Nat /\ entries[d] \in Nat
      /\ clock_queue \in Seq(Blocks) /\ DOMAIN clock_queue = 1..Len(clock_queue)
      /\ Len(clock_queue) \in Nat
  BY DEF TypeOK
<1>2. ASSUME entries'[b] = entries[b], entries'[d] = entries[d],
             clock_queue' = clock_queue
      PROVE  ~Passed(b) /\ ~Passed(d) /\ (Ahead(d, b) => Ahead(d, b)')
  BY <1>1, <1>2 DEF Passed, Ahead
<1>3. ASSUME NEW c \in Blocks, LookupHit(c)
      PROVE  ~Passed(b) /\ ~Passed(d) /\ (Ahead(d, b) => Ahead(d, b)')
  <2>1. clock_queue' = clock_queue
    BY <1>3 DEF LookupHit
  <2>2. c # b /\ c # d
    BY <1>1, <1>3 DEF LookupHit, Touched, TypeOK, Resident
  <2>3. entries'[b] = entries[b] /\ entries'[d] = entries[d]
    BY <1>3, <2>2 DEF LookupHit, TypeOK, Resident
  <2> QED
    BY <1>2, <2>1, <2>3
<1>4. ASSUME (\E c \in Blocks : LookupMiss(c)) \/ InsertReturnsEarly \/ Stopped
      PROVE  ~Passed(b) /\ ~Passed(d) /\ (Ahead(d, b) => Ahead(d, b)')
  <2>1. entries' = entries /\ clock_queue' = clock_queue
    BY <1>4 DEF LookupMiss, InsertReturnsEarly, Stopped, vars
  <2> QED
    BY <1>2, <2>1
<1>5. ASSUME clock_queue # <<>>
      PROVE  /\ Tail(clock_queue) \in Seq(Blocks)
             /\ Len(Tail(clock_queue)) = Len(clock_queue) - 1
             /\ Head(clock_queue) = clock_queue[1]
             /\ \A i \in 1..Len(Tail(clock_queue)) :
                  Tail(clock_queue)[i] = clock_queue[i + 1]
  BY <1>1, <1>5, TailIsShift
<1>6. CASE EvictHead
  <2>1. /\ clock_queue # <<>> /\ clock_queue' = Tail(clock_queue)
        /\ Head(clock_queue) # d /\ Head(clock_queue) # b
    BY <1>6, EvictHeadResident DEF EvictHead, Resident
  <2>2. entries'[b] = entries[b] /\ entries'[d] = entries[d]
    BY <1>6, <2>1 DEF EvictHead, Restrict, Resident, SizeWithout
  <2>3. ASSUME Ahead(d, b)
        PROVE  Ahead(d, b)'
    <3>1. PICK i \in DOMAIN clock_queue, j \in DOMAIN clock_queue :
            i < j /\ clock_queue[i] = d /\ clock_queue[j] = b
      BY <2>3 DEF Ahead
    <3>2. i # 1 /\ i - 1 \in 1..Len(clock_queue') /\ j - 1 \in 1..Len(clock_queue')
      BY <1>1, <1>5, <2>1, <3>1
    <3>3. clock_queue'[i - 1] = d /\ clock_queue'[j - 1] = b /\ i - 1 < j - 1
      BY <1>1, <1>5, <2>1, <3>1, <3>2
    <3>4. DOMAIN clock_queue' = 1..Len(clock_queue')
      BY <1>5, <2>1
    <3> QED
      BY <3>2, <3>3, <3>4 DEF Ahead
  <2> QED
    BY <1>1, <2>2, <2>3 DEF Passed
<1>7. CASE InsertEntry
  <2>1. /\ clock_queue' = Append(clock_queue, pending) /\ pending \in Blocks
        /\ pending \notin Resident
    BY <1>7, InsertEntryResident DEF InsertEntry
  <2>2. entries'[b] = entries[b] /\ entries'[d] = entries[d]
    BY <1>7, <2>1 DEF InsertEntry
  <2>3. /\ DOMAIN clock_queue' = 1..Len(clock_queue) + 1
        /\ \A i \in 1..Len(clock_queue) : clock_queue'[i] = clock_queue[i]
    BY <1>1, <2>1, AppendIsExtension
  <2>4. Ahead(d, b) => Ahead(d, b)'
    BY <1>1, <2>3 DEF Ahead
  <2> QED
    BY <1>1, <2>2, <2>4 DEF Passed
<1>8. CASE AgeHead
  <2> DEFINE k == Head(clock_queue)
             t == Tail(clock_queue)
  <2>1. /\ clock_queue # <<>> /\ k \in Resident /\ entries[k] # 0
        /\ entries' = [x \in Resident |-> IF x = k THEN Aged(entries[x]) ELSE entries[x]]
        /\ clock_queue' = Append(t, k)
    <3>1. clock_queue # <<>>
      BY <1>8 DEF AgeHead
    <3>2. k \in Resident
      BY <1>1, <1>5, <3>1 DEF RingMatchesEntries
    <3> QED
      BY <1>8, <3>1, <3>2 DEF AgeHead, Behind
  <2>2. /\ t \in Seq(Blocks) /\ k \in Blocks /\ Len(t) = Len(clock_queue) - 1
        /\ k = clock_queue[1] /\ \A i \in 1..Len(t) : t[i] = clock_queue[i + 1]
    BY <1>5, <2>1 DEF TypeOK
  <2>3. \A x \in Resident : entries'[x] = IF x = k THEN Aged(entries[x]) ELSE entries[x]
    BY <2>1
  <2> HIDE DEF k, t
  <2>4. /\ DOMAIN clock_queue' = 1..Len(clock_queue)
        /\ \A i \in 1..Len(clock_queue) - 1 : clock_queue'[i] = clock_queue[i + 1]
        /\ clock_queue'[Len(clock_queue)] = k /\ Len(clock_queue) >= 1
    <3>1. /\ clock_queue' \in Seq(Blocks) /\ Len(clock_queue') = Len(t) + 1
          /\ clock_queue'[Len(t) + 1] = k
          /\ \A i \in 1..Len(t) : clock_queue'[i] = t[i]
      BY <2>1, <2>2, AppendIsExtension
    <3>2. Len(t) \in Nat
      BY <2>2
    <3> QED
      BY <1>1, <2>2, <3>1, <3>2
  <2>5. \A x \in {b, d} : x # k => ~Passed(x)
    BY <1>1, <2>3 DEF Passed
  <2>6. \A x \in {b, d} : x = k => Passed(x)
    BY <1>1, <2>1, <2>3 DEF Passed, Aged, MaxCountdown, HighCountdown
  <2>7. CASE k = d
    BY <2>5, <2>6, <2>7
  <2>8. CASE k = b
    <3>1. ~Ahead(d, b)
      <4> SUFFICES ASSUME Ahead(d, b) PROVE FALSE
        OBVIOUS
      <4>1. PICK i \in DOMAIN clock_queue, j \in DOMAIN clock_queue :
              i < j /\ clock_queue[i] = d /\ clock_queue[j] = b
        BY DEF Ahead
      <4>2. clock_queue[1] = b /\ 1 \in DOMAIN clock_queue
        BY <1>1, <2>2, <2>4, <2>8
      <4>3. j = 1
        BY <4>1, <4>2 DEF RingMatchesEntries
      <4> QED
        BY <1>1, <4>1, <4>3
    <3>2. Ahead(d, b)'
      <4>1. PICK i \in DOMAIN clock_queue : clock_queue[i] = d
        BY DEF RingMatchesEntries
      <4>2. clock_queue[1] = b
        BY <2>2, <2>8
      <4>3. i # 1 /\ i - 1 \in 1..Len(clock_queue) - 1 /\ (i - 1) + 1 = i
        <5>1. i \in 1..Len(clock_queue) /\ i # 1
          BY <1>1, <4>1, <4>2
        <5> QED
          BY <1>1, <5>1
      <4>4. clock_queue'[i - 1] = d /\ i - 1 < Len(clock_queue)
        BY <1>1, <2>4, <4>1, <4>3
      <4>5. i - 1 \in DOMAIN clock_queue' /\ Len(clock_queue) \in DOMAIN clock_queue'
        BY <1>1, <2>4, <4>3
      <4> QED
        BY <2>4, <2>8, <4>4, <4>5 DEF Ahead
    <3> QED
      BY <2>5, <2>6, <2>8, <3>1, <3>2
  <2>9. CASE k # d /\ k # b
    <3>1. ASSUME Ahead(d, b)
          PROVE  Ahead(d, b)'
      <4>1. PICK i \in DOMAIN clock_queue, j \in DOMAIN clock_queue :
              i < j /\ clock_queue[i] = d /\ clock_queue[j] = b
        BY <3>1 DEF Ahead
      <4>2. /\ i - 1 \in 1..Len(clock_queue) - 1 /\ j - 1 \in 1..Len(clock_queue) - 1
            /\ (i - 1) + 1 = i /\ (j - 1) + 1 = j /\ i - 1 < j - 1
        BY <1>1, <2>2, <2>9, <4>1
      <4>3. clock_queue'[i - 1] = d /\ clock_queue'[j - 1] = b
        BY <2>4, <4>1, <4>2
      <4>4. i - 1 \in DOMAIN clock_queue' /\ j - 1 \in DOMAIN clock_queue'
        BY <1>1, <2>4, <4>2
      <4> QED
        BY <4>2, <4>3, <4>4 DEF Ahead
    <3> QED
      BY <2>5, <2>9, <3>1
  <2> QED
    BY <2>7, <2>8, <2>9
<1> QED
  BY <1>3, <1>4, <1>6, <1>7, <1>8 DEF Next, Insert

LEMMA EldersStep ==
  ASSUME TypeOK, TypeOK', RingMatchesEntries, HistoryInv, EldersInv, HistoryNext
  PROVE  EldersInv'
<1>1. Next /\ RecordHistory /\ DOMAIN entries' = Resident' /\ HistoryInv'
  BY HistoryStep DEF HistoryNext, Resident
<1>2. ASSUME NEW b \in Resident', NEW d \in elders'[b]
      PROVE  /\ d \in Resident' /\ d # b
             /\ passes'[d] < passes'[b]
                  => passes'[d] + 1 = passes'[b] /\ Ahead(d, b)'
  <2>1. /\ d \in DOMAIN entries' /\ b \in DOMAIN entries' /\ d # b /\ ~Touched(d)
        /\ Touched(b) \/ d \in elders[b]
    BY <1>1, <1>2 DEF RecordHistory
  <2>2. passes'[b] \in Nat /\ passes'[d] \in Nat
    BY <1>1, <2>1 DEF HistoryInv
  <2>3. CASE Touched(b)
    <3>1. passes'[b] = 0
      BY <1>1, <2>1, <2>3, HistoryOf
    <3> QED
      BY <1>1, <2>1, <2>2, <3>1
  <2>4. CASE ~Touched(b)
    <3>1. b \in Resident /\ d \in Resident
      BY <2>1, <2>4 DEF Touched
    <3>2. passes[b] \in Nat /\ passes[d] \in Nat
      BY <3>1 DEF HistoryInv
    <3>3. passes[d] < passes[b] => passes[d] + 1 = passes[b] /\ Ahead(d, b)
      BY <2>1, <2>4, <3>1 DEF EldersInv
    <3>4. /\ Passed(b) => passes'[b] = passes[b] + 1
          /\ ~Passed(b) => passes'[b] = passes[b]
          /\ Passed(d) => passes'[d] = passes[d] + 1
          /\ ~Passed(d) => passes'[d] = passes[d]
      BY <1>1, <2>1, <2>4, HistoryOf
    <3>5. \/ ~Passed(b) /\ ~Passed(d) /\ (Ahead(d, b) => Ahead(d, b)')
          \/ ~Passed(b) /\ Passed(d)
          \/ Passed(b) /\ ~Passed(d) /\ ~Ahead(d, b) /\ Ahead(d, b)'
      BY <1>1, <2>1, <2>4, <3>1, TurnsStep
    <3>6. CASE ~Passed(b) /\ ~Passed(d) /\ (Ahead(d, b) => Ahead(d, b)')
      BY <1>1, <2>1, <3>2, <3>3, <3>4, <3>6
    <3>7. CASE ~Passed(b) /\ Passed(d)
      BY <1>1, <2>1, <3>2, <3>3, <3>4, <3>7
    <3>8. CASE Passed(b) /\ ~Passed(d) /\ ~Ahead(d, b) /\ Ahead(d, b)'
      BY <1>1, <2>1, <3>2, <3>3, <3>4, <3>8
    <3> QED
      BY <3>5, <3>6, <3>7, <3>8
  <2> QED
    BY <2>3, <2>4
<1> QED
  BY <1>2 DEF EldersInv

LEMMA EldersCorrect ==
  HistorySpec => [](TypeOK /\ HistoryInv /\ RingMatchesEntries /\ EldersInv)
<1>1. HistoryInit => RingMatchesEntries /\ EldersInv
  BY DEF HistoryInit, Init, RingMatchesEntries, EldersInv, Resident
<1>2. HistorySpec => [](TypeOK /\ HistoryInv)
  BY HistoryCorrect
<1>3. ASSUME TypeOK, TypeOK', HistoryInv, RingMatchesEntries, EldersInv,
             [HistoryNext]_<<vars, historyVars>>
      PROVE  RingMatchesEntries' /\ EldersInv'
  <2>1. RingMatchesEntries'
    BY <1>3, RingStep DEF HistoryNext
  <2>2. CASE HistoryNext
    BY <1>3, <2>1, <2>2, EldersStep
  <2>3. CASE UNCHANGED <<vars, historyVars>>
    BY <1>3, <2>1, <2>3 DEF vars, historyVars, EldersInv, Ahead, Resident
  <2> QED
    BY <1>3, <2>1, <2>2, <2>3
<1> QED
  BY <1>1, <1>2, <1>3, PTL DEF HistorySpec

(* The second chance is fair among the untouched: a block is evicted only
   when every block that has waited for longer was owed as many passes. *)
THEOREM WeakerElderCorrect == HistorySpec => WeakerElderGoesFirst
<1>1. ASSUME TypeOK, HistoryInv, RingMatchesEntries, EldersInv, Next,
             NEW b \in Blocks, Evicted(b), NEW d \in elders[b]
      PROVE  Survives(d) >= Survives(b)
  <2>1. passes[b] = Survives(b)
    BY <1>1, SurvivalStep
  <2>2. EvictHead
    BY <1>1, LookupHitResident, AgeHeadResident, InsertEntryResident
    DEF Evicted, Next, Insert, LookupMiss, InsertReturnsEarly, Stopped, vars,
        Resident, Missed
  <2>3. b = Head(clock_queue) /\ b \in Resident
    BY <1>1, <2>2, EvictHeadResident DEF Evicted, Resident
  <2>4. clock_queue # <<>> /\ clock_queue[1] = b /\ 1 \in DOMAIN clock_queue
    BY <1>1, <2>2, <2>3, TailIsShift DEF EvictHead, TypeOK
  <2>5. ~Ahead(d, b)
    BY <1>1, <2>4 DEF Ahead, RingMatchesEntries, TypeOK
  <2>6. d \in Resident /\ ~(passes[d] < passes[b])
    BY <1>1, <2>3, <2>5 DEF EldersInv
  <2>7. /\ passes[d] \in Nat /\ passes[b] \in Nat /\ touch[d] \in Nat
        /\ entries[d] \in Nat /\ Decayed(d)
    BY <1>1, <2>3, <2>6 DEF HistoryInv, TypeOK
  <2>8. Survives(d) \in Nat /\ passes[d] <= Survives(d)
    BY <2>7 DEF Decayed, Survives, MaxCountdown, HighCountdown
  <2> QED
    BY <2>1, <2>6, <2>7, <2>8
<1>2. TypeOK /\ HistoryInv /\ RingMatchesEntries /\ EldersInv
        /\ [HistoryNext]_<<vars, historyVars>>
        => [\A b \in Blocks : Evicted(b) =>
              \A d \in elders[b] : Survives(d) >= Survives(b)]_vars
  BY <1>1 DEF HistoryNext, historyVars
<1> QED
  BY <1>2, EldersCorrect, PTL DEF HistorySpec, WeakerElderGoesFirst

-----------------------------------------------------------------------------
(* The passes of the hand that what is resident can still take: one for each
   countdown it has left, and the one that evicts. *)
Passes(b) == {b} \X (0..entries[b])
PassesLeft == UNION {Passes(b) : b \in Resident}

LEMMA PassLeft ==
  ASSUME TypeOK, NEW b \in Resident, NEW n
  PROVE  <<b, n>> \in PassesLeft <=> n \in 0..entries[b]
BY DEF PassesLeft, Passes

(* A pass of the hand takes away at least one of the passes that were left,
   and gives back none. *)
LEMMA SweepShrinks ==
  ASSUME TypeOK, RingMatchesEntries, EvictHead \/ AgeHead
  PROVE  PassesLeft' \subseteq PassesLeft /\ PassesLeft' # PassesLeft
<1> DEFINE h == Head(clock_queue)
<1>1. MakingRoom
  BY DEF EvictHead, AgeHead
<1>2. h \in Resident /\ entries \in [Resident -> Nat] /\ entries[h] \in Nat
  BY <1>1, SweepCanProceed DEF TypeOK
<1>3. <<h, entries[h]>> \in PassesLeft
  BY <1>2, PassLeft
<1>4. /\ Resident' \subseteq Resident
      /\ \A b \in Resident' : entries'[b] \in Nat /\ entries'[b] <= entries[b]
      /\ h \in Resident' => entries'[h] < entries[h]
  <2>1. CASE EvictHead
    <3>1. Resident' = Resident \ {h}
      BY <2>1, EvictHeadResident
    <3>2. entries' = Restrict(entries, Resident \ {h})
      BY <2>1 DEF EvictHead
    <3>3. \A b \in Resident \ {h} : entries'[b] = entries[b]
      BY <3>2 DEF Restrict
    <3> QED
      BY <1>2, <3>1, <3>3
  <2>2. CASE AgeHead
    <3>1. Resident' = Resident
      BY <2>2, AgeHeadResident
    <3>2. /\ entries[h] # 0
          /\ entries' = [b \in Resident |-> IF b = h THEN Aged(entries[b])
                                            ELSE entries[b]]
      BY <1>2, <2>2 DEF AgeHead
    <3>3. Aged(entries[h]) \in Nat /\ Aged(entries[h]) < entries[h]
      BY <1>2, <3>2 DEF Aged, MaxCountdown, HighCountdown
    <3> QED
      BY <1>2, <3>1, <3>2, <3>3
  <2> QED
    BY <2>1, <2>2
<1>5. PassesLeft' \subseteq PassesLeft
  <2> SUFFICES ASSUME NEW p \in PassesLeft' PROVE p \in PassesLeft
    OBVIOUS
  <2>1. PICK b \in Resident' : p \in Passes(b)'
    BY DEF PassesLeft
  <2>2. PICK n \in 0..entries'[b] : p = <<b, n>>
    BY <2>1 DEF Passes
  <2>3. b \in Resident /\ n \in 0..entries[b]
    BY <1>2, <1>4, <2>1, <2>2
  <2> QED
    BY <2>2, <2>3, PassLeft
<1>6. <<h, entries[h]>> \notin PassesLeft'
  <2> SUFFICES ASSUME <<h, entries[h]>> \in PassesLeft' PROVE FALSE
    OBVIOUS
  <2>1. PICK b \in Resident' : <<h, entries[h]>> \in Passes(b)'
    BY DEF PassesLeft
  <2>2. b = h /\ entries[h] \in 0..entries'[h]
    BY <2>1 DEF Passes
  <2> QED
    BY <1>2, <1>4, <2>1, <2>2
<1> QED
  BY <1>3, <1>5, <1>6

LEMMA PassesStep ==
  ASSUME TypeOK, RingMatchesEntries, IsFiniteSet(PassesLeft), [Next]_vars
  PROVE  IsFiniteSet(PassesLeft)'
<1>1. ASSUME NEW b \in Blocks, LookupHit(b) PROVE IsFiniteSet(PassesLeft')
  <2>1. Resident' = Resident /\ b \in Resident
    BY <1>1, LookupHitResident DEF LookupHit
  <2>2. /\ entries \in [Resident -> Nat]
        /\ entries' = [entries EXCEPT ![b] = @ + 1]
    BY <1>1 DEF TypeOK, LookupHit
  <2>3. PassesLeft' \subseteq PassesLeft \cup {<<b, entries[b] + 1>>}
    <3> SUFFICES ASSUME NEW p \in PassesLeft'
                 PROVE  p \in PassesLeft \cup {<<b, entries[b] + 1>>}
      OBVIOUS
    <3>1. PICK c \in Resident : p \in Passes(c)'
      BY <2>1 DEF PassesLeft
    <3>2. PICK n \in 0..entries'[c] : p = <<c, n>>
      BY <3>1 DEF Passes
    <3>3. n \in 0..entries[c] \/ (c = b /\ n = entries[b] + 1)
      BY <2>1, <2>2, <3>1, <3>2
    <3> QED
      BY <3>1, <3>2, <3>3, PassLeft
  <2>4. IsFiniteSet(PassesLeft \cup {<<b, entries[b] + 1>>})
    BY FS_AddElement
  <2> QED
    BY <2>3, <2>4, FS_Subset
<1>2. CASE EvictHead \/ AgeHead
  BY <1>2, SweepShrinks, FS_Subset
<1>3. CASE InsertEntry
  <2>1. pending \notin Resident /\ Resident' = Resident \cup {pending}
    BY <1>3, InsertEntryResident
  <2>2. /\ \A b \in Resident : entries'[b] = entries[b]
        /\ entries'[pending] \in {2, 3}
    BY <1>3, <2>1 DEF InsertEntry, InitialCountdown, HighCountdown, LowCountdown
  <2> DEFINE new == {<<pending, 0>>, <<pending, 1>>, <<pending, 2>>, <<pending, 3>>}
  <2>3. PassesLeft' \subseteq PassesLeft \cup new
    <3> SUFFICES ASSUME NEW p \in PassesLeft' PROVE p \in PassesLeft \cup new
      OBVIOUS
    <3>1. PICK c \in Resident' : p \in Passes(c)'
      BY DEF PassesLeft
    <3>2. PICK n \in 0..entries'[c] : p = <<c, n>>
      BY <3>1 DEF Passes
    <3>3. CASE c = pending
      <4>1. n \in {0, 1, 2, 3}
        BY <2>2, <3>2, <3>3
      <4> QED
        BY <3>2, <3>3, <4>1
    <3>4. CASE c # pending
      <4>1. c \in Resident /\ n \in 0..entries[c]
        BY <2>1, <2>2, <3>1, <3>2, <3>4
      <4> QED
        BY <3>2, <4>1, PassLeft
    <3> QED
      BY <3>3, <3>4
  <2>4. IsFiniteSet(new)
    <3>1. new = ((({} \cup {<<pending, 0>>}) \cup {<<pending, 1>>})
                   \cup {<<pending, 2>>}) \cup {<<pending, 3>>}
      OBVIOUS
    <3>2. \A S, x : IsFiniteSet(S) => IsFiniteSet(S \cup {x})
      BY FS_AddElement
    <3>3. IsFiniteSet({})
      BY FS_EmptySet
    <3> HIDE DEF new
    <3>4. IsFiniteSet({} \cup {<<pending, 0>>})
      BY <3>2, <3>3, Zenon
    <3>5. IsFiniteSet(({} \cup {<<pending, 0>>}) \cup {<<pending, 1>>})
      BY <3>2, <3>4, Zenon
    <3>6. IsFiniteSet((({} \cup {<<pending, 0>>}) \cup {<<pending, 1>>})
                        \cup {<<pending, 2>>})
      BY <3>2, <3>5, Zenon
    <3> QED
      BY <3>1, <3>2, <3>6, Zenon
  <2> HIDE DEF new
  <2>5. IsFiniteSet(PassesLeft \cup new)
    BY <2>4, FS_Union
  <2> QED
    BY <2>3, <2>5, FS_Subset
<1>4. CASE UNCHANGED entries
  <2>1. PassesLeft' = PassesLeft
    BY <1>4 DEF PassesLeft, Passes, Resident
  <2> QED
    BY <2>1
<1>5. ASSUME NEW b \in Blocks, LookupMiss(b) PROVE UNCHANGED entries
  BY <1>5 DEF LookupMiss
<1>6. CASE InsertReturnsEarly \/ Stopped \/ UNCHANGED vars
  BY <1>4, <1>6 DEF InsertReturnsEarly, Stopped, vars
<1> QED
  BY <1>1, <1>2, <1>3, <1>4, <1>5, <1>6 DEF Next, Insert

(* The eviction loop cannot go on for ever: while it runs the hand has a block
   to evict or to age, and each of its steps takes away some of the finitely
   many passes that the resident blocks have left. *)
THEOREM SweepGetsShorter ==
  Spec => [][EvictHead \/ AgeHead =>
               /\ Cardinality(PassesLeft) \in Nat
               /\ Cardinality(PassesLeft') < Cardinality(PassesLeft)]_vars
<1> DEFINE Fewer == EvictHead \/ AgeHead =>
                      /\ Cardinality(PassesLeft) \in Nat
                      /\ Cardinality(PassesLeft') < Cardinality(PassesLeft)
<1>1. Init => IsFiniteSet(PassesLeft)
  <2> SUFFICES ASSUME Init PROVE IsFiniteSet(PassesLeft)
    OBVIOUS
  <2>1. PassesLeft = {}
    BY DEF Init, Resident, PassesLeft
  <2> QED
    BY <2>1, FS_EmptySet
<1>2. TypeOK /\ RingMatchesEntries /\ IsFiniteSet(PassesLeft) /\ [Next]_vars =>
        IsFiniteSet(PassesLeft)'
  BY PassesStep
<1>3. TypeOK /\ RingMatchesEntries /\ IsFiniteSet(PassesLeft) => Fewer
  <2> SUFFICES ASSUME TypeOK, RingMatchesEntries, IsFiniteSet(PassesLeft),
                      EvictHead \/ AgeHead
               PROVE  /\ Cardinality(PassesLeft) \in Nat
                      /\ Cardinality(PassesLeft') < Cardinality(PassesLeft)
    OBVIOUS
  <2>1. PassesLeft' \subseteq PassesLeft /\ PassesLeft' # PassesLeft
    BY SweepShrinks
  <2>2. Cardinality(PassesLeft) \in Nat
    BY FS_CardinalityType
  <2>3. IsFiniteSet(PassesLeft') /\ Cardinality(PassesLeft') \in Nat
    BY <2>1, FS_Subset, FS_CardinalityType
  <2>4. /\ Cardinality(PassesLeft') <= Cardinality(PassesLeft)
        /\ Cardinality(PassesLeft') = Cardinality(PassesLeft)
             => PassesLeft' = PassesLeft
    BY <2>1, FS_Subset
  <2> QED
    BY <2>1, <2>2, <2>3, <2>4
<1>4. [Next]_vars /\ TypeOK /\ RingMatchesEntries /\ IsFiniteSet(PassesLeft) =>
        [Fewer]_vars
  BY <1>3
<1> QED
  BY <1>1, <1>2, <1>4, TypeCorrect, RingCorrect, PTL DEF Spec
=============================================================================
